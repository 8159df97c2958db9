-------------------------------- MODULE Inflate --------------------------------
(***************************************************************************)
(* libdeflate_zlib_decompress (lib/zlib_decompress.c) on a chunk, with     *)
(* deflate_decompress (lib/decompress_impl.h) and the bit buffer of        *)
(* lib/deflate_decompress.c.  The result is what getDecompressChunk looks  *)
(* at (ChunkLoad); out_nbytes_avail is the size of a chunk, and no         *)
(* actual_out_nbytes_ret is given, so that the output must fill it.        *)
(*                                                                         *)
(* bitbuf is the sequence of its bits, the low-order one first.  A chunk   *)
(* is a record of its size, its header, the bits between header and        *)
(* footer, the footer's sums, and the size of what it holds.               *)
(***************************************************************************)
EXTENDS DecodeTable, Adler32

CONSTANTS
    Deflate,            \* the numbers of the format, see DeflateFormat
    WordSizes,          \* WORDBYTES: 4 or 8
    TableBits,          \* LITLEN_TABLEBITS and OFFSET_TABLEBITS
    Chunks

F == INSTANCE DeflateFormat

(* STATIC_ASSERT *)
BITBUF_NBITS(bytes) == 8 * bytes
CanEnsure(n, bytes) == n <= BITBUF_NBITS(bytes) - 7
LargestExtra(table) == Max({table[k].extra : k \in DOMAIN table})
HeaderBits == 1 + 2 + Deflate.litlen_count_bits + Deflate.offset_count_bits + Deflate.precode_count_bits
MaxLen == Deflate.max_codeword_len
MaxPrecodeLen == 2 ^ Deflate.precode_len_bits - 1
LargestRun == Max({Deflate.repeats[k].base + 2 ^ Deflate.repeats[k].extra - 1 : k \in DOMAIN Deflate.repeats})
ASSUME InflateAssumption ==
    /\ F!FormatFits
    /\ \A w \in WordSizes :
        /\ CanEnsure(HeaderBits, w)
        /\ CanEnsure(LargestExtra(Deflate.lengths) + MaxLen, w) /\ CanEnsure(LargestExtra(Deflate.offsets), w)
    /\ \A c \in Chunks : c.size >= 6 => Len(c.bits) = 8 * (c.size - 6)

(* lens has room for a run that begins at the last length *)
LensSize == F!NumLitlenSyms + F!NumOffsetSyms + LargestRun - 1

VARIABLES
    chunk, wordbytes,
    pc,
    in_next, bitbuf, bitsleft, overrun_count,
    is_final_block,
    num_litlen_syms, num_offset_syms, i,
    precode_lens, lens, precode_decode_table, litlen_decode_table, offset_decode_table,
    out, out_next,
    result

inVars    == <<in_next, bitbuf, bitsleft, overrun_count>>
codeVars  == <<num_litlen_syms, num_offset_syms, i, precode_lens, lens,
               precode_decode_table, litlen_decode_table, offset_decode_table>>
outVars   == <<out, out_next>>
vars == <<chunk, wordbytes, pc, inVars, is_final_block, codeVars, outVars, result, adlerVars>>

Empty == [k \in {} |-> 0]
Unset == -1
Zeros(w) == [k \in 1 .. BITBUF_NBITS(w) |-> 0]

Init ==
    /\ chunk \in Chunks /\ wordbytes \in WordSizes
    /\ pc = "zlib"
    /\ in_next = 0 /\ bitbuf = Zeros(wordbytes) /\ bitsleft = 0 /\ overrun_count = 0
    /\ is_final_block = FALSE
    /\ num_litlen_syms = 0 /\ num_offset_syms = 0 /\ i = 0
    /\ precode_lens = [k \in 1 .. F!NumPrecodeSyms |-> 0] /\ lens = [k \in 1 .. LensSize |-> 0]
    /\ precode_decode_table = Empty /\ litlen_decode_table = Empty /\ offset_decode_table = Empty
    /\ out = [k \in 1 .. chunk.out_nbytes_avail |-> Unset] /\ out_next = 0
    /\ result = "none"
    /\ AdlerIdle

Finish(r) == pc' = "done" /\ result' = r
Goto(at)  == pc' = at /\ UNCHANGED result
InEnd == Len(chunk.bits) \div 8

-----------------------------------------------------------------------------
(* the bit buffer; b is a record of in_next, bitbuf, bitsleft and          *)
(* overrun_count                                                           *)
Buffer == [in_next |-> in_next, bitbuf |-> bitbuf, bitsleft |-> bitsleft, overrun_count |-> overrun_count]
SetBuffer(b) ==
    /\ in_next' = b.in_next /\ bitbuf' = b.bitbuf
    /\ bitsleft' = b.bitsleft /\ overrun_count' = b.overrun_count

NBits == BITBUF_NBITS(wordbytes)

(* n bits of the input, or-ed into the buffer behind what is left *)
OrIn(b, n) ==
    [k \in 1 .. NBits |-> IF k > b.bitsleft /\ k <= b.bitsleft + n
                          THEN Max({b.bitbuf[k], chunk.bits[8 * b.in_next + k - b.bitsleft]})
                          ELSE b.bitbuf[k]]

(* behind the end of the input nothing is read, but counted *)
FillBitsBytewise(b) ==
    LET bytes == ((NBits - 8 - b.bitsleft) \div 8) + 1
        real  == Min({bytes, InEnd - b.in_next})
    IN  [in_next |-> b.in_next + real, bitbuf |-> OrIn(b, 8 * real),
         bitsleft |-> b.bitsleft + 8 * bytes, overrun_count |-> b.overrun_count + bytes - real]

(* A whole word is or-ed in, also the bits of its last byte that are not   *)
(* counted: they will be read again                                        *)
FillBitsWordwise(b) ==
    LET bytes == (NBits - b.bitsleft) \div 8
    IN  [b EXCEPT !.in_next = @ + bytes, !.bitbuf = OrIn(b, NBits - b.bitsleft), !.bitsleft = @ + 8 * bytes]

EnsureBits(b, n) ==
    IF b.bitsleft >= n THEN b
    ELSE IF InEnd - b.in_next >= wordbytes THEN FillBitsWordwise(b) ELSE FillBitsBytewise(b)

Bits(b, n) == SumFunction([k \in 1 .. n |-> b.bitbuf[k] * 2 ^ (k - 1)])
RemoveBits(b, n) ==
    [b EXCEPT !.bitbuf = [k \in 1 .. NBits |-> IF k + n <= NBits THEN @[k + n] ELSE 0], !.bitsleft = @ - n]

AlignInput(b) ==
    LET whole == b.bitsleft \div 8
    IN  [b EXCEPT !.in_next = @ - (whole - Min({b.overrun_count, whole})),
                  !.bitbuf = Zeros(wordbytes), !.bitsleft = 0]

-----------------------------------------------------------------------------
ZLIB_MIN_OVERHEAD == 6

(* libdeflate_zlib_decompress, up to the compressed data *)
ZlibHeader ==
    /\ pc = "zlib"
    /\ IF \/ chunk.size < ZLIB_MIN_OVERHEAD
          \/ chunk.hdr % 31 # 0
          \/ (chunk.hdr \div 256) % 16 # 8        \* DEFLATE
          \/ chunk.hdr \div 4096 > 7              \* a window of 32K
          \/ (chunk.hdr \div 32) % 2 = 1          \* a preset dictionary
       THEN Finish("bad data") ELSE Goto("next_block")
    /\ UNCHANGED <<chunk, wordbytes, inVars, is_final_block, codeVars, outVars, adlerVars>>

(* the header of a block is in the buffer and its type is type *)
BlockBuffer == EnsureBits(Buffer, HeaderBits)
Block(type) ==
    /\ pc = "next_block"
    /\ Bits(RemoveBits(BlockBuffer, 1), 2) = type
    /\ is_final_block' = (Bits(BlockBuffer, 1) = 1)
    /\ UNCHANGED <<chunk, wordbytes>>
BlockBody == RemoveBits(BlockBuffer, 3)

(* block_done; then the checksum of what was written *)
BlockDone(final, bytes, written) ==
    IF ~final THEN Goto("next_block") /\ UNCHANGED adlerVars
    ELSE IF written # chunk.out_nbytes_avail THEN Finish("short output") /\ UNCHANGED adlerVars
    ELSE Goto("adler") /\ StartAdler(bytes)

(* what lies in a union: writing the one overwrites the other *)
Scribbled(n) == [k \in 1 .. n |-> 1]

ReservedBlock ==
    /\ Block(3)
    /\ Finish("bad data") /\ SetBuffer(BlockBody)
    /\ UNCHANGED <<codeVars, outVars, adlerVars>>

StoredBlock ==
    /\ Block(0)
    /\ LET aligned == AlignInput(BlockBody)
           word(at) == SumFunction([k \in 1 .. 16 |-> chunk.bits[8 * at + k] * 2 ^ (k - 1)])
           byte(at) == SumFunction([k \in 1 .. 8 |-> chunk.bits[8 * at + k] * 2 ^ (k - 1)])
           len   == word(aligned.in_next)
           data  == aligned.in_next + 4
           bytes == [k \in out_next + 1 .. out_next + len |-> byte(data + k - out_next - 1)] @@ out
           stop(r) == Finish(r) /\ SetBuffer(aligned) /\ UNCHANGED <<outVars, adlerVars>>
       IN  IF InEnd - aligned.in_next < 4 THEN stop("bad data")
           ELSE IF len + word(aligned.in_next + 2) # 65535 THEN stop("bad data")
           ELSE IF len > chunk.out_nbytes_avail - out_next THEN stop("insufficient space")
           ELSE IF len > InEnd - data THEN stop("bad data")
           ELSE /\ SetBuffer([aligned EXCEPT !.in_next = data + len])
                /\ out' = bytes /\ out_next' = out_next + len
                /\ BlockDone(is_final_block', bytes, out_next + len)
    /\ UNCHANGED codeVars

StaticBlock ==
    /\ Block(1)
    /\ SetBuffer(BlockBody)
    /\ num_litlen_syms' = F!NumLitlenSyms /\ num_offset_syms' = F!NumOffsetSyms
    /\ i' = F!NumLitlenSyms + F!NumOffsetSyms
    /\ lens' = Deflate.static_litlen \o Deflate.static_offset \o SubSeq(lens, i' + 1, LensSize)
    /\ precode_lens' = Scribbled(F!NumPrecodeSyms) /\ litlen_decode_table' = Empty
    /\ Goto("lens")
    /\ UNCHANGED <<precode_decode_table, offset_decode_table, outVars, adlerVars>>

-----------------------------------------------------------------------------
(* a dynamic block: how many symbols, and the precode *)
ReadPrecodeLens(b, n) ==
    LET bits == Deflate.precode_len_bits
        once == CanEnsure(F!NumPrecodeSyms * bits, wordbytes)
        pop(acc, sym) ==
            LET c == IF once THEN acc.b ELSE EnsureBits(acc.b, bits)
            IN  [b |-> RemoveBits(c, bits), lens |-> [acc.lens EXCEPT ![sym + 1] = Bits(c, bits)]]
    IN  FoldLeft(pop, [b |-> IF once THEN EnsureBits(b, F!NumPrecodeSyms * bits) ELSE b,
                       lens |-> [k \in 1 .. F!NumPrecodeSyms |-> 0]],
                 SubSeq(Deflate.precode_permutation, 1, n))

DynamicBlock ==
    /\ Block(2)
    /\ LET b == RemoveBits(BlockBody, Deflate.litlen_count_bits)
           c == RemoveBits(b, Deflate.offset_count_bits)
           n == Bits(c, Deflate.precode_count_bits) + Deflate.min_precode_lens
           precode == ReadPrecodeLens(RemoveBits(c, Deflate.precode_count_bits), n)
       IN  /\ num_litlen_syms' = Bits(BlockBody, Deflate.litlen_count_bits) + F!MinLitlenSyms
           /\ num_offset_syms' = Bits(b, Deflate.offset_count_bits) + 1
           /\ SetBuffer(precode.b)
           /\ precode_lens' = precode.lens
           /\ IF ValidCode(LenCounts(precode.lens, MaxPrecodeLen), MaxPrecodeLen)
              THEN /\ precode_decode_table' = BuildDecodeTable(precode.lens, MaxPrecodeLen, MaxPrecodeLen)
                   /\ Goto("lens")
              ELSE Finish("bad data") /\ UNCHANGED precode_decode_table
    /\ i' = 0
    /\ lens' = Scribbled(LensSize) /\ litlen_decode_table' = Empty
    /\ UNCHANGED <<offset_decode_table, outVars, adlerVars>>

(* one symbol of the precode.  A run with few extra bits is written as     *)
(* long as it could be, whatever its length; it may go over the end.       *)
ExpandLens ==
    /\ pc = "lens" /\ i < num_litlen_syms + num_offset_syms
    /\ LET b == EnsureBits(Buffer, MaxPrecodeLen + LargestExtra(Deflate.repeats))
           e == LookUpEntry(precode_decode_table, Bits(b, MaxPrecodeLen), MaxPrecodeLen)
           c == RemoveBits(b, e.bits)
           run     == Deflate.repeats[e.sym - MaxLen]
           count   == run.base + Bits(c, run.extra)
           written == IF run.exact THEN count ELSE run.base + 2 ^ run.extra - 1
           value   == IF run.previous THEN lens[i] ELSE 0
       IN  IF e.sym <= MaxLen
           THEN SetBuffer(c) /\ lens' = [lens EXCEPT ![i + 1] = e.sym] /\ i' = i + 1 /\ Goto("lens")
           ELSE IF run.previous /\ i = 0
           THEN SetBuffer(c) /\ UNCHANGED <<lens, i>> /\ Finish("bad data")
           ELSE /\ SetBuffer(RemoveBits(c, run.extra))
                /\ lens' = [k \in i + 1 .. i + written |-> value] @@ lens
                /\ i' = i + count /\ Goto("lens")
    /\ precode_lens' = Scribbled(F!NumPrecodeSyms)
    /\ UNCHANGED <<chunk, wordbytes, is_final_block, num_litlen_syms, num_offset_syms, precode_decode_table,
                   litlen_decode_table, offset_decode_table, outVars, adlerVars>>

LitlenLens == SubSeq(lens, 1, num_litlen_syms)
OffsetLens == SubSeq(lens, num_litlen_syms + 1, num_litlen_syms + num_offset_syms)
Valid(code) == ValidCode(LenCounts(code, MaxLen), MaxLen)

LensRead ==
    /\ pc = "lens" /\ i >= num_litlen_syms + num_offset_syms
    /\ UNCHANGED <<chunk, wordbytes, inVars, is_final_block, num_litlen_syms, num_offset_syms, i, outVars, adlerVars>>

(* mutant: the table that lies over the lengths is built first *)
BuildTablesLitlenFirst ==
    /\ LensRead
    /\ LET over == Scribbled(num_offset_syms)
       IN  IF Valid(LitlenLens) /\ Valid(over)
           THEN /\ litlen_decode_table' = BuildDecodeTable(LitlenLens, TableBits.litlen, MaxLen)
                /\ offset_decode_table' = BuildDecodeTable(over, TableBits.offset, MaxLen)
                /\ Goto("symbols")
           ELSE Finish("bad data") /\ UNCHANGED <<offset_decode_table, litlen_decode_table>>
    /\ lens' = Scribbled(LensSize) /\ precode_decode_table' = Empty /\ precode_lens' = Scribbled(F!NumPrecodeSyms)

(* the offset table is built from lens, then the other written over lens *)
BuildTables ==
    /\ LensRead
    /\ IF Valid(OffsetLens) /\ Valid(LitlenLens)
       THEN /\ offset_decode_table' = BuildDecodeTable(OffsetLens, TableBits.offset, MaxLen)
            /\ litlen_decode_table' = BuildDecodeTable(LitlenLens, TableBits.litlen, MaxLen)
            /\ Goto("symbols")
       ELSE Finish("bad data") /\ UNCHANGED <<offset_decode_table, litlen_decode_table>>
    /\ lens' = Scribbled(LensSize) /\ precode_decode_table' = Empty /\ precode_lens' = Scribbled(F!NumPrecodeSyms)

-----------------------------------------------------------------------------
(* the loop over the symbols of a block *)
InsufficientSpace == Finish("insufficient space")

LitlenBuffer == EnsureBits(Buffer, MaxLen)
LitlenEntry  == LookUpEntry(litlen_decode_table, Bits(LitlenBuffer, MaxLen), TableBits.litlen)
LitlenBody   == RemoveBits(LitlenBuffer, LitlenEntry.bits)
Symbol ==
    /\ pc = "symbols"
    /\ UNCHANGED <<chunk, wordbytes, is_final_block, codeVars>>

Literal ==
    /\ Symbol /\ LitlenEntry.sym < F!EndOfBlock
    /\ SetBuffer(LitlenBody)
    /\ IF out_next = chunk.out_nbytes_avail
       THEN InsufficientSpace /\ UNCHANGED outVars
       ELSE /\ out' = [out EXCEPT ![out_next + 1] = LitlenEntry.sym] /\ out_next' = out_next + 1
            /\ Goto("symbols")
    /\ UNCHANGED adlerVars

MaxEnsure == NBits - 7

EndOfBlock ==
    /\ Symbol /\ LitlenEntry.sym = F!EndOfBlock
    /\ SetBuffer(EnsureBits(LitlenBody, MaxEnsure))
    /\ BlockDone(is_final_block, out, out_next)
    /\ UNCHANGED outVars

(* mutant: the words of the last copy may go over the end *)
CopyMatchOver(length, offset) ==
    LET word(o, at) == [k \in at + 1 .. at + wordbytes |-> o[k - offset]] @@ o
        byte(o, at) == [o EXCEPT ![at + 1] = o[at + 1 - offset]]
        words == (length + wordbytes - 1) \div wordbytes
    IN  IF offset >= wordbytes
        THEN FoldLeft(word, out, [k \in 1 .. words |-> out_next + wordbytes * (k - 1)])
        ELSE FoldLeft(byte, out, [k \in 1 .. length |-> out_next + k - 1])

(* length bytes from offset before: by words where these fit behind the    *)
(* match, which is then followed by bytes that the next match overwrites   *)
CopyMatch(length, offset) ==
    LET W == wordbytes
        behind == chunk.out_nbytes_avail - out_next - length
        copy(o, at, n) == [k \in at + 1 .. at + n |-> o[k - offset]] @@ o
        word(o, at) == copy(o, at, W)
        byte(o, at) == copy(o, at, 1)
        fill(o, at) == [k \in at + 1 .. at + W |-> o[out_next]] @@ o
        each(Step(_, _), n, count) == FoldLeft(Step, out, [k \in 1 .. count |-> out_next + n * (k - 1)])
        words == (length + W - 1) \div W
    IN  IF length <= 3 * W /\ offset >= W /\ length + 3 * W <= chunk.out_nbytes_avail - out_next
        THEN each(word, W, 3)
        ELSE IF behind >= W - 1 /\ offset >= W THEN each(word, W, words)
        ELSE IF behind >= W - 1 /\ offset = 1  THEN each(fill, W, words)
        ELSE each(byte, 1, Max({3, length}))

(* base and extra bits; the code has them in the table entries *)
LengthResult(sym) == Deflate.lengths[sym - F!EndOfBlock]
OffsetResult(sym) == Deflate.offsets[sym + 1]

Match ==
    /\ Symbol /\ LitlenEntry.sym > F!EndOfBlock
    /\ LET b      == EnsureBits(LitlenBody, MaxEnsure)
           l      == LengthResult(LitlenEntry.sym)
           length == l.base + Bits(b, l.extra)
           c      == RemoveBits(b, l.extra)
           entry  == LookUpEntry(offset_decode_table, Bits(c, MaxLen), TableBits.offset)
           d      == RemoveBits(c, entry.bits)
           extra  == LargestExtra(Deflate.offsets)
           e      == IF CanEnsure(LargestExtra(Deflate.lengths) + MaxLen + extra, wordbytes) THEN d
                     ELSE EnsureBits(d, extra)
           o      == OffsetResult(entry.sym)
           offset == o.base + Bits(e, o.extra)
       IN  IF length > chunk.out_nbytes_avail - out_next
           THEN SetBuffer(c) /\ InsufficientSpace /\ UNCHANGED outVars
           ELSE /\ SetBuffer(RemoveBits(e, o.extra))
                /\ IF offset > out_next THEN Finish("bad data") /\ UNCHANGED outVars
                   ELSE out' = CopyMatch(length, offset) /\ out_next' = out_next + length /\ Goto("symbols")
    /\ UNCHANGED adlerVars

-----------------------------------------------------------------------------
(* libdeflate_zlib_decompress: the checksum of what was written *)
Checksum ==
    /\ pc = "adler" /\ phase # "done"
    /\ AdlerNext
    /\ UNCHANGED <<chunk, wordbytes, pc, inVars, is_final_block, codeVars, outVars, result>>

CompareChecksum ==
    /\ pc = "adler" /\ phase = "done"
    /\ Finish(IF <<s2, s1>> = chunk.footer THEN "success" ELSE "bad data")
    /\ UNCHANGED <<chunk, wordbytes, inVars, is_final_block, codeVars, outVars, adlerVars>>

(* elsewhere the call always goes on: the runs check that it never stops *)
Returned == pc = "done" /\ UNCHANGED vars

Next ==
    \/ ZlibHeader
    \/ ReservedBlock \/ StoredBlock \/ StaticBlock \/ DynamicBlock
    \/ ExpandLens \/ BuildTables
    \/ Literal \/ EndOfBlock \/ Match
    \/ Checksum \/ CompareChecksum
    \/ Returned

Spec == Init /\ [][Next]_vars

-----------------------------------------------------------------------------
(* Nothing is read behind the input, written behind the output or behind   *)
(* the lengths, and no more bits are taken than the buffer has.            *)
InflateTypeOK ==
    /\ in_next \in 0 .. InEnd /\ bitsleft \in 0 .. NBits /\ overrun_count \in Nat
    /\ out_next \in 0 .. chunk.out_nbytes_avail
    /\ DOMAIN out = 1 .. chunk.out_nbytes_avail /\ DOMAIN lens = 1 .. LensSize

(* The tables decode as the code does that the lengths define: they are    *)
(* built if there is one, and of every word that begins with a codeword    *)
(* they give the symbol and the length.                                    *)
TableRight(code, table_bits) ==
    /\ Valid(code) = F!IsCode(code)
    /\ Valid(code) =>
         \A word \in 0 .. 2 ^ MaxLen - 1 :
            LET sym == F!SymbolAt([k \in 1 .. MaxLen |-> Bit(word, k - 1)], 0, code)
            IN  sym # F!Unassigned =>
                  LookUpEntry(BuildDecodeTable(code, table_bits, MaxLen), word, table_bits)
                    = [sym |-> sym, bits |-> LenOf(code, sym)]
TablesRight ==
    pc = "lens" /\ i >= num_litlen_syms + num_offset_syms =>
        TableRight(LitlenLens, TableBits.litlen) /\ TableRight(OffsetLens, TableBits.offset)

(* The call ends with what the format says of the chunk, whatever the word *)
(* size: bits are not lost or read twice where blocks, fills and rewinds   *)
(* meet.  A stream that ends too early may be taken as if 0 followed, and  *)
(* an incomplete code may decode what it does not assign; but even then    *)
(* what is accepted has the checksum.                                      *)
FooterRight == chunk.footer = <<AdlerOf(out)[2], AdlerOf(out)[1]>>
HeaderRight ==
    /\ chunk.size >= ZLIB_MIN_OVERHEAD
    /\ chunk.hdr % 31 = 0 /\ chunk.hdr \div 4096 <= 7 /\ (chunk.hdr \div 256) % 16 = 8 /\ Bit(chunk.hdr, 5) = 0
InflateExact ==
    pc = "done" =>
        \A meant \in {F!Inflated(chunk.bits, chunk.out_nbytes_avail)} :
            LET short == Len(meant.out) < chunk.out_nbytes_avail
            IN  /\ result = "success" => HeaderRight /\ out_next = Len(out) /\ FooterRight
                /\ HeaderRight =>
                     CASE meant.status = "bad" -> result = "bad data"
                       [] meant.status = "insufficient space" -> result = "insufficient space"
                       [] meant.status = "success" /\ short -> result = "short output"
                       [] meant.status = "success" /\ ~short ->
                            /\ result = IF FooterRight THEN "success" ELSE "bad data"
                            /\ \A k \in DOMAIN out : out[k] = meant.out[k]
                       [] OTHER -> TRUE

=============================================================================
