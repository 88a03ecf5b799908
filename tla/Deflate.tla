------------------------------ MODULE Deflate ------------------------------
(***************************************************************************)
(* The blocks of a deflate stream, the zlib wrapper around it and the      *)
(* reader of both, from lodepng.c.  A stream is a sequence of bits in the  *)
(* order they are written and read.  The tables of the format are those of *)
(* the code; the sizes of a block are parameters, so that several blocks   *)
(* occur on small inputs.                                                  *)
(***************************************************************************)
EXTENDS Huffman, Lz77

CONSTANT MaxStored          (* 65535: the largest stored block *)

LengthBase == <<3, 4, 5, 6, 7, 8, 9, 10, 11, 13, 15, 17, 19, 23, 27, 31, 35, 43,
                51, 59, 67, 83, 99, 115, 131, 163, 195, 227, 258>>
LengthExtra == <<0, 0, 0, 0, 0, 0, 0, 0, 1, 1, 1, 1, 2, 2, 2, 2, 3, 3, 3, 3,
                 4, 4, 4, 4, 5, 5, 5, 5, 0>>
DistanceBase == <<1, 2, 3, 4, 5, 7, 9, 13, 17, 25, 33, 49, 65, 97, 129, 193, 257,
                  385, 513, 769, 1025, 1537, 2049, 3073, 4097, 6145, 8193, 12289,
                  16385, 24577>>
DistanceExtra == <<0, 0, 0, 0, 1, 1, 2, 2, 3, 3, 4, 4, 5, 5, 6, 6, 7, 7, 8, 8,
                   9, 9, 10, 10, 11, 11, 12, 12, 13, 13>>
CodeLengthOrder == <<16, 17, 18, 0, 8, 7, 9, 6, 10, 5, 11, 4, 12, 3, 13, 2, 14, 1, 15>>

Concat(pieces) == FoldLeft(LAMBDA all, piece : all \o piece, <<>>, pieces)

ByteBits(bytes) == Concat([i \in DOMAIN bytes |-> BitsOf(bytes[i], 8)])

Aligned(bp) == ((bp + 7) \div 8) * 8

(* A writer starts a new byte for the first bit after a full one. *)
PadToByte(bits) == bits \o [i \in 1..(Aligned(Len(bits)) - Len(bits)) |-> 0]

(***************************************************************************)
(* The writer.                                                             *)
(***************************************************************************)

(* searchCodeIndex: the last entry that is not larger. *)
SearchCodeIndex(base, value) == Max({k \in DOMAIN base : base[k] <= value})

(* addLengthDistance: the two codes and their extra bits. *)
LengthDistance(token) ==
  LET l == SearchCodeIndex(LengthBase, token[1])
      d == SearchCodeIndex(DistanceBase, token[2])
  IN  [symbol |-> 256 + l, extra |-> token[1] - LengthBase[l],
       extrabits |-> LengthExtra[l],
       distance |-> d - 1, extradist |-> token[2] - DistanceBase[d],
       distbits |-> DistanceExtra[d]]

SymbolOf(token) == IF Len(token) = 1 THEN token[1] ELSE LengthDistance(token).symbol

Frequency(n, symbols, last) ==
  [k \in 0..last |-> Cardinality({i \in DOMAIN symbols : symbols[i] = k})
                       + (IF k = n THEN 1 ELSE 0)]

(* writeLZ77data. *)
TokenBits(token, ll, d) ==
  IF Len(token) = 1 THEN ll.codes[token[1]]
  ELSE LET s == LengthDistance(token)
       IN  ll.codes[s.symbol] \o BitsOf(s.extra, s.extrabits)
             \o d.codes[s.distance] \o BitsOf(s.extradist, s.distbits)

LZ77Bits(tokens, ll, d) ==
  Concat([i \in DOMAIN tokens |-> TokenBits(tokens[i], ll, d)]) \o ll.codes[256]

(* The lengths of both trees, with runs of three and more written as a     *)
(* repetition: <<16, n>> repeats the length before it n + 3 times, <<17,   *)
(* n>> and <<18, n>> stand for n + 3 and n + 11 zeros.                     *)
Following(lengths, i) ==
  (CHOOSE k \in (i + 1)..(Len(lengths) + 1) :
     /\ k = Len(lengths) + 1 \/ lengths[k] # lengths[i]
     /\ \A m \in (i + 1)..(k - 1) : lengths[m] = lengths[i]) - (i + 1)

RECURSIVE RunLengths(_, _)
RunLengths(lengths, i) ==
  LET j == Following(lengths, i)
      zeros == Least(j + 1, 138)
      num == j \div 6
      rest == j % 6
      Repeats == [k \in 1..num |-> <<16, 3>>]
                   \o (IF rest >= 3 THEN <<<<16, rest - 3>>>> ELSE <<>>)
      covered == IF rest >= 3 THEN j ELSE j - rest
  IN  CASE i > Len(lengths) -> <<>>
        [] i <= Len(lengths) /\ lengths[i] = 0 /\ j >= 2 ->
             <<IF j + 1 <= 10 THEN <<17, j + 1 - 3>> ELSE <<18, zeros - 11>>>>
               \o RunLengths(lengths, i + zeros)
        [] i <= Len(lengths) /\ lengths[i] # 0 /\ j >= 3 ->
             <<<<lengths[i]>>>> \o Repeats \o RunLengths(lengths, i + 1 + covered)
        [] OTHER -> <<<<lengths[i]>>>> \o RunLengths(lengths, i + 1)

ExtraBits(code) == CASE code = 16 -> 2 [] code = 17 -> 3 [] code = 18 -> 7 [] OTHER -> 0

RunBits(run, cl) ==
  cl.codes[run[1]] \o (IF Len(run) = 1 THEN <<>> ELSE BitsOf(run[2], ExtraBits(run[1])))

(* The trees of a dynamic block, and how they are written before its data. *)
LitLenTree(tokens) ==
  MakeFromFrequencies(Frequency(256, [i \in DOMAIN tokens |-> SymbolOf(tokens[i])], 285),
                      257, 15)

DistanceTree(tokens) ==
  LET matches == SelectSeq(tokens, LAMBDA t : Len(t) = 2)
  IN  MakeFromFrequencies(
        Frequency(Unset, [i \in DOMAIN matches |-> LengthDistance(matches[i]).distance], 29),
        2, 15)

LengthSeq(tree) == [i \in 1..Cardinality(DOMAIN tree.lengths) |-> tree.lengths[i - 1]]

TreeBits(ll, d) ==
  LET runs == RunLengths(LengthSeq(ll) \o LengthSeq(d), 1)
      cl == MakeFromFrequencies(Frequency(Unset, [i \in DOMAIN runs |-> runs[i][1]], 18), 19, 7)
      clcl == [i \in 1..19 |-> cl.lengths[CodeLengthOrder[i]]]
      numcodes == Max({4} \cup {i \in 1..19 : clcl[i] # 0})
  IN  BitsOf(Len(LengthSeq(ll)) - 257, 5) \o BitsOf(Len(LengthSeq(d)) - 1, 5)
        \o BitsOf(numcodes - 4, 4)
        \o Concat([i \in 1..numcodes |-> BitsOf(clcl[i], 3)])
        \o Concat([i \in DOMAIN runs |-> RunBits(runs[i], cl)])

DeflateDynamic(tokens, final) ==
  LET ll == LitLenTree(tokens)
      d == DistanceTree(tokens)
  IN  <<final, 0, 1>> \o TreeBits(ll, d) \o LZ77Bits(tokens, ll, d)

DeflateFixed(tokens, final) ==
  <<final, 1, 0>> \o LZ77Bits(tokens, FixedLitLen, FixedDistance)

(* Stored blocks: each starts on a byte of its own. *)
RECURSIVE DeflateNoCompression(_)
DeflateNoCompression(data) ==
  LET n == Least(Len(data), MaxStored)
      final == IF Len(data) <= MaxStored THEN 1 ELSE 0
  IN  IF data = <<>> THEN <<>>
      ELSE BitsOf(final, 8) \o BitsOf(n, 16) \o BitsOf(65535 - n, 16)
             \o ByteBits(SubSeq(data, 1, n))
             \o DeflateNoCompression(SubSeq(data, n + 1, Len(data)))

(***************************************************************************)
(* The wrapper: two bytes of header, the sums of the data at the end.      *)
(***************************************************************************)

Adler32(data) ==
  LET sums == FoldLeft(LAMBDA s, byte : [s1 |-> (s.s1 + byte) % 65521,
                                         s2 |-> (s.s2 + s.s1 + byte) % 65521],
                       [s1 |-> 1, s2 |-> 0], data)
  IN  <<sums.s2 \div 256, sums.s2 % 256, sums.s1 \div 256, sums.s1 % 256>>

ZlibHeader == LET cmfflg == 256 * 120
                  fcheck == 31 - (cmfflg % 31)
              IN  ByteBits(<<120, (cmfflg + fcheck) % 256>>)

ZlibCompressed(deflated, data) ==
  ZlibHeader \o PadToByte(deflated) \o ByteBits(Adler32(data))

(***************************************************************************)
(* The reader.  A result is the output so far, the position of the reader  *)
(* and an error.                                                           *)
(***************************************************************************)

Number(in, bp, n) == FoldLeft(LAMBDA v, k : 2 * v + BitAt(in, bp + n + 1 - k),
                              0, [k \in 1..n |-> k])

Failed(r, error) == [r EXCEPT !.error = error]

(* The lengths of the two trees of a dynamic block. *)
RECURSIVE ReadLengths(_, _, _, _, _)
ReadLengths(in, cl, total, bp, lengths) ==
  LET read == DecodeSymbol(cl, in, bp)
      code == read.symbol
      after == read.bp + ExtraBits(code)
      extra == Number(in, read.bp, ExtraBits(code))
      count == CASE code = 18 -> 11 + extra [] code \in {16, 17} -> 3 + extra [] OTHER -> 1
      value == CASE code = 16 -> lengths[Len(lengths)] [] code \in {17, 18} -> 0 [] OTHER -> code
      longer == lengths \o [k \in 1..count |-> value]
      error == IF code = INVALIDSYMBOL THEN 16
               ELSE IF code = 16 /\ lengths = <<>> THEN 54
               ELSE IF after > Len(in) THEN 50
               ELSE IF Len(longer) > total THEN code - 3
               ELSE 0
  IN  CASE Len(lengths) = total -> [lengths |-> lengths, bp |-> bp, error |-> 0]
        [] Len(lengths) < total /\ error # 0 ->
             [lengths |-> lengths, bp |-> after, error |-> error]
        [] OTHER -> ReadLengths(in, cl, total, after, longer)

(* getTreeInflateDynamic. *)
ReadTrees(in, bp) ==
  LET hlit == Number(in, bp, 5) + 257
      hdist == Number(in, bp + 5, 5) + 1
      hclen == Number(in, bp + 10, 4) + 4
      Length(i) == IF i <= hclen THEN Number(in, bp + 14 + 3 * (i - 1), 3) ELSE 0
      cl == MakeFromLengths([n \in 0..18 |-> Length(CHOOSE i \in 1..19 : CodeLengthOrder[i] = n)], 7)
      read == ReadLengths(in, cl, hlit + hdist, bp + 14 + 3 * hclen, <<>>)
      ll == MakeFromLengths([n \in 0..287 |-> IF n < hlit THEN read.lengths[n + 1] ELSE 0], 15)
      d == MakeFromLengths([n \in 0..31 |-> IF n < hdist THEN read.lengths[hlit + n + 1] ELSE 0], 15)
      error == IF Len(in) - bp < 14 THEN 49
               ELSE IF bp + 14 + 3 * hclen > Len(in) THEN 50
               ELSE IF cl.error # 0 THEN cl.error
               ELSE IF read.error # 0 THEN read.error
               ELSE IF ll.lengths[256] = 0 THEN 64
               ELSE IF ll.error # 0 THEN ll.error
               ELSE d.error
  IN  IF error = 0 THEN [ll |-> ll, d |-> d, bp |-> read.bp, error |-> 0]
      ELSE [ll |-> <<>>, d |-> <<>>, bp |-> bp, error |-> error]

(* One symbol of a block with its distance, or the end code. *)
ReadSymbol(in, ll, d, r) ==
  LET read == DecodeSymbol(ll, in, r.bp)
      code == read.symbol
      l == code - 256
      length == LengthBase[l] + Number(in, read.bp, LengthExtra[l])
      dist == DecodeSymbol(d, in, read.bp + LengthExtra[l])
      k == dist.symbol + 1
      distance == DistanceBase[k] + Number(in, dist.bp, DistanceExtra[k])
  IN  IF code <= 255 THEN [r EXCEPT !.out = Append(@, code), !.bp = read.bp]
      ELSE IF code = 256 THEN [r EXCEPT !.bp = read.bp, !.done = TRUE]
      ELSE IF code > 285 THEN Failed(r, 16)
      ELSE IF dist.symbol > 29 THEN Failed(r, IF dist.symbol <= 31 THEN 18 ELSE 16)
      ELSE IF distance > Len(r.out) THEN Failed(r, 52)
      ELSE [r EXCEPT !.out = Repeat(@, length, distance),
                     !.bp = dist.bp + DistanceExtra[k]]

(* The symbols up to the end code.  One that follows a literal is read     *)
(* before the position is compared with the end.                           *)
RECURSIVE ReadSymbols(_, _, _, _)
ReadSymbols(in, ll, d, r) ==
  LET Another(first) ==
        IF first.error = 0 /\ Len(first.out) = Len(r.out) + 1
        THEN ReadSymbol(in, ll, d, first) ELSE first
      Onwards(next) ==
        CASE next.error # 0 -> next
          [] next.error = 0 /\ next.bp > Len(in) -> Failed(next, 51)
          [] next.error = 0 /\ next.bp <= Len(in) /\ next.done -> next
          [] OTHER -> ReadSymbols(in, ll, d, next)
  IN  Onwards(Another(ReadSymbol(in, ll, d, r)))

InflateHuffmanBlock(in, r, btype) ==
  LET With(trees) ==
        IF trees.error # 0 THEN Failed(r, trees.error)
        ELSE ReadSymbols(in, trees.ll, trees.d, [r EXCEPT !.bp = trees.bp])
  IN  With(IF btype = 1
           THEN [ll |-> FixedLitLen, d |-> FixedDistance, bp |-> r.bp, error |-> 0]
           ELSE ReadTrees(in, r.bp))

InflateNoCompression(in, r) ==
  LET bp == Aligned(r.bp)
      len == Number(in, bp, 16)
      nlen == Number(in, bp + 16, 16)
      bytes == [i \in 1..len |-> Number(in, bp + 32 + 8 * (i - 1), 8)]
  IN  IF bp + 32 >= Len(in) THEN Failed(r, 52)
      ELSE IF len + nlen # 65535 THEN Failed(r, 21)
      ELSE IF bp + 32 + 8 * len > Len(in) THEN Failed(r, 23)
      ELSE [r EXCEPT !.out = @ \o bytes, !.bp = bp + 32 + 8 * len]

RECURSIVE InflateBlocks(_, _)
InflateBlocks(in, r) ==
  LET btype == Number(in, r.bp + 1, 2)
      start == [r EXCEPT !.bp = @ + 3, !.done = FALSE]
      After(block) == IF block.error # 0 \/ BitAt(in, r.bp + 1) = 1 THEN block
                      ELSE InflateBlocks(in, block)
  IN  CASE Len(in) - r.bp < 3 -> Failed(r, 52)
        [] Len(in) - r.bp >= 3 /\ btype = 3 -> Failed(r, 20)
        [] OTHER -> After(IF btype = 0 THEN InflateNoCompression(in, start)
                                       ELSE InflateHuffmanBlock(in, start, btype))

Inflate(in) == InflateBlocks(in, [out |-> <<>>, bp |-> 0, error |-> 0, done |-> FALSE])

(* lodepng_zlib_decompressv. *)
ZlibDecompress(in) ==
  LET cmf == Number(in, 0, 8)
      flg == Number(in, 8, 8)
      sums == SubSeq(in, Len(in) - 31, Len(in))
      Failure(code) == [out |-> <<>>, error |-> code]
      Checked(body) ==
        CASE body.error # 0 -> Failure(body.error)
          [] body.error = 0 /\ sums # ByteBits(Adler32(body.out)) -> Failure(58)
          [] OTHER -> [out |-> body.out, error |-> 0]
  IN  IF Len(in) < 16 THEN Failure(53)
      ELSE IF (256 * cmf + flg) % 31 # 0 THEN Failure(24)
      ELSE IF (cmf % 16 # 8 \/ cmf \div 16 > 7) THEN Failure(25)
      ELSE IF (flg \div 32) % 2 # 0 THEN Failure(26)
      ELSE Checked(Inflate(SubSeq(in, 17, Len(in))))
=============================================================================
