------------------------------ MODULE PngImage ------------------------------
(***************************************************************************)
(* Pixels in lodepng.c: the colour modes, the conversion between them, the *)
(* statistics from which the encoder picks a cheaper mode without losing a *)
(* colour, and the filtering of scanlines, with and without interlacing.   *)
(* An image is the sequence of its pixels, row by row, and a pixel the     *)
(* sequence of its samples; the packing of samples into bytes is part of   *)
(* the scanlines only.  A mode is a record [colortype, bitdepth, key,      *)
(* palette]: no key is <<>>, a palette is a sequence of <<r, g, b, a>>.    *)
(***************************************************************************)
EXTENDS Deflate

Grey == 0
RGB == 2
Palette == 3
GreyAlpha == 4
RGBA == 6

Depths == (Grey :> {1, 2, 4, 8, 16}) @@ (RGB :> {8, 16}) @@ (Palette :> {1, 2, 4, 8})
            @@ (GreyAlpha :> {8, 16}) @@ (RGBA :> {8, 16})

Channels == (Grey :> 1) @@ (RGB :> 3) @@ (Palette :> 1) @@ (GreyAlpha :> 2) @@ (RGBA :> 4)

Mode(colortype, bitdepth) ==
  [colortype |-> colortype, bitdepth |-> bitdepth, key |-> <<>>, palette |-> <<>>]

CheckColorValidity(mode) ==
  CASE mode.colortype \notin DOMAIN Depths -> 31
    [] mode.colortype \in DOMAIN Depths /\ mode.bitdepth \notin Depths[mode.colortype] -> 37
    [] OTHER -> 0

BitsPerPixel(mode) == Channels[mode.colortype] * mode.bitdepth

IsGreyscale(mode) == mode.colortype \in {Grey, GreyAlpha}

CanHaveAlpha(mode) ==
  \/ mode.key # <<>>
  \/ mode.colortype \in {GreyAlpha, RGBA}
  \/ \E i \in DOMAIN mode.palette : mode.palette[i][4] < 255

(***************************************************************************)
(* Conversion, by way of one colour <<r, g, b, a>> per pixel.              *)
(***************************************************************************)

(* A sample of few bits spread over 0..255, a sample of 16 bits cut to 8. *)
To8(v, bitdepth) ==
  CASE bitdepth = 8 -> v
    [] bitdepth = 16 -> v \div 256
    [] OTHER -> (v * 255) \div (2^bitdepth - 1)

From8(v, bitdepth) ==
  CASE bitdepth = 8 -> v
    [] bitdepth = 16 -> 257 * v
    [] OTHER -> v \div 2^(8 - bitdepth)

(* The key is compared with the samples as they are stored. *)
Alpha(pixel, mode, opaque) ==
  LET keyed == CASE mode.colortype = Grey -> pixel[1] = mode.key[1]
                 [] mode.colortype = RGB -> pixel = mode.key
  IN  IF mode.key # <<>> /\ keyed THEN 0 ELSE opaque

(* An index past the palette is black: the rest of its memory is. *)
PaletteColor(palette, index) ==
  IF index < Len(palette) THEN palette[index + 1] ELSE <<0, 0, 0, 255>>

(* The colour of a pixel, whose samples in the new depth are s. *)
ColorOf(pixel, s, mode, opaque) ==
  CASE mode.colortype = Grey -> <<s[1], s[1], s[1], Alpha(pixel, mode, opaque)>>
    [] mode.colortype = RGB -> <<s[1], s[2], s[3], Alpha(pixel, mode, opaque)>>
    [] mode.colortype = Palette -> PaletteColor(mode.palette, pixel[1])
    [] mode.colortype = GreyAlpha -> <<s[1], s[1], s[1], s[2]>>
    [] mode.colortype = RGBA -> s

GetPixelRGBA8(pixel, mode) ==
  ColorOf(pixel, [k \in DOMAIN pixel |-> To8(pixel[k], mode.bitdepth)], mode, 255)

GetPixelRGBA16(pixel, mode) == ColorOf(pixel, pixel, mode, 65535)

(* The tree of colours: eight levels of red, green and blue bits.  Alpha   *)
(* has no part in it, and the last colour added under a path is found.     *)
SameNode(c, d) == SubSeq(c, 1, 3) = SubSeq(d, 1, 3)

ColorIndex(colors, color) ==
  Max({Unset} \cup {i - 1 : i \in {j \in DOMAIN colors : SameNode(colors[j], color)}})

(* The pixel of a colour, whose samples in the mode's depth are s. *)
PixelOf(color, s, mode, palette) ==
  CASE mode.colortype = Grey -> <<s[1]>>
    [] mode.colortype = RGB -> <<s[1], s[2], s[3]>>
    [] mode.colortype = Palette -> <<ColorIndex(palette, color)>>
    [] mode.colortype = GreyAlpha -> <<s[1], s[4]>>
    [] mode.colortype = RGBA -> s

RGBA8ToPixel(color, mode, palette) ==
  PixelOf(color, [k \in 1..4 |-> From8(color[k], mode.bitdepth)], mode, palette)

RGBA16ToPixel(color, mode) == PixelOf(color, color, mode, <<>>)

(* lodepng_convert. *)
Convert(image, out, in) ==
  LET topalette == out.colortype = Palette
      palette == SelectSeq(<<out.palette, in.palette>>, LAMBDA p : p # <<>>)
      usable == IF palette = <<>> THEN <<>>
                ELSE SubSeq(palette[1], 1, Least(Len(palette[1]), 2^out.bitdepth))
      same == \/ out = in
              \/ /\ topalette /\ out.palette = <<>>
                 /\ in.colortype = Palette /\ in.bitdepth = out.bitdepth
      Pixel(p) == IF in.bitdepth = 16 /\ out.bitdepth = 16
                  THEN RGBA16ToPixel(GetPixelRGBA16(p, in), out)
                  ELSE RGBA8ToPixel(GetPixelRGBA8(p, in), out, usable)
      converted == Tabulated([i \in DOMAIN image |-> Pixel(image[i])])
      error == CASE in.colortype = Palette /\ in.palette = <<>> -> 107
                 [] ~same /\ topalette /\ (\E i \in DOMAIN image : converted[i][1] = Unset) -> 82
                 [] OTHER -> 0
  IN  [image |-> IF error # 0 THEN <<>> ELSE IF same THEN image ELSE converted,
       error |-> error]

(***************************************************************************)
(* What the colours of an image need.                                      *)
(***************************************************************************)

GetValueRequiredBits(v) ==
  CASE v \in {0, 255} -> 1
    [] v \notin {0, 255} /\ v % 85 = 0 -> 2
    [] v % 17 = 0 /\ v % 85 # 0 -> 4
    [] OTHER -> 8

(* Colours and alpha exist from 8 bits on. *)
AtLeast8(bits) == Max({8, bits})

WithAlpha(stats) ==
  [stats EXCEPT !.alpha = TRUE, !.key = <<>>, !.bits = AtLeast8(@)]

CountBits(stats, color, mode) ==
  IF stats.bits < BitsPerPixel(mode) /\ stats.bits < 8
  THEN [stats EXCEPT !.bits = Max({@, GetValueRequiredBits(color[1])})] ELSE stats

CountColored(stats, color, mode) ==
  IF ~IsGreyscale(mode) /\ ~(color[1] = color[2] /\ color[1] = color[3])
  THEN [stats EXCEPT !.colored = TRUE, !.bits = AtLeast8(@)] ELSE stats

(* One fully transparent colour that no opaque pixel has can be a key. *)
CountAlpha(stats, color, mode, opaque) ==
  LET rgb == SubSeq(color, 1, 3)
      a == color[4]
      key == stats.key
  IN  CASE stats.alpha \/ ~CanHaveAlpha(mode) -> stats
        [] ~stats.alpha /\ CanHaveAlpha(mode)
             /\ ( \/ a # opaque /\ (a # 0 \/ (key # <<>> /\ key # rgb))
                  \/ a = opaque /\ key = rgb ) -> WithAlpha(stats)
        [] ~stats.alpha /\ CanHaveAlpha(mode) /\ a = 0 /\ key = <<>> ->
             [stats EXCEPT !.key = rgb]
        [] OTHER -> stats

(* The colours, in the order they are met, up to as many as the pixels of  *)
(* the input can tell apart.                                               *)
CountColors(stats, color, mode) ==
  LET bpp == BitsPerPixel(mode)
      maxnumcolors == IF bpp <= 8 THEN Least(257, 2^bpp) ELSE 257
  IN  IF Len(stats.colors) < maxnumcolors /\ ColorIndex(stats.colors, color) = Unset
      THEN [stats EXCEPT !.colors = Append(@, color)] ELSE stats

(* Mutant of KeyClash: only later pixels are compared with the key. *)
KeyNeverClashes(colors, key) == FALSE

(* The pixels before the key was set are compared with it afterwards. *)
KeyClash(colors, key) ==
  \E i \in DOMAIN colors : colors[i][4] # 0 /\ SubSeq(colors[i], 1, 3) = key

(* lodepng_compute_color_stats; the key is kept on 16 bits. *)
ComputeColorStats(image, mode) ==
  LET sixteen == /\ mode.bitdepth = 16
                 /\ \E i \in DOMAIN image : \E k \in 1..4 :
                      LET v == GetPixelRGBA16(image[i], mode)[k] IN v % 256 # v \div 256
      opaque == IF sixteen THEN 65535 ELSE 255
      colors == Tabulated([i \in DOMAIN image |->
                  IF sixteen THEN GetPixelRGBA16(image[i], mode)
                             ELSE GetPixelRGBA8(image[i], mode)])
      Add(stats, c) ==
        LET met == CountAlpha(CountColored(CountBits(stats, c, mode), c, mode), c, mode, opaque)
        IN  IF sixteen THEN met ELSE CountColors(met, c, mode)
      first == FoldLeft(Add, [colored |-> FALSE, key |-> <<>>, alpha |-> FALSE,
                              colors |-> <<>>, bits |-> IF sixteen THEN 16 ELSE 1], colors)
      stats == IF first.key # <<>> /\ KeyClash(colors, first.key)
               THEN WithAlpha(first) ELSE first
  IN  IF sixteen THEN stats
      ELSE [stats EXCEPT !.key = [k \in DOMAIN @ |-> 257 * @[k]]]

PaletteBits(n) == CASE n <= 2 -> 1 [] n \in 3..4 -> 2 [] n \in 5..16 -> 4 [] OTHER -> 8

(* auto_choose_color: `png` is the mode that was asked for. *)
AutoChooseColor(png, raw, stats, numpixels) ==
  LET few == stats.key # <<>> /\ numpixels <= 16
      alpha == stats.alpha \/ few
      grey_ok == ~stats.colored
      bits == IF few \/ ~grey_ok THEN AtLeast8(stats.bits) ELSE stats.bits
      n == Len(stats.colors)
      palette_ok == /\ n <= 256 /\ bits <= 8 /\ n # 0
                    /\ numpixels >= 2 * n
                    /\ ~(grey_ok /\ ~alpha /\ bits <= PaletteBits(n))
      key == IF stats.key = <<>> \/ few THEN <<>>
             ELSE [k \in 1..3 |-> stats.key[k] % 2^bits]
  IN  CASE ~palette_ok ->
             [colortype |-> CASE alpha /\ grey_ok -> GreyAlpha
                              [] alpha /\ ~grey_ok -> RGBA
                              [] ~alpha /\ grey_ok -> Grey
                              [] OTHER -> RGB,
              bitdepth |-> bits, key |-> key, palette |-> png.palette]
        [] palette_ok /\ raw.colortype = Palette /\ Len(raw.palette) >= n
             /\ raw.bitdepth = PaletteBits(n) -> raw
        [] OTHER -> [Mode(Palette, PaletteBits(n)) EXCEPT !.palette = stats.colors]

(***************************************************************************)
(* Scanlines.                                                              *)
(***************************************************************************)

(* The seven reduced images of Adam7. *)
StartX == <<0, 4, 0, 2, 0, 1, 0>>
StartY == <<0, 0, 4, 0, 2, 0, 1>>
DeltaX == <<8, 8, 4, 4, 2, 2, 1>>
DeltaY == <<8, 8, 8, 4, 4, 2, 2>>

PassWidth(w, k) == (w + DeltaX[k] - StartX[k] - 1) \div DeltaX[k]
PassHeight(w, h, k) ==
  IF PassWidth(w, k) = 0 THEN 0 ELSE (h + DeltaY[k] - StartY[k] - 1) \div DeltaY[k]

(* The scanlines in the order they are stored: the number of the line in   *)
(* its (reduced) image and its pixels, by their place in the whole image.  *)
Lines(w, h, interlaced) ==
  LET PassPixel(k, x, y) ==
        (StartY[k] + (y - 1) * DeltaY[k]) * w + StartX[k] + (x - 1) * DeltaX[k] + 1
  IN  IF ~interlaced
      THEN [y \in 1..h |-> [y |-> y, pixels |-> [x \in 1..w |-> (y - 1) * w + x]]]
      ELSE Concat([k \in 1..7 |->
             [y \in 1..PassHeight(w, h, k) |->
                [y |-> y, pixels |-> [x \in 1..PassWidth(w, k) |-> PassPixel(k, x, y)]]]])

LineBytes(line, mode) == (Len(line.pixels) * BitsPerPixel(mode) + 7) \div 8

ByteWidth(mode) == (BitsPerPixel(mode) + 7) \div 8

(* The bytes of a line: its samples, the high bit first, padded with zeros. *)
Packed(line, image, mode) ==
  LET bits == Concat([x \in DOMAIN line.pixels |->
                Concat([c \in 1..Channels[mode.colortype] |->
                          CodeBits(image[line.pixels[x]][c], mode.bitdepth)])])
      Byte(i) == FoldLeft(LAMBDA v, k : 2 * v + BitAt(bits, 8 * (i - 1) + k), 0,
                          <<1, 2, 3, 4, 5, 6, 7, 8>>)
  IN  Tabulated([i \in 1..LineBytes(line, mode) |-> Byte(i)])

Unpacked(line, bytes, mode) ==
  LET bits == Concat([i \in DOMAIN bytes |-> CodeBits(bytes[i], 8)])
      Sample(at) == FoldLeft(LAMBDA v, k : 2 * v + bits[at + k], 0,
                             [k \in 1..mode.bitdepth |-> k])
  IN  [x \in DOMAIN line.pixels |->
         [c \in 1..Channels[mode.colortype] |->
            Sample((x - 1) * BitsPerPixel(mode) + (c - 1) * mode.bitdepth)]]

Abs(v) == IF v < 0 THEN -v ELSE v

PaethPredictor(a, b, c) ==
  LET pa == Abs(b - c)
      pb == Abs(a - c)
      pc == Abs(a + b - 2 * c)
  IN  IF pc < Least(pa, pb) THEN c ELSE IF pb < pa THEN b ELSE a

(* The prediction from the bytes to the left, above and above left, which  *)
(* are zeros outside the (reduced) image.                                  *)
Predict(type, a, b, c) ==
  CASE type = 0 -> 0
    [] type = 1 -> a
    [] type = 2 -> b
    [] type = 3 -> (a + b) \div 2
    [] type = 4 -> PaethPredictor(a, b, c)

ByteAt(bytes, i) == IF i \in DOMAIN bytes THEN bytes[i] ELSE 0

FilterScanline(bytes, prev, bytewidth, type) ==
  Tabulated([i \in DOMAIN bytes |->
    (bytes[i] - Predict(type, ByteAt(bytes, i - bytewidth), ByteAt(prev, i),
                        ByteAt(prev, i - bytewidth))) % 256])

UnfilterScanline(bytes, prev, bytewidth, type) ==
  FoldLeft(LAMBDA recon, byte :
             LET i == Len(recon) + 1
             IN  Append(recon, (byte + Predict(type, ByteAt(recon, i - bytewidth),
                                               ByteAt(prev, i), ByteAt(prev, i - bytewidth))) % 256),
           <<>>, bytes)

(* How the filter type of a line is chosen. *)
Total(seq, F(_)) == FoldLeft(LAMBDA sum, v : sum + F(v), 0, seq)

(* LFS_MINSUM: differences count as signed bytes. *)
AbsoluteSum(type, filtered) ==
  Total(filtered, LAMBDA s : IF type = 0 \/ s < 128 THEN s ELSE 255 - s)

ILog2(i) == CHOOSE l \in 0..31 : 2^l <= i /\ i < 2^(l + 1)

ILog2I(i) == IF i = 0 THEN 0 ELSE i * ILog2(i) + 2 * (i - 2^ILog2(i))

(* LFS_ENTROPY: the more often a byte occurs the better; the type counts. *)
Concentration(type, filtered) ==
  LET bytes == Append(filtered, type)
      Times(v) == Cardinality({i \in DOMAIN bytes : bytes[i] = v})
  IN  MapThenSumSet(LAMBDA v : ILog2I(Times(v)), {bytes[i] : i \in DOMAIN bytes})

RECURSIVE EncodeLZ77(_, _, _, _)
EncodeLZ77(lz, data, size, s) ==
  IF AtEnd(lz, size) THEN lz ELSE EncodeLZ77(Turn(lz, data, size, s), data, size, s)

(* LFS_BRUTE_FORCE: the size of the line alone, deflated with fixed codes. *)
DeflatedSize(filtered, s) ==
  LET lz == EncodeLZ77(NewMatcher(NewHash(s.windowsize), 0), filtered, Len(filtered), s)
      tokens == IF s.use_lz77 THEN lz.out ELSE [i \in DOMAIN filtered |-> <<filtered[i]>>]
  IN  IF s.use_lz77 /\ WindowError(s.windowsize) # 0 THEN 0
      ELSE Len(ZlibCompressed(DeflateFixed(tokens, 1), filtered)) \div 8

(* The first type of the least cost. *)
Cheapest(cost) ==
  CHOOSE best \in DOMAIN cost :
    /\ \A type \in DOMAIN cost : cost[best] <= cost[type]
    /\ \A type \in 0..(best - 1) : cost[best] < cost[type]

FilterType(line, bytes, prev, mode, s) ==
  LET As(type) == FilterScanline(bytes, prev, ByteWidth(mode), type)
      strategy == IF s.filter_palette_zero
                       /\ (mode.colortype = Palette \/ mode.bitdepth < 8)
                  THEN 0 ELSE s.filter_strategy
  IN  CASE strategy \in 0..4 -> strategy
        [] strategy = 5 -> Cheapest([type \in 0..4 |-> AbsoluteSum(type, As(type))])
        [] strategy = 6 -> Cheapest([type \in 0..4 |-> -Concentration(type, As(type))])
        [] strategy = 7 -> Cheapest([type \in 0..4 |-> DeflatedSize(As(type), s)])
        [] strategy = 8 -> s.predefined_filters[line.y]

FilterError(mode, s) ==
  LET zero == s.filter_palette_zero /\ (mode.colortype = Palette \/ mode.bitdepth < 8)
  IN  IF ~zero /\ s.filter_strategy \notin 0..8 THEN 88 ELSE 0

(* preProcessScanlines: every line behind a byte with its filter type. *)
PreProcessScanlines(image, w, h, mode, s) ==
  LET Add(r, line) ==
        LET bytes == Packed(line, image, mode)
            prev == IF line.y = 1 THEN <<>> ELSE r.prev
            type == FilterType(line, bytes, prev, mode, s)
        IN  [prev |-> bytes,
             out |-> Append(r.out, type) \o FilterScanline(bytes, prev, ByteWidth(mode), type)]
  IN  FoldLeft(Add, [prev |-> <<>>, out |-> <<>>], Lines(w, h, s.interlace_method = 1)).out

(* The size the reader expects, and what it makes of the lines. *)
ExpectedSize(w, h, mode, interlaced) ==
  Total(Lines(w, h, interlaced), LAMBDA line : 1 + LineBytes(line, mode))

PostProcessScanlines(data, w, h, mode, interlaced) ==
  LET Read(r, line) ==
        LET n == LineBytes(line, mode)
            type == data[r.pos + 1]
            prev == IF line.y = 1 THEN <<>> ELSE r.prev
            bytes == UnfilterScanline(SubSeq(data, r.pos + 2, r.pos + 1 + n), prev,
                                      ByteWidth(mode), type)
            pixels == Unpacked(line, bytes, mode)
        IN  IF r.error # 0 \/ type > 4 THEN Failed(r, 36)
            ELSE [prev |-> bytes, pos |-> r.pos + 1 + n, error |-> 0,
                  image |-> [i \in {line.pixels[x] : x \in DOMAIN line.pixels} |->
                               pixels[CHOOSE x \in DOMAIN pixels : line.pixels[x] = i]]
                              @@ r.image]
      read == FoldLeft(Read, [prev |-> <<>>, pos |-> 0, error |-> 0, image |-> <<>>],
                       Lines(w, h, interlaced))
  IN  [image |-> IF read.error = 0 THEN [i \in 1..(w * h) |-> read.image[i]] ELSE <<>>,
       error |-> read.error]
=============================================================================
