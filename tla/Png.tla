-------------------------------- MODULE Png --------------------------------
(***************************************************************************)
(* lodepng at work, one step of lodepng_encode at a time: the checks and   *)
(* the choice of a colour mode, the conversion, the filters, every round   *)
(* of the string matcher, every block, the chunks; then lodepng_decode     *)
(* reads the file back.  The same steps serve zlib alone (lodepng_zlib_-   *)
(* compress) and the code lengths alone (lodepng_huffman_code_lengths).    *)
(* A file is the sequence of its chunks, whose framing and CRC are ideal;  *)
(* what is cut off a stream is cut off the compressed bytes.               *)
(***************************************************************************)
EXTENDS PngImage, Matcher

CONSTANTS
  Jobs,     (* the calls: an image with its modes and settings, the bytes   *)
            (* and settings of a zlib stream, or frequencies and a limit    *)
  Cuts      (* how many bytes may be missing at the end when it is read     *)

VARIABLES
  job,      (* the call                                                     *)
  stage,    (* how far it has come                                          *)
  color,    (* info.color: the mode of the file                             *)
  image,    (* the pixels in that mode                                      *)
  bits,     (* the deflated stream so far                                   *)
  file,     (* the chunks, or the bits of a zlib stream                     *)
  cut,      (* the bytes missing from it when it is read                    *)
  result,   (* what the reader returns, or the code lengths                 *)
  error     (* state->error                                                 *)

vars == <<job, stage, color, image, bits, file, cut, result, error, matcherVars>>

DefaultSettings ==
  [btype |-> 2, use_lz77 |-> TRUE, windowsize |-> 32, minmatch |-> 3, nicematch |-> 128,
   lazymatching |-> TRUE, filter_palette_zero |-> TRUE, filter_strategy |-> 5,
   predefined_filters |-> <<>>, auto_convert |-> TRUE, force_palette |-> FALSE,
   interlace_method |-> 0]

FirstStage == [image |-> "check", zlib |-> "deflate", lengths |-> "count"]

Init ==
  /\ job \in Jobs
  /\ stage = FirstStage[job.kind]
  /\ color = Mode(RGBA, 8)
  /\ image = <<>>
  /\ data = IF job.kind = "zlib" THEN job.data ELSE <<>>
  /\ settings = IF job.kind = "lengths" THEN DefaultSettings ELSE job.settings
  /\ start = 0 /\ told = <<>>
  /\ lz = NoBlock(NewHash(0), "idle")
  /\ bits = <<>> /\ file = <<>>
  /\ cut = 0 /\ result = <<>> /\ error = 0

Stop(code) ==
  /\ error' = code /\ stage' = "done"
  /\ UNCHANGED <<job, color, image, bits, file, cut, result, matcherVars>>

(* The checks of lodepng_encode, in their order. *)
InputError ==
  LET n == Len(job.png.palette)
  IN  IF (job.png.colortype = Palette \/ settings.force_palette) /\ n \notin 1..256 THEN 68
      ELSE IF settings.btype > 2 THEN 61
      ELSE IF settings.interlace_method > 1 THEN 71
      ELSE IF CheckColorValidity(job.png) # 0 THEN CheckColorValidity(job.png)
      ELSE CheckColorValidity(job.raw)

CheckInput ==
  /\ stage = "check"
  /\ InputError = 0
  /\ color' = IF settings.auto_convert
              THEN AutoChooseColor(job.png, job.raw,
                                   ComputeColorStats(job.image, job.raw), job.w * job.h)
              ELSE job.png
  /\ stage' = "convert"
  /\ UNCHANGED <<job, image, bits, file, cut, result, error, matcherVars>>

RefuseInput == stage = "check" /\ InputError # 0 /\ Stop(InputError)

ConvertImage ==
  LET converted == Convert(job.image, color, job.raw)
  IN  /\ stage = "convert"
      /\ converted.error = 0
      /\ image' = converted.image
      /\ stage' = "filter"
      /\ UNCHANGED <<job, color, bits, file, cut, result, error, matcherVars>>

RefuseConversion ==
  LET converted == Convert(job.image, color, job.raw)
  IN  stage = "convert" /\ converted.error # 0 /\ Stop(converted.error)

Filter ==
  /\ stage = "filter"
  /\ FilterError(color, settings) = 0
  /\ data' = PreProcessScanlines(image, job.w, job.h, color, settings)
  /\ stage' = "deflate"
  /\ UNCHANGED <<settings, start, lz, told>>
  /\ UNCHANGED <<job, color, image, bits, file, cut, result, error>>

RefuseFilter ==
  LET code == FilterError(color, settings)
  IN  stage = "filter" /\ code # 0 /\ Stop(code)

(***************************************************************************)
(* lodepng_deflatev: the data is stored, or cut into blocks, whose tokens  *)
(* Matcher finds one turn at a time.                                       *)
(***************************************************************************)

Final == Size = Len(data)

DeflateError ==
  CASE settings.btype > 2 -> 61
    [] settings.btype \in 1..2 /\ settings.use_lz77 ->
         WindowError(settings.windowsize)
    [] OTHER -> 0

(* The blocks are counted before anything else is checked: a fixed block   *)
(* of no bytes is a division by zero, at which the program stops.          *)
Countable == BlockSize(Len(data), settings) # 0

RefuseDeflate ==
  stage = "deflate" /\ Countable /\ DeflateError # 0 /\ Stop(DeflateError)

Store ==
  /\ stage = "deflate"
  /\ DeflateError = 0
  /\ settings.btype = 0
  /\ bits' = DeflateNoCompression(data)
  /\ stage' = "wrap"
  /\ UNCHANGED <<job, color, image, file, cut, result, error, matcherVars>>

Encoded(tokens, last) ==
  LET final == IF last THEN 1 ELSE 0
  IN  IF settings.btype = 1 THEN DeflateFixed(tokens, final) ELSE DeflateDynamic(tokens, final)

(* Without LZ77 every byte is a token of its own. *)
EncodePlain ==
  LET size == BlockSize(Len(data), settings)
      n == Max({1, (Len(data) + size - 1) \div size})
      Block(i) == SubSeq(data, (i - 1) * size + 1, Least(Len(data), i * size))
      Tokens(block) == [k \in DOMAIN block |-> <<block[k]>>]
  IN  /\ stage = "deflate"
      /\ Countable /\ DeflateError = 0
      /\ settings.btype # 0 /\ ~settings.use_lz77
      /\ bits' = Concat([i \in 1..n |-> Encoded(Tokens(Block(i)), i = n)])
      /\ stage' = "wrap"
      /\ UNCHANGED <<job, color, image, file, cut, result, error, matcherVars>>

(* Mutant of EnterBlock: every block has a hash of its own. *)
EnterBlockFresh ==
  /\ stage = "deflate"
  /\ DeflateError = 0
  /\ Countable /\ settings.btype # 0 /\ settings.use_lz77
  /\ lz' = NewMatcher(NewHash(settings.windowsize), start)
  /\ stage' = "match"
  /\ UNCHANGED <<data, settings, start, told>>
  /\ UNCHANGED <<job, color, image, bits, file, cut, result, error>>

EnterBlock ==
  /\ stage = "deflate"
  /\ Begin \/ OpenBlock
  /\ stage' = "match"
  /\ UNCHANGED <<job, color, image, bits, file, cut, result, error>>

Match ==
  /\ stage = "match"
  /\ NextTurn
  /\ UNCHANGED <<job, stage, color, image, bits, file, cut, result, error>>

WriteBlock ==
  /\ stage = "match"
  /\ CloseBlock
  /\ bits' = bits \o Encoded(lz.out, Final)
  /\ stage' = IF Final THEN "wrap" ELSE "deflate"
  /\ UNCHANGED <<job, color, image, file, cut, result, error>>

(***************************************************************************)
(* The file.                                                               *)
(***************************************************************************)

IHDR == [type |-> "IHDR", w |-> job.w, h |-> job.h, colortype |-> color.colortype,
         bitdepth |-> color.bitdepth, interlace_method |-> settings.interlace_method]

PLTE == [type |-> "PLTE",
         data |-> Concat([i \in DOMAIN color.palette |-> SubSeq(color.palette[i], 1, 3)])]

(* The opaque end of a palette need not be written, and an opaque palette  *)
(* needs no chunk at all.                                                  *)
TransparencyBytes ==
  LET amount == Max({0} \cup {i \in DOMAIN color.palette : color.palette[i][4] # 255})
      Sample(v) == <<v \div 256, v % 256>>
  IN  CASE color.colortype = Palette -> [i \in 1..amount |-> color.palette[i][4]]
        [] color.colortype = Grey /\ color.key # <<>> -> Sample(color.key[1])
        [] color.colortype = RGB /\ color.key # <<>> ->
             Concat([k \in 1..3 |-> Sample(color.key[k])])
        [] OTHER -> <<>>

Optional(needed, chunk) == IF needed THEN <<chunk>> ELSE <<>>

Chunks(stream) ==
  <<IHDR>>
    \o Optional(\/ color.colortype = Palette
                \/ settings.force_palette /\ color.colortype \in {RGB, RGBA}, PLTE)
    \o Optional(TransparencyBytes # <<>>, [type |-> "tRNS", data |-> TransparencyBytes])
    \o <<[type |-> "IDAT", data |-> stream], [type |-> "IEND"]>>

Wrap ==
  LET stream == ZlibCompressed(bits, data)
  IN  /\ stage = "wrap"
      /\ file' = IF job.kind = "image" THEN Chunks(stream) ELSE stream
      /\ stage' = "read"
      /\ UNCHANGED <<job, color, image, bits, cut, result, error, matcherVars>>

(***************************************************************************)
(* The reader.                                                             *)
(***************************************************************************)

Inspect(chunk) ==
  LET mode == Mode(chunk.colortype, chunk.bitdepth)
  IN  IF chunk.w = 0 \/ chunk.h = 0 THEN 93
      ELSE IF CheckColorValidity(mode) # 0 THEN CheckColorValidity(mode)
      ELSE IF chunk.interlace_method > 1 THEN 34
      ELSE 0

ReadPLTE(r, bytes) ==
  LET n == Len(bytes) \div 3
  IN  IF n \notin 1..256 THEN Failed(r, 38)
      ELSE [r EXCEPT !.color.palette =
              [i \in 1..n |-> SubSeq(bytes, 3 * i - 2, 3 * i) \o <<255>>]]

ReadTRNS(r, bytes) ==
  LET type == r.color.colortype
      n == Len(bytes)
      Sample(k) == 256 * bytes[2 * k - 1] + bytes[2 * k]
  IN  CASE type = Palette /\ n > Len(r.color.palette) -> Failed(r, 39)
        [] type = Palette /\ n <= Len(r.color.palette) ->
             [r EXCEPT !.color.palette =
                [i \in DOMAIN @ |-> IF i <= n THEN SubSeq(@[i], 1, 3) \o <<bytes[i]>> ELSE @[i]]]
        [] type = Grey -> IF n # 2 THEN Failed(r, 30)
                          ELSE [r EXCEPT !.color.key = [k \in 1..3 |-> Sample(1)]]
        [] type = RGB -> IF n # 6 THEN Failed(r, 41)
                         ELSE [r EXCEPT !.color.key = [k \in 1..3 |-> Sample(k)]]
        [] OTHER -> Failed(r, 42)

(* Nothing after the end chunk, or after an error, is read. *)
ReadChunk(r, chunk) ==
  CASE r.error # 0 \/ r.iend -> r
    [] r.error = 0 /\ ~r.iend /\ chunk.type = "IDAT" -> [r EXCEPT !.idat = @ \o chunk.data]
    [] r.error = 0 /\ ~r.iend /\ chunk.type = "PLTE" -> ReadPLTE(r, chunk.data)
    [] r.error = 0 /\ ~r.iend /\ chunk.type = "tRNS" -> ReadTRNS(r, chunk.data)
    [] r.error = 0 /\ ~r.iend /\ chunk.type = "IEND" -> [r EXCEPT !.iend = TRUE]
    [] OTHER -> Failed(r, 69)

ReadChunks(head, chunks) ==
  FoldLeft(ReadChunk, [color |-> Mode(head.colortype, head.bitdepth), idat |-> <<>>,
                       iend |-> FALSE, error |-> Inspect(head)], chunks)

(* The image of the lines in a file of mode "mode", in the mode wanted. *)
Wanting(lines, mode, want) ==
  CASE lines.error # 0 -> [image |-> <<>>, error |-> lines.error]
    [] lines.error = 0 /\ want # mode /\ want.colortype \notin {RGB, RGBA}
         /\ want.bitdepth # 8 -> [image |-> lines.image, error |-> 56]
    [] OTHER -> Convert(lines.image, want, mode)

(* lodepng_decode of chunks to a mode without a key. *)
Decode(chunks, want) ==
  LET head == chunks[1]
      interlaced == head.interlace_method = 1
      Failure(code) == [image |-> <<>>, error |-> code]
      Image(stream, mode) ==
        CASE stream.error # 0 -> Failure(stream.error)
          [] stream.error = 0
               /\ Len(stream.out) # ExpectedSize(head.w, head.h, mode, interlaced) -> Failure(91)
          [] OTHER -> Wanting(PostProcessScanlines(stream.out, head.w, head.h, mode, interlaced),
                              mode, want)
      Content(r) ==
        CASE r.error # 0 -> Failure(r.error)
          [] r.error = 0 /\ ~r.iend -> Failure(30)
          [] r.error = 0 /\ r.iend /\ r.color.colortype = Palette
               /\ r.color.palette = <<>> -> Failure(106)
          [] OTHER -> Image(ZlibDecompress(r.idat), r.color)
  IN  Content(ReadChunks(head, Tail(chunks)))

Shorter(stream, n) == SubSeq(stream, 1, Max({0, Len(stream) - 8 * n}))

Return(read, out) == result' = out /\ error' = read.error

Read ==
  /\ stage = "read"
  /\ \E n \in Cuts :
       LET Trim(chunk) == IF chunk.type = "IDAT"
                          THEN [chunk EXCEPT !.data = Shorter(@, n)] ELSE chunk
           ReturnImage(read) == Return(read, read.image)
           ReturnBytes(read) == Return(read, read.out)
       IN  /\ cut' = n
           /\ IF job.kind = "image"
              THEN ReturnImage(Decode([i \in DOMAIN file |-> Trim(file[i])], job.want))
              ELSE ReturnBytes(ZlibDecompress(Shorter(file, n)))
  /\ stage' = "done"
  /\ UNCHANGED <<job, color, image, bits, file, matcherVars>>

ComputeLengths ==
  LET computed == CodeLengths(job.frequencies, job.maxbits)
  IN  /\ stage = "count"
      /\ result' = computed.lengths
      /\ error' = computed.error
      /\ stage' = "done"
      /\ UNCHANGED <<job, color, image, bits, file, cut, matcherVars>>

Next ==
  \/ CheckInput \/ RefuseInput
  \/ ConvertImage \/ RefuseConversion
  \/ Filter \/ RefuseFilter
  \/ RefuseDeflate \/ Store \/ EncodePlain \/ EnterBlock \/ Match \/ WriteBlock
  \/ Wrap \/ Read
  \/ ComputeLengths

Spec == Init /\ [][Next]_vars

(***************************************************************************)
(* Properties.                                                             *)
(***************************************************************************)

(* The matcher in the encoder does what Matcher does, whatever goes on     *)
(* around it: what is proved of that one holds of this.                    *)
ImplementsMatcher == MatcherSpec

(* The code lengths are those of a complete prefix code within the limit,  *)
(* and no other such code gives the data fewer bits.                       *)
CodesOptimal ==
  stage = "done" /\ job.kind = "lengths" =>
    LET f == job.frequencies
        present == {n \in DOMAIN f : f[n] > 0}
        Kraft(lengths) == MapThenSumSet(LAMBDA n : 2^(job.maxbits - lengths[n]), DOMAIN lengths)
        Cost(lengths) == MapThenSumSet(LAMBDA n : f[n] * lengths[n], DOMAIN lengths)
        coded == [n \in {m \in DOMAIN result : result[m] # 0} |-> result[n]]
    IN  IF Cardinality(DOMAIN f) \notin 1..(2^job.maxbits) THEN error = 80
        ELSE /\ error = 0
             /\ \A n \in DOMAIN coded : coded[n] <= job.maxbits
             /\ present \subseteq DOMAIN coded
             /\ Kraft(coded) = 2^job.maxbits
             /\ Cardinality(present) >= 2 =>
                  /\ DOMAIN coded = present
                  /\ \A other \in [present -> 1..job.maxbits] :
                       Kraft(other) <= 2^job.maxbits => Cost(coded) <= Cost(other)

(* What was encoded comes back: the reader returns the bytes, or the       *)
(* colours of the image, and it refuses a stream that lacks its end.  The  *)
(* image went through a cheaper colour mode, filters, interlacing, the     *)
(* matcher and three kinds of blocks on the way.                           *)
Wanted ==
  IF job.kind = "zlib" THEN job.data
  ELSE Convert(job.image, job.want, job.raw).image

Restored ==
  stage = "done" /\ file # <<>> =>
    IF cut = 0 THEN error = 0 /\ result = Wanted ELSE error # 0
=============================================================================
