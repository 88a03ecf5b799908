------------------------------- MODULE MCPng -------------------------------
(***************************************************************************)
(* The calls on which Png is checked.                                      *)
(***************************************************************************)
EXTENDS Png

Image(w, h, pixels, raw, png, how) ==
  [kind |-> "image", w |-> w, h |-> h, image |-> pixels, raw |-> raw, png |-> png,
   want |-> Mode(RGBA, IF raw.bitdepth = 16 THEN 16 ELSE 8), settings |-> how]

Zlib(bytes, how) == [kind |-> "zlib", data |-> bytes, settings |-> how]

Keyed(mode, key) == [mode EXCEPT !.key = key]
Colored(mode, palette) == [mode EXCEPT !.palette = palette]

(* What utils.c asks for: eight bits of grey, all settings the default. *)
GreyJobs ==
  {Image(2, 2, [i \in 1..4 |-> <<p[i]>>], Mode(Grey, 8), Mode(Grey, 8), DefaultSettings) :
     p \in [1..4 -> {0, 85, 200}]}

(* Small images of two or three colours in every mode. *)
TwoColors == <<<<10, 20, 30, 255>>, <<200, 100, 50, 128>>>>
FourColors == TwoColors \o <<<<0, 0, 0, 255>>, <<255, 255, 255, 0>>>>

Modes ==
  {<<Mode(Grey, 1), {<<0>>, <<1>>}>>, <<Mode(Grey, 2), {<<1>>, <<3>>}>>,
   <<Keyed(Mode(Grey, 4), <<5, 5, 5>>), {<<5>>, <<9>>}>>,
   <<Mode(Grey, 16), {<<257>>, <<4660>>}>>,
   <<Mode(RGB, 8), {<<9, 9, 9>>, <<9, 8, 9>>}>>,
   <<Keyed(Mode(RGB, 8), <<9, 8, 9>>), {<<9, 9, 9>>, <<9, 8, 9>>}>>,
   <<Keyed(Mode(RGB, 16), <<257, 0, 257>>), {<<257, 0, 257>>, <<65535, 0, 0>>}>>,
   <<Colored(Mode(Palette, 1), TwoColors), {<<0>>, <<1>>}>>,
   <<Colored(Mode(Palette, 2), FourColors), {<<0>>, <<3>>}>>,
   <<Colored(Mode(Palette, 4), FourColors), {<<2>>, <<3>>}>>,
   <<Colored(Mode(Palette, 8), FourColors), {<<1>>, <<200>>}>>,
   <<Mode(GreyAlpha, 8), {<<17, 255>>, <<34, 0>>}>>,
   <<Mode(GreyAlpha, 16), {<<300, 65535>>, <<7, 9>>}>>,
   <<Mode(RGBA, 8), {<<1, 2, 3, 255>>, <<3, 2, 1, 0>>}>>,
   <<Mode(RGBA, 16), {<<1, 2, 3, 65535>>, <<3, 2, 1, 0>>}>>}

ModeJobs ==
  UNION {LET raw == m[1]
             D == DefaultSettings
             patterns == {p \in [1..6 -> m[2]] : p[1] # p[2]}
         IN  {Image(3, 2, p, raw, Mode(RGBA, 8), [D EXCEPT !.interlace_method = i]) :
                p \in patterns, i \in {0, 1}}
             \cup {Image(2, 3, p, raw, raw, [D EXCEPT !.auto_convert = FALSE]) :
                     p \in {q \in patterns : q[3] = q[5] /\ q[4] = q[6]}} :
         m \in Modes}

(* Every filter strategy, on lines that repeat and lines that rise. *)
Lined == [i \in 1..12 |-> <<20 * i % 256, 5, (i * i) % 256>>]

FilterJobs ==
  {Image(4, 3, Lined, Mode(RGB, 8), Mode(RGB, 8),
         [DefaultSettings EXCEPT !.filter_strategy = f, !.interlace_method = i,
                                 !.predefined_filters = <<4, 3, 2>>]) :
     f \in 0..9 \ {7}, i \in {0, 1}}
  \cup {Image(4, 3, Lined, Mode(RGB, 8), Mode(RGB, 8),
              [DefaultSettings EXCEPT !.filter_strategy = 7])}

(* Enough pixels for a colour key to pay. *)
ManyGreys(a, b) == [i \in 1..17 |-> IF i = a THEN <<40, 0>>
                                   ELSE IF i = b THEN <<40, 255>> ELSE <<3 * i + 50, 255>>]
Deep(a) == [i \in 1..17 |-> IF i = a THEN <<9, 8, 7, 0>> ELSE <<600 * i, i, 3, 65535>>]

KeyJobs ==
  {Image(17, 1, ManyGreys(a, b), Mode(GreyAlpha, 8), Mode(RGBA, 8), DefaultSettings) :
     a \in {1, 9}, b \in {0, 2, 8}}
  \cup {Image(17, 1, Deep(5), Mode(RGBA, 16), Mode(RGBA, 8), DefaultSettings)}
  \cup {Image(5, 4, [i \in 1..20 |-> IF i % 3 = 0 THEN <<1, 2, 3, 0>> ELSE <<i % 4, 5, 6, 255>>],
              Mode(RGBA, 8), Mode(RGBA, 8), DefaultSettings)}

(* Calls that are refused, each for a reason of its own. *)
Refused ==
  LET D == DefaultSettings
      G == Mode(Grey, 8)
      P == Colored(Mode(Palette, 1), TwoColors)
      p == <<<<1>>, <<0>>>>
  IN  {Image(2, 1, p, G, Mode(Palette, 1), D),
       Image(2, 1, p, G, G, [D EXCEPT !.btype = 3]),
       Image(2, 1, p, G, G, [D EXCEPT !.interlace_method = 2]),
       Image(2, 1, p, Mode(RGB, 4), G, D), Image(2, 1, p, G, Mode(1, 8), D),
       Image(2, 1, p, G, G, [D EXCEPT !.windowsize = 0]),
       Image(2, 1, p, G, G, [D EXCEPT !.windowsize = 5]),
       Image(2, 1, p, G, P, [D EXCEPT !.auto_convert = FALSE]),
       Image(2, 1, p, Mode(Palette, 1), G, [D EXCEPT !.auto_convert = FALSE]),
       Image(2, 1, p, G, Mode(RGB, 8), [D EXCEPT !.force_palette = TRUE]),
       Image(2, 1, p, P, Colored(Mode(RGBA, 8), TwoColors), [D EXCEPT !.force_palette = TRUE])}

ImageJobs == GreyJobs \cup ModeJobs \cup FilterJobs \cup KeyJobs \cup Refused

(* Bytes with long and short streaks of zeros; 4 is a byte that the masked *)
(* hash cannot tell from a zero in its third place.                        *)
Streak(n, k) == [i \in 1..n |-> IF i = k THEN 4 ELSE 0]
Period(n, k) == [i \in 1..n |-> IF i % k = 0 THEN 4 ELSE i % k]

(* A repetition that the next byte makes longer, then streaks of zeros. *)
Growing(n) == <<1, 2, 3, 9, 2, 3, 4, 5, 6, 7, 1, 2, 3, 4, 5, 6, 7>>
                \o [i \in 1..n |-> IF i % 5 = 1 THEN 4 ELSE 0]

Bytes ==
  UNION {[1..n -> {0, 4}] : n \in 0..8}
  \cup {Streak(n, k) : n \in {17, 29}, k \in 0..18}
  \cup {Period(29, k) : k \in 2..9}

ZlibJobs ==
  {Zlib(b, [DefaultSettings EXCEPT !.lazymatching = l, !.windowsize = w]) :
     b \in Bytes, l \in BOOLEAN, w \in {8, 32}}
  \cup {Zlib(b, [DefaultSettings EXCEPT !.lazymatching = l, !.windowsize = w, !.btype = t,
                                          !.minmatch = m, !.nicematch = n]) :
          b \in {Growing(14), Streak(29, 17), Period(29, 7)},
          l \in BOOLEAN, w \in {1, 8, 16, 32}, t \in {1, 2}, m \in {3, 5}, n \in {4, 258}}
  \cup {Zlib(Period(n, 3), [DefaultSettings EXCEPT !.btype = t, !.use_lz77 = u]) :
          n \in {1, 9, 20}, t \in {0, 1, 2}, u \in BOOLEAN}

LengthJobs ==
  {[kind |-> "lengths", frequencies |-> f, maxbits |-> m] :
     f \in [0..4 -> {0, 1, 2, 5}], m \in {2, 3}}

MCJobs == ImageJobs \cup ZlibJobs \cup LengthJobs
=============================================================================
