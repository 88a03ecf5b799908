------------------------------ MODULE Huffman ------------------------------
(***************************************************************************)
(* The prefix codes of lodepng.c: how the encoder gives every symbol a     *)
(* code length no longer than a limit (boundary package-merge), how both   *)
(* sides derive the same codes from the lengths, and how the decoder reads *)
(* one symbol.  A tree is a record of its lengths, its codes as sequences  *)
(* of bits (first bit first) and the error of building it.  The node pool  *)
(* of the package-merge and its garbage collection are left out: a chain   *)
(* is the sequence of its nodes.                                           *)
(***************************************************************************)
EXTENDS Integers, Sequences, FiniteSets, SequencesExt, FiniteSetsExt, TLC

INVALIDSYMBOL == 65535

(* The function itself: TLC computes it here, not at each application. *)
Tabulated(f) == f @@ <<>>

(* The n low bits of v, the least significant first (writeBits). *)
BitsOf(v, n) == [i \in 1..n |-> (v \div 2^(i - 1)) % 2]

(* The same, the most significant first (writeBitsReversed, reverseBits). *)
CodeBits(v, n) == Reverse(BitsOf(v, n))

(***************************************************************************)
(* Codes from lengths.                                                     *)
(***************************************************************************)

Count(lengths, l) == Cardinality({n \in DOMAIN lengths : lengths[n] = l})

(* The first code of every length. *)
NextCode(lengths, maxbits) ==
  LET first[l \in 0..maxbits] ==
        IF l = 0 THEN 0 ELSE 2 * (first[l - 1] + Count(lengths, l - 1))
  IN  first

(* The lookup tables can be filled for a tree of fewer than two symbols,   *)
(* and for one whose codes use up all strings of bits exactly once: an     *)
(* oversubscribed tree finds an entry taken (its codes wrap around to that *)
(* of the shortest one), an incomplete one leaves an entry unused.         *)
TableError(lengths, maxbits) ==
  LET present == Cardinality(DOMAIN lengths) - Count(lengths, 0)
      used == MapThenSumSet(LAMBDA l : Count(lengths, l) * 2^(maxbits - l), 1..maxbits)
  IN  IF present >= 2 /\ used # 2^maxbits THEN 55 ELSE 0

MakeFromLengths(lengths, maxbits) ==
  LET present == {n \in DOMAIN lengths : lengths[n] # 0}
      first == NextCode(lengths, maxbits)
      Code(n) ==
        (first[lengths[n]]
           + Cardinality({m \in 0..(n - 1) : lengths[m] = lengths[n]}))
        % 2^lengths[n]
  IN  [lengths |-> lengths,
       codes   |-> Tabulated([n \in present |-> CodeBits(Code(n), lengths[n])]),
       error   |-> TableError(lengths, maxbits)]

(* The symbol at position bp of a sequence of bits; the reader sees zeros  *)
(* past the end.  A tree of no or one symbol leaves strings without one.   *)
BitAt(in, i) == IF i \in DOMAIN in THEN in[i] ELSE 0

DecodeSymbol(tree, in, bp) ==
  LET fits == {n \in DOMAIN tree.codes :
                 \A k \in DOMAIN tree.codes[n] :
                   BitAt(in, bp + k) = tree.codes[n][k]}
  IN  IF fits = {}
      THEN [symbol |-> INVALIDSYMBOL, bp |-> bp + 1]
      ELSE LET n == CHOOSE m \in fits : TRUE
           IN  [symbol |-> n, bp |-> bp + Len(tree.codes[n])]

(* The trees of a block of fixed codes. *)
FixedLitLen ==
  MakeFromLengths(Tabulated([n \in 0..287 |-> CASE n \in 0..143   -> 8
                                               [] n \in 144..255 -> 9
                                               [] n \in 256..279 -> 7
                                               [] n \in 280..287 -> 8]), 15)

FixedDistance == MakeFromLengths([n \in 0..31 |-> 5], 15)

(***************************************************************************)
(* Lengths from frequencies.                                               *)
(***************************************************************************)

(* Mutant of Leaves: bpmnode_sort is not called. *)
LeavesUnsorted(frequencies) ==
  LET symbols == [i \in 1..Cardinality(DOMAIN frequencies) |-> i - 1]
      present == SelectSeq(symbols, LAMBDA n : frequencies[n] > 0)
  IN  [i \in DOMAIN present |-> [weight |-> frequencies[present[i]], index |-> present[i]]]

(* The symbols that occur, the rarest first; the sort is stable. *)
Leaves(frequencies) ==
  LET symbols == [i \in 1..Cardinality(DOMAIN frequencies) |-> i - 1]
      present == SelectSeq(symbols, LAMBDA n : frequencies[n] > 0)
  IN  SortSeq([i \in DOMAIN present |-> [weight |-> frequencies[present[i]],
                                          index |-> present[i]]],
              LAMBDA a, b : \/ a.weight < b.weight
                            \/ a.weight = b.weight /\ a.index < b.index)

(* One step of the boundary package-merge in list c: the two newest chains *)
(* of a list are chains0 and chains1, and the new chain holds the next     *)
(* leaf or, when that is no dearer, the package of the list before it,     *)
(* which then needs two new chains of its own.                             *)
RECURSIVE BoundaryPM(_, _, _, _)
BoundaryPM(lists, leaves, c, num) ==
  LET numpresent == Len(leaves)
      lastindex == lists.chains1[c][1].index
      Push(chain) == [chains0 |-> [lists.chains0 EXCEPT ![c] = lists.chains1[c]],
                      chains1 |-> [lists.chains1 EXCEPT ![c] = chain]]
      Leaf == [weight |-> leaves[lastindex + 1].weight, index |-> lastindex + 1]
      sum == lists.chains0[c - 1][1].weight + lists.chains1[c - 1][1].weight
      package == Push(<<[weight |-> sum, index |-> lastindex]>> \o lists.chains1[c - 1])
  IN  CASE c = 0 /\ lastindex >= numpresent -> lists
        [] c = 0 /\ lastindex < numpresent -> Push(<<Leaf>>)
        [] c > 0 /\ lastindex < numpresent /\ sum > leaves[lastindex + 1].weight ->
             Push(<<Leaf>> \o Tail(lists.chains1[c]))
        [] OTHER ->
             IF num + 1 < 2 * numpresent - 2
             THEN BoundaryPM(BoundaryPM(package, leaves, c - 1, num),
                             leaves, c - 1, num)
             ELSE package

(* The chain of the last list after all its steps, for two symbols or more. *)
LastChain(leaves, maxbits) ==
  LET Node(k) == <<[weight |-> leaves[k].weight, index |-> k]>>
      start == [chains0 |-> [c \in 0..(maxbits - 1) |-> Node(1)],
                chains1 |-> [c \in 0..(maxbits - 1) |-> Node(2)]]
      steps == [k \in 1..(2 * Len(leaves) - 4) |-> k + 1]
  IN  FoldLeft(LAMBDA lists, i : BoundaryPM(lists, leaves, maxbits - 1, i),
               start, steps).chains1[maxbits - 1]

(* lodepng_huffman_code_lengths: at least two symbols get a code. *)
CodeLengths(frequencies, maxbits) ==
  LET codes == DOMAIN frequencies
      leaves == Leaves(frequencies)
      chain == LastChain(leaves, maxbits)
      Two(a, b) == [n \in codes |-> IF n \in {a, b} THEN 1 ELSE 0]
      Rank(n) == CHOOSE r \in DOMAIN leaves : leaves[r].index = n
      Depth(n) == Cardinality({k \in DOMAIN chain : chain[k].index >= Rank(n)})
  IN  CASE codes = {} \/ 2^maxbits < Cardinality(codes) ->
             [error |-> 80, lengths |-> [n \in codes |-> 0]]
        [] OTHER ->
             [error |-> 0,
              lengths |-> CASE Len(leaves) = 0 -> Two(0, 1)
                            [] Len(leaves) = 1 ->
                                 Two(leaves[1].index, IF leaves[1].index = 0 THEN 1 ELSE 0)
                            [] OTHER ->
                                 Tabulated([n \in codes |-> IF frequencies[n] > 0
                                                            THEN Depth(n) ELSE 0])]

(* The tree of a set of frequencies; symbols at the end that never occur   *)
(* are left out of the alphabet, down to mincodes symbols.                 *)
MakeFromFrequencies(frequencies, mincodes, maxbits) ==
  LET used == {n + 1 : n \in {m \in DOMAIN frequencies : frequencies[m] > 0}}
      numcodes == Max({mincodes} \cup used)
      result == CodeLengths([n \in 0..(numcodes - 1) |-> frequencies[n]], maxbits)
  IN  IF result.error # 0
      THEN [lengths |-> result.lengths, codes |-> <<>>, error |-> result.error]
      ELSE MakeFromLengths(result.lengths, maxbits)
=============================================================================
