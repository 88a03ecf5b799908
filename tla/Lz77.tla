-------------------------------- MODULE Lz77 --------------------------------
(***************************************************************************)
(* The string matcher of lodepng.c (encodeLZ77 and its Hash): a ring of    *)
(* the last `window` positions with two chains through it, one of the      *)
(* positions with the same hash of three bytes and one of those with the   *)
(* same number of zeros ahead.  The state of the matcher is a record, and  *)
(* a turn of one of its loops is an operator: Arrive at a position, Try a  *)
(* candidate, Decide what to do with the match, Emit a token, Cover a      *)
(* position of a match.  Tables that the code fills with -1 are functions  *)
(* that grow.  The output is a sequence of tokens, <<byte>> or             *)
(* <<length, distance>>.                                                   *)
(***************************************************************************)
EXTENDS Integers, Sequences, FiniteSetsExt

CONSTANTS HashBits,         (* of HASH_BIT_MASK; 10 in this repository      *)
          MinBlock,         (* 65536: the least size of a dynamic block     *)
          MaxBlock          (* 262144: the largest                          *)

ASSUME MatcherAssumption ==
  HashBits \in Nat /\ MinBlock \in Nat \ {0} /\ MaxBlock \in Nat \ {0}

MaxLength == 258            (* MAX_SUPPORTED_DEFLATE_LENGTH *)
Unset == -1

Least(a, b) == IF a < b THEN a ELSE b

Lookup(table, key) == IF key \in DOMAIN table THEN table[key] ELSE Unset

Put(table, key, value) ==
  [k \in DOMAIN table \cup {key} |-> IF k = key THEN value ELSE table[k]]

NewHash(window) ==
  [head |-> <<>>, headz |-> <<>>,
   val |-> [w \in 0..(window - 1) |-> Unset],
   chain |-> [w \in 0..(window - 1) |-> w],
   chainz |-> [w \in 0..(window - 1) |-> w],
   zeros |-> [w \in 0..(window - 1) |-> Unset]]

(* What encodeLZ77 starts from: the hash lives on from block to block, the *)
(* streak of zeros and the deferred match do not.                          *)
NewMatcher(hash, inpos) ==
  [phase |-> "arrive", hash |-> hash, pos |-> inpos, out |-> <<>>, numzeros |-> 0,
   lazy |-> FALSE, deferred |-> <<0, 0>>,
   hashpos |-> 0, tries |-> 0, prev |-> 0, best |-> <<0, 0>>, left |-> 0]

(* The matcher between two blocks, and before and after them. *)
NoBlock(hash, phase) == [NewMatcher(hash, 0) EXCEPT !.phase = phase]

WindowError(window) ==
  IF window = 0 \/ window > 32768 THEN 60
  ELSE IF ~ \E k \in 0..15 : window = 2^k THEN 90
  ELSE 0

(* How lodepng_deflatev cuts its input. *)
BlockSize(insize, s) ==
  IF s.btype = 1 THEN insize
  ELSE Least(MaxBlock, IF MinBlock > insize \div 8 + 8 THEN MinBlock ELSE insize \div 8 + 8)

(* getHash: three bytes, or what is left of them before the end, shifted   *)
(* and added bit by bit without carry.                                     *)
GetHash(data, size, pos) ==
  LET Byte(k) == IF pos + k < size THEN data[pos + k + 1] ELSE 0
      shift == IF pos + 2 < size THEN 16 ELSE 256
      Bit(v, k) == (v \div 2^k) % 2
  IN  MapThenSumSet(LAMBDA k : 2^k * ((Bit(Byte(0), k) + Bit(Byte(1) * shift, k)
                                         + Bit(Byte(2) * shift * shift, k)) % 2),
                    0..(HashBits - 1))

(* countZeros: the zeros from pos on, as far as a match can reach. *)
CountZeros(data, size, pos) ==
  LET end == Least(size, pos + MaxLength)
  IN  (CHOOSE p \in pos..end :
         /\ p = end \/ data[p + 1] # 0
         /\ \A q \in pos..(p - 1) : data[q + 1] = 0) - pos

(* Mutant of NextZeros: the streak is not shortened at its end. *)
NextZerosKept(numzeros, data, size, pos) ==
  IF GetHash(data, size, pos) # 0 THEN 0
  ELSE IF numzeros = 0 THEN CountZeros(data, size, pos)
  ELSE numzeros

(* The streak is counted once and then follows the position. *)
NextZeros(numzeros, data, size, pos) ==
  IF GetHash(data, size, pos) # 0 THEN 0
  ELSE IF numzeros = 0 THEN CountZeros(data, size, pos)
  ELSE IF pos + numzeros > size \/ data[pos + numzeros] # 0 THEN numzeros - 1
  ELSE numzeros

(* updateHashChain at ring position w. *)
UpdateHashChain(hash, w, hashval, numzeros) ==
  LET older == Lookup(hash.head, hashval)
      olderz == Lookup(hash.headz, numzeros)
  IN  [head   |-> Put(hash.head, hashval, w),
       headz  |-> Put(hash.headz, numzeros, w),
       val    |-> [hash.val EXCEPT ![w] = hashval],
       zeros  |-> [hash.zeros EXCEPT ![w] = numzeros],
       chain  |-> IF older # Unset THEN [hash.chain EXCEPT ![w] = older] ELSE hash.chain,
       chainz |-> IF olderz # Unset THEN [hash.chainz EXCEPT ![w] = olderz] ELSE hash.chainz]

Visit(lz, data, size, s) ==
  LET numzeros == NextZeros(lz.numzeros, data, size, lz.pos)
  IN  [lz EXCEPT !.numzeros = numzeros,
                 !.hash = UpdateHashChain(@, lz.pos % s.windowsize,
                                          GetHash(data, size, lz.pos), numzeros)]

(* The next position of the loop, and the first candidate for a match.     *)
Arrive(lz, data, size, s) ==
  LET here == Visit(lz, data, size, s)
  IN  [here EXCEPT !.phase = "search",
                   !.hashpos = here.hash.chain[lz.pos % s.windowsize],
                   !.tries = 0, !.prev = 0, !.best = <<0, 0>>]

(* How far the bytes at pos repeat those `back` bytes earlier, the first   *)
(* `skip` of which are known to be zeros on both sides.                    *)
MatchLength(data, size, pos, back, skip) ==
  LET last == Least(size, pos + MaxLength)
  IN  (CHOOSE p \in (pos + skip)..last :
         /\ p = last \/ data[p + 1] # data[p - back + 1]
         /\ \A q \in (pos + skip)..(p - 1) : data[q + 1] = data[q - back + 1]) - pos

(* Mutant of Skip: the zeros at the candidate are taken to be as many as here. *)
SkipHere(lz, hashpos) == IF lz.numzeros >= 3 THEN lz.numzeros ELSE 0

Skip(lz, hashpos) ==
  IF lz.numzeros >= 3 THEN Least(lz.hash.zeros[hashpos], lz.numzeros) ELSE 0

(* How far back in the ring the candidate is. *)
Back(lz, s) ==
  LET w == lz.pos % s.windowsize
  IN  IF lz.hashpos <= w THEN w - lz.hashpos ELSE w - lz.hashpos + s.windowsize

(* The longest match when the candidate has been compared. *)
Found(lz, data, size, s) ==
  LET back == Back(lz, s)
      length == IF back > 0
                THEN MatchLength(data, size, lz.pos, back, Skip(lz, lz.hashpos)) ELSE 0
  IN  IF length > lz.best[1] THEN <<length, back>> ELSE lz.best

(* One candidate of the search for the longest match; the next one is      *)
(* found along one of the two chains.                                      *)
Try(lz, data, size, s) ==
  LET hash == lz.hash
      found == Found(lz, data, size, s)
      enough == found # lz.best /\ found[1] >= Least(s.nicematch, MaxLength)
      along == lz.numzeros >= 3 /\ found[1] > lz.numzeros
      next == IF along THEN hash.chainz[lz.hashpos] ELSE hash.chain[lz.hashpos]
      outdated == IF along THEN hash.zeros[next] # lz.numzeros
                           ELSE hash.val[next] # hash.val[lz.pos % s.windowsize]
      maxchain == IF s.windowsize >= 8192 THEN s.windowsize ELSE s.windowsize \div 8
  IN  IF lz.tries >= maxchain \/ Back(lz, s) < lz.prev
      THEN [lz EXCEPT !.phase = "decide"]
      ELSE IF enough \/ lz.hashpos = hash.chain[lz.hashpos] \/ outdated
      THEN [lz EXCEPT !.phase = "decide", !.best = found]
      ELSE [lz EXCEPT !.best = found, !.hashpos = next, !.tries = @ + 1,
                      !.prev = Back(lz, s)]

(* A match is kept back to see whether the next byte starts a longer one. *)
Defers(lz, s) ==
  /\ s.lazymatching /\ ~lz.lazy
  /\ lz.best[1] >= 3 /\ lz.best[1] < MaxLength
  /\ lz.best[1] <= (IF s.windowsize >= 8192 THEN MaxLength ELSE 64)

(* A deferred match that is taken after all steps one byte back: the hash  *)
(* entries of the byte are taken out, for it will be visited again.        *)
Forget(lz, s) ==
  [lz EXCEPT !.hash.head = Put(@, lz.hash.val[lz.pos % s.windowsize], Unset),
             !.hash.headz = Put(@, lz.numzeros, Unset),
             !.pos = @ - 1]

Literal(data, pos) == <<data[pos + 1]>>

Decide(lz, data, s) ==
  CASE Defers(lz, s) ->
         [lz EXCEPT !.phase = "arrive", !.lazy = TRUE, !.deferred = lz.best, !.pos = @ + 1]
    [] lz.lazy /\ lz.best[1] > lz.deferred[1] + 1 ->
         [lz EXCEPT !.phase = "emit", !.lazy = FALSE,
                    !.out = Append(@, Literal(data, lz.pos - 1))]
    [] lz.lazy /\ lz.best[1] <= lz.deferred[1] + 1 ->
         [Forget(lz, s) EXCEPT !.phase = "emit", !.lazy = FALSE, !.best = lz.deferred]
    [] OTHER -> [lz EXCEPT !.phase = "emit"]

(* One token at lz.pos; a match has all the positions that it covers to    *)
(* visit before the next one.                                              *)
Emit(lz, data, s) ==
  LET single == \/ lz.best[1] < 3
                \/ lz.best[1] < s.minmatch
                \/ lz.best[1] = 3 /\ lz.best[2] > 4096
  IN  IF single
      THEN [lz EXCEPT !.phase = "arrive", !.pos = @ + 1,
                      !.out = Append(@, Literal(data, lz.pos))]
      ELSE [lz EXCEPT !.phase = "cover", !.pos = @ + 1, !.left = lz.best[1] - 1,
                      !.out = Append(@, lz.best)]

Cover(lz, data, size, s) ==
  [Visit(lz, data, size, s) EXCEPT !.phase = IF lz.left = 1 THEN "arrive" ELSE "cover",
                                   !.pos = @ + 1, !.left = @ - 1]

(* The matcher is at the end of a block when it would arrive there. *)
AtEnd(lz, size) == lz.phase = "arrive" /\ lz.pos >= size

(* The next turn in a block that ends at size. *)
Turn(lz, data, size, s) ==
  CASE lz.phase = "arrive" -> Arrive(lz, data, size, s)
    [] lz.phase = "search" -> Try(lz, data, size, s)
    [] lz.phase = "decide" -> Decide(lz, data, s)
    [] lz.phase = "emit" -> Emit(lz, data, s)
    [] lz.phase = "cover" -> Cover(lz, data, size, s)

(* What a token says after the bytes that came before it: a match repeats  *)
(* bytes one by one, those it has just written included.                   *)
Repeat(bytes, length, back) ==
  bytes \o [k \in 1..length |-> bytes[Len(bytes) - back + 1 + ((k - 1) % back)]]

Undo(bytes, token) ==
  IF Len(token) = 1 THEN bytes \o token ELSE Repeat(bytes, token[1], token[2])
=============================================================================
