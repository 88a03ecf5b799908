------------------------------ MODULE Matcher ------------------------------
(***************************************************************************)
(* lodepng_deflatev with the string matcher: the data of a call is cut     *)
(* into blocks, each is turned into tokens, one turn of the matcher's      *)
(* loops at a time, and the hash goes on from block to block.  A reader    *)
(* follows along and undoes every token as soon as it is there.            *)
(***************************************************************************)
EXTENDS Lz77

VARIABLES
  data,     (* the bytes to compress                                        *)
  settings, (* and how                                                      *)
  start,    (* the first byte of the current block, or of the next          *)
  lz,       (* the string matcher, "idle" between blocks                    *)
  told      (* the bytes that the tokens so far stand for                   *)

matcherVars == <<data, settings, start, lz, told>>

Size == Least(Len(data), start + BlockSize(Len(data), settings))

(* Of LodePNGCompressSettings what the matcher and the blocks depend on. *)
SettingsOK ==
  /\ settings.btype \in Nat /\ settings.use_lz77 \in BOOLEAN
  /\ settings.windowsize \in Nat
  /\ settings.minmatch \in Nat /\ settings.nicematch \in Nat
  /\ settings.lazymatching \in BOOLEAN

MatcherInit ==
  /\ data \in Seq(0..255) /\ SettingsOK
  /\ start = 0
  /\ lz = NoBlock(NewHash(0), "idle")
  /\ told = <<>>

(* The data of a call is put together before it. *)
SetData ==
  /\ lz.phase = "idle" /\ start = 0
  /\ data' \in Seq(0..255)
  /\ UNCHANGED <<settings, start, lz, told>>

(* A call: the hash is made at the start and stays from one block to the   *)
(* next.  The number of blocks is a quotient by their size: with a size of *)
(* zero the call faults there and never begins.                            *)
Begin ==
  /\ lz.phase = "idle" /\ start = 0
  /\ settings.btype \in 1..2 /\ settings.use_lz77
  /\ BlockSize(Len(data), settings) # 0
  /\ WindowError(settings.windowsize) = 0
  /\ lz' = NewMatcher(NewHash(settings.windowsize), 0)
  /\ UNCHANGED <<data, settings, start, told>>

OpenBlock ==
  /\ lz.phase = "idle" /\ start > 0
  /\ lz' = NewMatcher(lz.hash, start)
  /\ UNCHANGED <<data, settings, start, told>>

(* A turn that adds no token, and one that adds one. *)
Silent == UNCHANGED <<data, settings, start, told>>

Telling ==
  /\ told' = Undo(told, lz'.out[Len(lz'.out)])
  /\ UNCHANGED <<data, settings, start>>

NextPosition ==
  /\ lz.phase = "arrive" /\ lz.pos < Size
  /\ lz' = Arrive(lz, data, Size, settings)
  /\ Silent

TryCandidate ==
  /\ lz.phase = "search"
  /\ lz' = Try(lz, data, Size, settings)
  /\ Silent

TakeMatch ==
  /\ lz.phase = "decide"
  /\ lz' = Decide(lz, data, settings)
  /\ IF lz'.out = lz.out THEN Silent ELSE Telling

EmitToken ==
  /\ lz.phase = "emit"
  /\ lz' = Emit(lz, data, settings)
  /\ Telling

CoverPosition ==
  /\ lz.phase = "cover"
  /\ lz' = Cover(lz, data, Size, settings)
  /\ Silent

CloseBlock ==
  /\ AtEnd(lz, Size)
  /\ start' = Size
  /\ lz' = NoBlock(lz.hash, IF Size = Len(data) THEN "done" ELSE "idle")
  /\ UNCHANGED <<data, settings, told>>

NextTurn == NextPosition \/ TryCandidate \/ TakeMatch \/ EmitToken \/ CoverPosition

MatcherNext == SetData \/ Begin \/ OpenBlock \/ NextTurn \/ CloseBlock

MatcherSpec == MatcherInit /\ [][MatcherNext]_matcherVars

(***************************************************************************)
(* Properties.                                                             *)
(***************************************************************************)

InBlock == lz.phase \notin {"idle", "done"}

(* What a reader has: the bytes up to the matcher's position, less the one *)
(* whose match is deferred, plus those that are covered by the last match. *)
TokensReach ==
  CASE ~InBlock -> start
    [] InBlock /\ lz.lazy -> lz.pos - 1
    [] InBlock /\ ~lz.lazy -> lz.pos + lz.left

(* Every token can be undone: the tokens so far, those of earlier blocks   *)
(* included, say exactly the bytes that they stand for, no match reaches   *)
(* back out of the window, and a block ends where it should.  The chains   *)
(* of the ring outlive the data they were made for, a match trusts the     *)
(* recorded streaks of zeros unseen, and the matcher steps back to a match *)
(* it has deferred (lodepng.c:1649-1742).                                  *)
MatchesReachBack ==
  /\ told = SubSeq(data, 1, TokensReach)
  /\ TokensReach <= Len(data)
  /\ \A i \in DOMAIN lz.out :
       Len(lz.out[i]) = 2 => lz.out[i][2] \in 1..(settings.windowsize - 1)

(* A recorded streak of zeros is never longer than the zeros that really   *)
(* are there, for every position that the search may meet: the hash that   *)
(* is taken for three zeros (masked to ten bits here) is zero for other    *)
(* bytes too, and the streak is carried along rather than counted again    *)
(* (lodepng.c:1632-1637).                                                  *)
ZerosCounted ==
  lz.phase = "search" =>
    \A p \in 0..lz.pos : p > lz.pos - settings.windowsize =>
      \A q \in p..(p + lz.hash.zeros[p % settings.windowsize] - 1) :
        q < Len(data) /\ data[q + 1] = 0

(* The search only looks at what there is: a candidate is a slot of the    *)
(* ring that has been written (hash->zeros is never initialised,           *)
(* lodepng.c:1519), at a byte of the data before the position, and the     *)
(* zeros that are skipped there end before the last byte of the block.     *)
CandidatesSeen ==
  lz.phase = "search" =>
    /\ lz.hashpos \in DOMAIN lz.hash.zeros
    /\ lz.hash.zeros[lz.hashpos] # Unset
    /\ Back(lz, settings) \in 0..lz.pos
    /\ lz.pos + Skip(lz, lz.hashpos) <= Size

(* What the search for the longest match relies on. *)
SearchSound == ZerosCounted /\ CandidatesSeen
=============================================================================
