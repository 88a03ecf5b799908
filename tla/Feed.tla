--------------------------------- MODULE Feed ---------------------------------
(***************************************************************************)
(* What the cloud path of the nRF9160 promises, for one broker session:    *)
(* readings reach the broker in the order they were taken, each at most    *)
(* once, while the session is open; some may never reach it; and a session *)
(* that is over is never opened again.                                     *)
(***************************************************************************)
EXTENDS Naturals

VARIABLES
  phase,       (* of the session: "before", "open" or "over"               *)
  taken,       (* readings taken so far; they are numbered from 1          *)
  given        (* the last reading that reached the broker, or 0           *)

vars == <<phase, taken, given>>

Init == phase = "before" /\ taken = 0 /\ given = 0

Take == taken' = taken + 1 /\ UNCHANGED <<phase, given>>

Open == phase = "before" /\ phase' = "open" /\ UNCHANGED <<taken, given>>

Give ==
  /\ phase = "open"
  /\ given' \in given + 1 .. taken
  /\ UNCHANGED <<phase, taken>>

Close == phase # "over" /\ phase' = "over" /\ UNCHANGED <<taken, given>>

Next == Take \/ Open \/ Give \/ Close

Spec == Init /\ [][Next]_vars

=============================================================================
