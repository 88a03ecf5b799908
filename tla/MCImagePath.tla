----------------------------- MODULE MCImagePath -----------------------------
(* ImagePath for TLC: images of one part and of two, the last one shorter. *)
EXTENDS ImagePath

Budget(i, p, t) == [images |-> i, presses |-> p, now |-> t]

MCBudgets == {Budget(2, 5, 0), Budget(2, 2, 2), Budget(1, 4, 1)}

=============================================================================
