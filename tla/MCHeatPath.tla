----------------------------- MODULE MCHeatPath -----------------------------
(* HeatPath for TLC: a heat map of two pieces, the others of one, a buffer *)
(* that two heat maps overflow, and queues that one message fills.         *)
EXTENDS HeatPath

MCQueueLen == [q \in Modules |-> 1]
MCSize == [k \in Wire |-> IF k = "MAP" THEN 2 ELSE 1]

Budget(f, t, p, r) == [frames |-> f, troubles |-> t, presses |-> p, restarts |-> r]

MCBudgets == {Budget(2, 0, 0, 1), Budget(1, 1, 1, 0), Budget(0, 0, 1, 1)}

=============================================================================
