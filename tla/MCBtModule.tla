----------------------------- MODULE MCBtModule -----------------------------
(* BtModule for TLC: two peers on two connections, as CONFIG_BT_MAX_CONN. *)
EXTENDS BtModule, TLC

MCSize == [m \in DataTypes |-> IF m = "HEAT" THEN 20 ELSE 20]
Symmetry == Permutations(Peers)

=============================================================================
