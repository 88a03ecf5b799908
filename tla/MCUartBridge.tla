---------------------------- MODULE MCUartBridge ----------------------------
(* UartBridge for TLC: the receive blocks are interchangeable. *)
EXTENDS UartBridge, TLC

Symmetry == Permutations(Blocks)

=============================================================================
