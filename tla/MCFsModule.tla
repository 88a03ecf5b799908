----------------------------- MODULE MCFsModule -----------------------------
(* FsModule for TLC: an image of several parts and a heat map of fewer. *)
EXTENDS FsModule

CONSTANTS image, map

MCFiles == {image, map}
MCParts == [f \in MCFiles |-> IF f = image THEN 6 ELSE 2]

=============================================================================
