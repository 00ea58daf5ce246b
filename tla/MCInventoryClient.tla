------------------------- MODULE MCInventoryClient -------------------------
(* Instances of InventoryClient for TLC.                                   *)
EXTENDS InventoryClient, TLC

Symmetry == Permutations(Path) \cup Permutations(Id)
=============================================================================
