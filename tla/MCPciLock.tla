----------------------------- MODULE MCPciLock -----------------------------
(* Instances of PciLock for TLC.                                           *)
EXTENDS PciLock, TLC

Symmetry == Permutations(Op)
=============================================================================
