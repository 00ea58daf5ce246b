-------------------------- MODULE MCExpertQueries --------------------------
(* Instances of ExpertQueries for TLC.                                     *)
EXTENDS ExpertQueries, TLC
=============================================================================
