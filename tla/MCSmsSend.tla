----------------------------- MODULE MCSmsSend -----------------------------
(* Instances of SmsSend for TLC.                                           *)
EXTENDS SmsSend, TLC

Symmetry == Permutations(Op) \cup Permutations(Token) \cup Permutations(Proxy)
=============================================================================
