----------------------------- MODULE MCSmsCache -----------------------------
(* Instances of SmsCache for TLC.                                          *)
EXTENDS SmsCache, TLC
=============================================================================
