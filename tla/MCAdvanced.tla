----------------------------- MODULE MCAdvanced -----------------------------
(* Instances of Advanced for TLC.                                          *)
EXTENDS Advanced, TLC

CONSTANTS l1, l2, l3, u1

\* Two supported LTE bands and one of 3G; l3 is an LTE band the modem lacks.
Family_ == [b \in {l1, l2, l3} |-> "4g"] @@ (u1 :> "3g")
Supported_ == <<u1, l1, l2>>

\* One intent and one set of modes: the data decide nothing here.
OneMode == {{"3g", "4g"}}
OneIntent == {[allowed |-> {"4g"}, preferred |-> "none"]}
=============================================================================
