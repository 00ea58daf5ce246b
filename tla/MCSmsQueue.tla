----------------------------- MODULE MCSmsQueue -----------------------------
(* An instance of SmsSend with enough requests for a full dedupe queue to  *)
(* choose what it evicts, and for the token that went to come back.  To    *)
(* pay for them less interrupts the requests than in MCSmsSend.            *)
EXTENDS SmsSend, TLC

Symmetry == Permutations(Token)

\* Requests are numbered and come in that order.
InOrder == \A o, p \in Op : p < o => op[o].phase = "unused" \/ op[p].phase # "unused"

\* Failures the queue does not tell from "refused".
Alike == {"busy", "timeout", "dependency_unavailable", "internal_error"}

\* Sends only, interrupted by new epochs, the first by its timer too, and
\* one expiry.
Undisturbed ==
    /\ InOrder
    /\ live /\ connected /\ kind # "other"
    /\ \A o \in Op : /\ op[o].phase # "unused" => op[o].token # NoToken
                     /\ op[o].code \notin Alike
    /\ Cardinality(expired) <= 1
    /\ \A o \in Op : op[o].timedOut => o = 1
=============================================================================
