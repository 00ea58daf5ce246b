----------------------------- MODULE Advanced -----------------------------
(***************************************************************************)
(* The band and mode operations of l850gl-mm-bridge (set_bands, set_modes  *)
(* in ubus_glib.c) on the modem at one device path.                        *)
(*                                                                         *)
(* set_bands dispatches SetCurrentBands and waits for its callback.        *)
(* set_modes writes the intent to /etc/config/network, which other         *)
(* processes edit too, then asks netifd to reload and waits for its answer.*)
(* Both hold the modem's mutation lock and start a cooldown.               *)
(*                                                                         *)
(* An action is one callback of the single-threaded main loop, except that *)
(* set_modes is cut where it loads the file and where it commits: only     *)
(* other processes act in between ("handler").  Requests refused without a *)
(* change of state are not actions.  That ubus_lookup_id may itself lose   *)
(* the connection is left out.                                             *)
(***************************************************************************)
EXTENDS RadioPolicy, NetworkBinding

CONSTANTS
    Op,       \* set_bands and set_modes requests
    NoOp,     \* no operation
    NoSection,\* no section
    Intents,  \* the intents that requests and other processes write
    Modes,    \* what mm_modem_get_current_modes may return
    MaxGen    \* the last modem object: bounds the replugs

ASSUME AdvancedAssumption ==
    /\ NoOp \notin Op
    /\ NoSection \notin Section
    /\ Intents \subseteq Intent /\ Intents # {}
    /\ Modes \subseteq {{"any"}} \cup SUBSET Families
    /\ MaxGen \in Nat \ {0}

VARIABLES
    generation, \* generation of the newest modem object
    live,       \* is it still in the inventory?
    modes,      \* its current modes
    kind,       \* mutation_kind per object; "other" is anything that blocks
    holder,     \* the operation whose cancellable is mutation_cancellable
    cooling,    \* advanced_cooldown_until is in the future
    op,         \* the requests
    connected,  \* ubus->connected
    handler,    \* the set_modes request inside l850gl_network_modes_update
    file        \* /etc/config/network

vars == <<generation, live, modes, kind, holder, cooling, op, connected, handler, file>>

Object == 1..MaxGen

Codes == {"none", "ok", "refused", "busy", "outcome_unknown", "dropped", "persistence_failed",
          "netifd_binding_not_found", "netifd_binding_ambiguous"}

(***************************************************************************)
(* An AdvancedOperation.  rpc is what ModemManager made of SetCurrentBands *)
(* so far.  wrote is history: whether the commit reached the file, and     *)
(* whether the section was then still the one bound to the modem.          *)
(***************************************************************************)
OpRecord ==
    [phase      : {"unused", "bands", "commit", "reload", "done"},
     object     : 0..MaxGen,
     timedOut   : BOOLEAN,
     lost       : BOOLEAN,     \* transport_lost
     cancelled  : BOOLEAN,
     rpc        : {"none", "sent", "applied", "refused"},
     section    : Section \cup {NoSection},
     intent     : Intents,
     wrote      : {"no", "bound", "stray"},
     activation : {"none", "pending", "reloaded", "failed", "outcome_unknown"},
     code       : Codes,
     liveAtEnd  : BOOLEAN]

AnyIntent == CHOOSE i \in Intents : TRUE

NewOp(phase) ==
    [phase |-> phase, object |-> generation, timedOut |-> FALSE, lost |-> FALSE,
     cancelled |-> FALSE, rpc |-> "none", section |-> NoSection, intent |-> AnyIntent,
     wrote |-> "no", activation |-> "none", code |-> "none", liveAtEnd |-> FALSE]

InFlight(o) == op[o].phase \in {"bands", "commit", "reload"}

Live(m) == live /\ m = generation

Init ==
    /\ generation = 1 /\ live = TRUE
    /\ modes \in Modes
    /\ kind = [m \in Object |-> "none"]
    /\ holder = [m \in Object |-> NoOp]
    /\ cooling = [m \in Object |-> FALSE]
    /\ op = [o \in Op |-> [NewOp("unused") EXCEPT !.object = 0]]
    /\ connected = TRUE
    /\ handler = NoOp
    /\ file \in [Section -> [bound : BOOLEAN, modes : Intents]]

-----------------------------------------------------------------------------
(* Completion.                                                             *)

\* advanced_operation_free of the operations os.
Free(os) ==
    LET free == {m \in Object : kind[m] = "advanced" /\ holder[m] \in os}
        of == {op[o].object : o \in os}
    IN  /\ kind' = [m \in Object |-> IF m \in free THEN "none" ELSE kind[m]]
        /\ holder' = [m \in Object |-> IF m \in free THEN NoOp ELSE holder[m]]
        /\ cooling' = [m \in Object |-> cooling[m] \/ m \in of]

\* What remains of an operation: the reply and what it did.
Completed(r, code, activation) ==
    [r EXCEPT !.phase = "done", !.code = code, !.activation = activation,
              !.liveAtEnd = Live(r.object), !.section = NoSection, !.intent = AnyIntent,
              !.timedOut = FALSE, !.lost = FALSE, !.cancelled = FALSE]

\* advanced_operation_complete_error and advanced_operation_complete_success
Complete1(o, r, code, activation) ==
    /\ op' = [op EXCEPT ![o] = Completed(r, code, activation)]
    /\ Free({o})

-----------------------------------------------------------------------------
(* Admission.                                                              *)

\* Mutant: a request is admitted while another operation waits.
AdmitsBusy == connected /\ handler = NoOp /\ live /\ ~cooling[generation]

\* advanced_mutation_modem for a request that names the live object.
Admits ==
    /\ connected /\ handler = NoOp /\ live
    /\ kind[generation] = "none"
    /\ ~cooling[generation]

\* advanced_operation_new
Lock(o) ==
    /\ kind' = [kind EXCEPT ![generation] = "advanced"]
    /\ holder' = [holder EXCEPT ![generation] = o]
    /\ cooling' = [cooling EXCEPT ![generation] = TRUE]

-----------------------------------------------------------------------------
(* set_bands.                                                              *)

SetBands(o) ==
    /\ Admits /\ op[o].phase = "unused"
    /\ \E q \in Requests : SelectionCode(q, modes) = "ok"
    /\ op' = [op EXCEPT ![o] = [NewOp("bands") EXCEPT !.rpc = "sent"]]
    /\ Lock(o)
    /\ UNCHANGED <<generation, live, modes, connected, handler, file>>

\* External: ModemManager executes or refuses SetCurrentBands, whether or not
\* anybody still waits for the answer.
Executes(o) ==
    /\ op[o].rpc = "sent"
    /\ \E r \in {"applied", "refused"} : op' = [op EXCEPT ![o].rpc = r]
    /\ UNCHANGED <<generation, live, modes, kind, holder, cooling, connected, handler, file>>

\* The errors advanced_error_has_unknown_outcome names are "uncertain"; of the
\* definite ones, "busy" stands for the retryable codes.
Answers(o) ==
    IF op[o].cancelled THEN {"cancelled"}
    ELSE {"uncertain"} \cup (IF op[o].rpc = "applied" THEN {"ok"} ELSE {})
                       \cup (IF op[o].rpc = "refused" THEN {"refused", "busy"} ELSE {})

\* Mutant: only the error decides, and a cancelled call counts as failed.
OutcomeUnknownByError(o, a) == a = "uncertain"

\* advanced_operation_outcome_is_unknown
OutcomeUnknown(o, a) ==
    op[o].timedOut \/ op[o].lost \/ ~Live(op[o].object) \/ a \in {"uncertain", "cancelled"}

\* advanced_operation_ready.  advanced_operation_stale_code decides nothing
\* after that: an object keeps its generation and its proxy while it is live.
BandsReady(o) ==
    /\ handler = NoOp /\ op[o].phase = "bands"
    /\ \E a \in Answers(o) :
         Complete1(o, op[o],
                   IF OutcomeUnknown(o, a) THEN "outcome_unknown"
                   ELSE IF a = "cancelled" THEN "refused" ELSE a,
                   "none")
    /\ UNCHANGED <<generation, live, modes, connected, handler, file>>

-----------------------------------------------------------------------------
(* set_modes.                                                              *)

\* Mutant: the handler returns without completing the operation.
RefuseModesIncomplete(o, code) ==
    /\ op' = [op EXCEPT ![o] = NewOp("commit")]
    /\ Lock(o)
    /\ UNCHANGED handler

\* The operation is created and refused in one call of the handler.
RefuseModes(o, code) ==
    /\ op' = [op EXCEPT ![o] = Completed(NewOp("commit"), code, "none")]
    /\ cooling' = [cooling EXCEPT ![generation] = TRUE]
    /\ UNCHANGED <<kind, holder, handler>>

\* method_set_modes up to uci_set: the file is loaded and scanned.
SetModes(o) ==
    /\ Admits /\ op[o].phase = "unused"
    /\ \/ RefuseModes(o, "persistence_failed")  \* uci_load or uci_set fails
       \/ Lookup(file) = "none" /\ RefuseModes(o, "netifd_binding_not_found")
       \/ Lookup(file) = "ambiguous" /\ RefuseModes(o, "netifd_binding_ambiguous")
       \/ /\ Lookup(file) = "unique"
          /\ \E i \in Intents, s \in Matches(file) :
               /\ ModesAreValid(i)
               /\ op' = [op EXCEPT ![o] = [NewOp("commit") EXCEPT !.section = s, !.intent = i]]
          /\ Lock(o)
          /\ handler' = o
    /\ UNCHANGED <<generation, live, modes, connected, file>>

Wrote(o) ==
    [op[o] EXCEPT !.wrote = IF Matches(file) = {op[o].section} THEN "bound" ELSE "stray"]

Written(o) == Committed(file, op[o].section, op[o].intent)

\* uci_commit fails, before or after it replaced the file.
CommitFails(o) ==
    \/ Complete1(o, Wrote(o), "outcome_unknown", "none") /\ file' = Written(o)
    \/ Complete1(o, op[o], "outcome_unknown", "none") /\ UNCHANGED file

\* The package uci_commit read back does not have the section any more.
ReadbackFails(o) ==
    /\ ~IsExactSection(Written(o), op[o].section)
    /\ Complete1(o, Wrote(o), "outcome_unknown", "none")
    /\ file' = Written(o)

\* The intent is verified; the reload cannot be requested, or it is.
Persisted(o) ==
    /\ IsExactSection(Written(o), op[o].section)
    /\ file' = Written(o)
    /\ \/ Complete1(o, Wrote(o), "ok", "pending")
       \/ /\ op' = [op EXCEPT ![o] = [Wrote(o) EXCEPT !.phase = "reload",
                                        !.section = NoSection, !.intent = AnyIntent]]
          /\ UNCHANGED <<kind, holder, cooling>>

\* The rest of method_set_modes.
CommitModes(o) ==
    /\ handler = o
    /\ CommitFails(o) \/ ReadbackFails(o) \/ Persisted(o)
    /\ handler' = NoOp
    /\ UNCHANGED <<generation, live, modes, connected>>

\* advanced_network_reload_complete
ReloadComplete(o) ==
    /\ handler = NoOp /\ op[o].phase = "reload"
    /\ \E a \in {"reloaded", "failed"} : Complete1(o, op[o], "ok", a)
    /\ UNCHANGED <<generation, live, modes, connected, handler, file>>

-----------------------------------------------------------------------------
(* Interruptions.                                                          *)

\* Mutant: the timer marks a band operation but does not cancel the call.
OperationTimeoutUncancelled(o) ==
    /\ handler = NoOp /\ InFlight(o) /\ ~op[o].timedOut
    /\ IF op[o].phase = "reload" THEN Complete1(o, op[o], "ok", "outcome_unknown")
       ELSE /\ op' = [op EXCEPT ![o].timedOut = TRUE]
            /\ UNCHANGED <<kind, holder, cooling>>
    /\ UNCHANGED <<generation, live, modes, connected, handler, file>>

\* advanced_operation_timeout; a late answer of the reload is not heard.
OperationTimeout(o) ==
    /\ handler = NoOp /\ InFlight(o) /\ ~op[o].timedOut
    /\ \/ op[o].phase = "reload" /\ Complete1(o, op[o], "ok", "outcome_unknown")
       \/ /\ op[o].phase = "bands"
          /\ op' = [op EXCEPT ![o].timedOut = TRUE, ![o].cancelled = TRUE]
          /\ UNCHANGED <<kind, holder, cooling>>
    /\ UNCHANGED <<generation, live, modes, connected, handler, file>>

\* connection_lost: cancel_advanced_operations cancels the band operations
\* and frees the mode operations, unanswered.
ConnectionLost ==
    /\ connected /\ handler = NoOp
    /\ connected' = FALSE
    /\ LET freed == {o \in Op : op[o].phase = "reload"}
       IN  /\ op' = [o \in Op |->
                 CASE o \in freed -> Completed(op[o], "dropped", "none")
                   [] op[o].phase = "bands" -> [op[o] EXCEPT !.lost = TRUE, !.cancelled = TRUE]
                   [] OTHER -> op[o]]
           /\ Free(freed)
    /\ UNCHANGED <<generation, live, modes, handler, file>>

Reconnect ==
    /\ ~connected
    /\ connected' = TRUE
    /\ UNCHANGED <<generation, live, modes, kind, holder, cooling, op, handler, file>>

\* modem_mark_removed; only a D-Bus call listens to the cancellable.
ModemRemoved ==
    /\ live /\ handler = NoOp
    /\ live' = FALSE
    /\ op' = [o \in Op |-> IF op[o].phase = "bands" /\ holder[generation] = o
                             THEN [op[o] EXCEPT !.cancelled = TRUE] ELSE op[o]]
    /\ UNCHANGED <<generation, modes, kind, holder, cooling, connected, handler, file>>

\* reconcile_object: the modem is back as a new object.
ModemAdded ==
    /\ ~live /\ handler = NoOp /\ generation < MaxGen
    /\ live' = TRUE /\ generation' = generation + 1
    /\ UNCHANGED <<modes, kind, holder, cooling, op, connected, handler, file>>

-----------------------------------------------------------------------------
(* The environment.                                                        *)

\* Another mutation, scan, carrier query or voltage refresh blocks the modem
\* for a while, and may leave a cooldown (l850_apply_cooldown).
OtherStarts ==
    /\ live /\ handler = NoOp /\ kind[generation] = "none"
    /\ kind' = [kind EXCEPT ![generation] = "other"]
    /\ UNCHANGED <<generation, live, modes, holder, cooling, op, connected, handler, file>>

OtherEnds ==
    /\ handler = NoOp
    /\ \E m \in Object :
         /\ kind[m] = "other"
         /\ kind' = [kind EXCEPT ![m] = "none"]
         /\ \E c \in BOOLEAN : cooling' = [cooling EXCEPT ![m] = @ \/ c]
    /\ UNCHANGED <<generation, live, modes, holder, op, connected, handler, file>>

\* advanced_retry_after_ms reaches zero.
CooldownEnds ==
    /\ \E m \in Object :
         /\ cooling[m]
         /\ cooling' = [cooling EXCEPT ![m] = FALSE]
    /\ UNCHANGED <<generation, live, modes, kind, holder, op, connected, handler, file>>

\* External: the user or another process edits /etc/config/network.
FileEdited ==
    /\ \E s \in Section, b \in BOOLEAN, i \in Intents :
         file' = [file EXCEPT ![s] = [bound |-> b, modes |-> i]]
    /\ UNCHANGED <<generation, live, modes, kind, holder, cooling, op, connected, handler>>

\* External: ModemManager or netifd changes the modem's modes.
ModesChanged ==
    /\ \E m \in Modes : modes' = m
    /\ UNCHANGED <<generation, live, kind, holder, cooling, op, connected, handler, file>>

Next ==
    \/ \E o \in Op : \/ SetBands(o) \/ Executes(o) \/ BandsReady(o)
                     \/ SetModes(o) \/ CommitModes(o) \/ ReloadComplete(o)
                     \/ OperationTimeout(o)
    \/ ConnectionLost \/ Reconnect \/ ModemRemoved \/ ModemAdded
    \/ OtherStarts \/ OtherEnds \/ CooldownEnds \/ FileEdited \/ ModesChanged

Spec == Init /\ [][Next]_vars

(***************************************************************************)
(* The timer fires, a cancelled D-Bus call calls back and a handler runs   *)
(* to its end.  Nothing is assumed of ModemManager, netifd or the client.  *)
(***************************************************************************)
Fairness ==
    \A o \in Op : /\ WF_vars(OperationTimeout(o))
                  /\ WF_vars(CommitModes(o))
                  /\ WF_vars(op[o].cancelled /\ BandsReady(o))

FairSpec == Spec /\ Fairness

-----------------------------------------------------------------------------
(* Properties.                                                             *)

\* Types; only a call of method_set_modes is in the middle of the file.
TypeOK ==
    /\ generation \in Object /\ live \in BOOLEAN /\ modes \in Modes
    /\ kind \in [Object -> {"none", "advanced", "other"}]
    /\ holder \in [Object -> Op \cup {NoOp}]
    /\ cooling \in [Object -> BOOLEAN]
    /\ op \in [Op -> OpRecord]
    /\ connected \in BOOLEAN
    /\ handler \in Op \cup {NoOp}
    /\ file \in [Section -> [bound : BOOLEAN, modes : Intents]]
    /\ \A o \in Op : op[o].phase = "commit" <=> handler = o

\* A modem object has at most one band or mode operation, which holds its
\* mutation lock until it ends, however long after the cooldown of its
\* request (advanced_operation_new, advanced_operation_free).
OneAdvancedPerModem ==
    \A m \in Object : \A o \in Op :
        InFlight(o) /\ op[o].object = m <=> kind[m] = "advanced" /\ holder[m] = o

(***************************************************************************)
(* set_bands reports success only if ModemManager applied the bands, and a *)
(* definite failure only if it will not: after a timeout, a lost           *)
(* connection, a removal or a broken call the outcome is unknown           *)
(* (advanced_operation_outcome_is_unknown).                                *)
(***************************************************************************)
BandsReplyTruthful ==
    \A o \in Op : op[o].phase = "done" /\ op[o].rpc # "none"
        => /\ op[o].code = "ok" => op[o].rpc = "applied"
           /\ op[o].code \in {"refused", "busy"} => op[o].rpc = "refused"

(***************************************************************************)
(* set_modes reports the intent as persisted only if it was written to the *)
(* section that was the modem's own at that moment, and a definite failure *)
(* only if it wrote nothing, whatever other processes did to the file while*)
(* it ran (l850gl_network_modes_update_at).                                *)
(***************************************************************************)
ModesReplyTruthful ==
    \A o \in Op : op[o].phase = "done" /\ op[o].rpc = "none"
        => /\ op[o].code = "ok" => op[o].wrote = "bound"
           /\ op[o].code \in {"persistence_failed", "netifd_binding_not_found",
                              "netifd_binding_ambiguous"} => op[o].wrote = "no"

\* docs/threat-model.md: "Callbacks revalidate the original live proxy and
\* generation."  As documented, success is reported for a live modem only.
CallbacksRevalidate == \A o \in Op : op[o].code = "ok" => op[o].liveAtEnd

\* Every accepted request ends, and with it the mutation lock.
EveryAdvancedEnds == \A o \in Op : InFlight(o) ~> op[o].phase = "done"
=============================================================================
