------------------------------ MODULE PciLock ------------------------------
(***************************************************************************)
(* The PCI/EARFCN lock coordinator of l850gl-mm-bridge (ubus_glib.c, the   *)
(* expert object): one asynchronous operation per accepted set_cell_lock   *)
(* or clear_cell_lock request.  An operation probes the modem's NVM        *)
(* grammar, writes the lock, waits for it to persist, resets the modem,    *)
(* finds the object that replaces it at the same hardware slot, waits for  *)
(* registration and verifies NVM and serving cell.                         *)
(*                                                                         *)
(* The daemon is a single-threaded GLib main loop: every action below is   *)
(* one callback (a method handler, a D-Bus completion, a timer, a          *)
(* ModemManager or ubus signal) run to completion.  The environment is the *)
(* modem hardware, ModemManager's AT queue, the object manager and the     *)
(* ubus socket.                                                            *)
(***************************************************************************)
EXTENDS Naturals

CONSTANTS
    Op,            \* requests: identities of L850MutationOperation structures
    Slot,          \* hardware slots (the physdev sysfs path of a modem)
    NoSlot,        \* the slot of a modem object not admitted yet
    Lock,          \* lock configurations NVM can hold, Clear among them
    Clear,         \* the configuration clear_cell_lock writes
    MaxGeneration, \* bound on the modem objects admitted (bridge generation)
    MaxEpoch,      \* bound on the ubus connections
    Twins          \* may two live modem objects share a slot?

ASSUME ConstantsAssumption ==
    /\ Clear \in Lock
    /\ NoSlot \notin Slot
    /\ MaxGeneration \in Nat
    /\ MaxEpoch \in Nat \ {0}
    /\ Twins \in BOOLEAN
    /\ \A m \in 1..MaxGeneration : m \notin Slot /\ <<"other", m>> \notin Op

VARIABLES
    nextGeneration, \* bridge->next_generation
    slotOf,         \* physdev of each admitted modem object
    live,           \* modem objects the bridge holds as live
    kind,           \* modem->mutation_kind; "none" iff not mutation_busy
    cooling,        \* modem objects whose advanced_cooldown_until is ahead
    op,             \* the coordinator's operations
    nvm,            \* per slot, the lock that survives a reset
    staged,         \* per slot, the lock the firmware holds, perhaps unsaved
    queued,         \* operations whose write is still in ModemManager's queue
    written,        \* operations whose write the firmware has executed
    connected,      \* ubus->connected
    epoch           \* which ubus connection this is

hardware == <<nvm, staged, queued, written>>
bridge == <<nextGeneration, slotOf, live>>
transport == <<connected, epoch>>
vars == <<nextGeneration, slotOf, live, kind, cooling, op,
          nvm, staged, queued, written, connected, epoch>>

Generation == 1..MaxGeneration
Kinds == {"none", "l850", "other"}
Phases == {"unused", "probe", "set", "preNvm", "reset", "reprobe",
           "registration", "postNvm", "cell", "done"}
DeadlinePhases == {"preNvm", "reprobe", "registration", "postNvm"}

(***************************************************************************)
(* States an operation may report, and error codes it may report with      *)
(* them.  "verified" stands for applied_verified and cleared_verified;     *)
(* "refused" for the permission and protocol codes that rule out a retry.  *)
(***************************************************************************)
States == {"none", "verified", "lock_applied_reset_required", "reprobe_timeout",
           "registration_timeout", "verification_mismatch", "outcome_unknown",
           "device_gone", "timeout", "dependency_unavailable", "unavailable",
           "refused", "busy", "malformed_response", "unsupported_protocol"}
Codes == States \cup {"operation_failed"}

Request == [target : Lock, original : 0..MaxGeneration, conn : 0..MaxEpoch]
Stop == [timedOut : BOOLEAN, lost : BOOLEAN, cancelled : BOOLEAN]
Stage == [expired : BOOLEAN, matches : 0..2, lastRead : {"none", "match", "mismatch"}]
Sent == [set : BOOLEAN, acked : BOOLEAN, reset : BOOLEAN, resetAt : 0..MaxGeneration]
Result == [state : States, code : Codes, retryable : BOOLEAN, reply : 0..MaxEpoch]

(***************************************************************************)
(* An L850MutationOperation.  Three fields are history, for the properties *)
(* only: the ubus connection the request came on (req.conn) and the one    *)
(* the reply went to (result.reply, 0 if none), the last NVM read of the   *)
(* stage (stage.lastRead), and next_generation when the reset was sent.    *)
(***************************************************************************)
OpRecord ==
    [phase       : Phases,
     req         : Request,          \* what was asked, of which object
     replacement : 0..MaxGeneration, \* the adopted object, 0 if none
     pending     : BOOLEAN,          \* command_pending
     poll        : BOOLEAN,          \* poll_source # 0
     deferred    : BOOLEAN,          \* the ubus request awaits its reply
     stop        : Stop,             \* timed_out, transport_lost, cancellable
     stage       : Stage,            \* phase_deadline passed, nvm_verifier
     sent        : Sent,             \* set_dispatched, configuration_acknowledged,
                                     \* reset_dispatched
     result      : Result]           \* the reply, once phase is "done"

NoStage == [expired |-> FALSE, matches |-> 0, lastRead |-> "none"]
NoStop == [timedOut |-> FALSE, lost |-> FALSE, cancelled |-> FALSE]
NothingSent == [set |-> FALSE, acked |-> FALSE, reset |-> FALSE, resetAt |-> 0]
NoResult == [state |-> "none", code |-> "none", retryable |-> FALSE, reply |-> 0]

NewOp(target, original, conn) ==
    [phase |-> "probe",
     req |-> [target |-> target, original |-> original, conn |-> conn],
     replacement |-> 0, pending |-> TRUE, poll |-> FALSE, deferred |-> TRUE,
     stop |-> NoStop, stage |-> NoStage, sent |-> NothingSent, result |-> NoResult]

NoOp ==
    [NewOp(Clear, 0, 0) EXCEPT !.phase = "unused", !.pending = FALSE, !.deferred = FALSE]

Active(o) == op[o].phase \notin {"unused", "done"}

SlotOfOp(o) == slotOf[op[o].req.original]

\* The modem objects whose mutation lock the operation took.
Held(o) == {op[o].req.original, op[o].replacement} \ {0}

\* Mutant: exclusion by modem object, as for scans and carrier queries.
HasActiveMutationOfObject(m) == \E o \in Op : Active(o) /\ m \in Held(o)

\* l850_modem_has_active_mutation: exclusion by slot, not by object.
HasActiveMutation(m) == \E o \in Op : Active(o) /\ SlotOfOp(o) = slotOf[m]

Init ==
    /\ nextGeneration = 0
    /\ slotOf = [m \in Generation |-> NoSlot]
    /\ live = {}
    /\ kind = [m \in Generation |-> "none"]
    /\ cooling = {}
    /\ op = [o \in Op |-> NoOp]
    /\ nvm = [s \in Slot |-> Clear]
    /\ staged = [s \in Slot |-> Clear]
    /\ queued = {}
    /\ written = {}
    /\ connected = TRUE
    /\ epoch = 1

-----------------------------------------------------------------------------
(***************************************************************************)
(* Completing an operation: the reply, then the release of both modem      *)
(* objects (with a cooldown when a write had been dispatched).             *)
(***************************************************************************)
Completed(r, state, code, retryable) ==
    [r EXCEPT !.phase = "done", !.pending = FALSE, !.poll = FALSE, !.deferred = FALSE,
              !.stop = [@ EXCEPT !.cancelled = FALSE], !.stage = NoStage,
              !.result = [state |-> state, code |-> code, retryable |-> retryable,
                          reply |-> IF r.deferred /\ connected THEN epoch ELSE 0]]

\* Mutant: the adopted replacement is forgotten.
ReleaseOriginalOnly(o) ==
    /\ kind' = [kind EXCEPT ![op[o].req.original] = "none"]
    /\ cooling' = IF op[o].sent.set THEN cooling \cup Held(o) ELSE cooling

ReleaseModems(o) ==
    /\ kind' = [m \in Generation |->
                  IF m \in Held(o) /\ kind[m] = "l850" THEN "none" ELSE kind[m]]
    /\ cooling' = IF op[o].sent.set THEN cooling \cup Held(o) ELSE cooling

Complete(o, r, state, code, retryable) ==
    /\ op' = [op EXCEPT ![o] = Completed(r, state, code, retryable)]
    /\ ReleaseModems(o)

Fail(o, r, state, code) == Complete(o, r, state, code, FALSE)

\* Advance without completing: no modem object changes hands.
Advance(o, r) ==
    /\ op' = [op EXCEPT ![o] = r]
    /\ UNCHANGED <<kind, cooling>>

-----------------------------------------------------------------------------
(***************************************************************************)
(* The answers mm_modem_command_finish can give, by how the code sorts     *)
(* them.  A cancelled cancellable always yields G_IO_ERROR_CANCELLED, even *)
(* when the modem's answer had already arrived.                            *)
(***************************************************************************)
Errors == {"refused", "busy", "unclassified", "uncertain"}

Answers(o) == IF op[o].stop.cancelled THEN {"cancelled"} ELSE {"ok", "bad"} \cup Errors

IsError(a) == a \notin {"ok", "bad"}

\* Mutant: only the operation's own flags make an answer uncertain.
UncertainByFlags(o, a) == op[o].stop.timedOut \/ op[o].stop.lost

\* l850_mutation_error_is_uncertain
Uncertain(o, a) == op[o].stop.timedOut \/ op[o].stop.lost \/ a \in {"uncertain", "cancelled"}

\* l850_normalize_error, as a code and whether a retry is allowed.
Normalize(a, timedOut, lost) ==
    CASE timedOut -> <<"timeout", TRUE>>
      [] ~timedOut /\ lost -> <<"dependency_unavailable", TRUE>>
      [] ~timedOut /\ ~lost /\ a = "uncertain" -> <<"timeout", TRUE>>
      [] ~timedOut /\ ~lost /\ a = "busy" -> <<"busy", TRUE>>
      [] ~timedOut /\ ~lost /\ a = "refused" -> <<"refused", FALSE>>
      [] OTHER -> <<"unavailable", FALSE>>

\* Mutant: command_pending is not set.
CommandUnmarked(r) == [r EXCEPT !.poll = FALSE, !.stop = [@ EXCEPT !.cancelled = FALSE]]

\* A fresh command: command_pending and a cancellable of its own.
Command(r) ==
    [r EXCEPT !.pending = TRUE, !.poll = FALSE, !.stop = [@ EXCEPT !.cancelled = FALSE]]

\* Mutant: the attestation alone, without the liveness of the object.
ReplacementIsAttested(o, attested) == attested

\* l850_mutation_original_is_valid and l850_mutation_replacement_is_valid:
\* attested is what sysfs says of the slot at this moment.
OriginalIsValid(o, attested) == op[o].req.original \in live /\ attested
ReplacementIsValid(o, attested) == op[o].replacement \in live /\ attested

\* Mutant: a single matching read opens the barrier.
OneMatchSuffices(phase) == 1

\* l850gl_nvm_verifier_init and l850gl_nvm_verifier_observe.
RequiredMatches(phase) == IF phase = "preNvm" THEN 2 ELSE 1

ObservedMatches(r, match) ==
    IF ~match THEN 0
    ELSE IF r.stage.matches < RequiredMatches(r.phase) THEN r.stage.matches + 1
                                                       ELSE r.stage.matches

StartNvmVerification(r, phase) ==
    Command([r EXCEPT !.phase = phase, !.stage = NoStage])

\* An answer to a command implies that the writes queued before it at this
\* slot are settled: ModemManager serialises the commands of a port.
Flushed(o) == \A p \in queued \ {o} : SlotOfOp(p) # SlotOfOp(o)

-----------------------------------------------------------------------------
\* Mutant: the write is dispatched at once, without the protocol probe.
RequestWithoutProbe(o, m, target) ==
    /\ connected
    /\ op[o].phase = "unused"
    /\ m \in live
    /\ ~HasActiveMutation(m)
    /\ kind[m] = "none"
    /\ m \notin cooling
    /\ op' = [op EXCEPT ![o] =
                [NewOp(target, m, epoch) EXCEPT !.phase = "set", !.sent.set = TRUE]]
    /\ kind' = [kind EXCEPT ![m] = "l850"]
    /\ queued' = queued \cup {o}
    /\ UNCHANGED <<bridge, cooling, nvm, staged, written, transport>>

(***************************************************************************)
(* The ubus methods set_cell_lock and clear_cell_lock, once their typed    *)
(* arguments are accepted: admission, then the protocol probe.             *)
(***************************************************************************)
RequestLock(o, m, target) ==
    /\ connected
    /\ op[o].phase = "unused"
    /\ m \in live
    /\ ~HasActiveMutation(m)
    /\ kind[m] = "none"
    /\ m \notin cooling
    /\ op' = [op EXCEPT ![o] = NewOp(target, m, epoch)]
    /\ kind' = [kind EXCEPT ![m] = "l850"]
    /\ UNCHANGED <<bridge, cooling, hardware, transport>>

\* l850_mutation_dispatch_set; "again" is the attestation repeated
\* immediately before the write.
DispatchSet(o, again) ==
    \/ /\ ~OriginalIsValid(o, again)
       /\ Fail(o, op[o], "device_gone", "device_gone")
       /\ UNCHANGED queued
    \/ /\ OriginalIsValid(o, again)
       /\ Advance(o, Command([op[o] EXCEPT !.phase = "set",
                                           !.sent = [@ EXCEPT !.set = TRUE]]))
       /\ queued' = queued \cup {o}

ProbeReady(o, a, attested, again) ==
    /\ op[o].phase = "probe" /\ op[o].pending
    /\ a \in Answers(o)
    /\ a = "ok" => Flushed(o)
    /\ \/ /\ ~OriginalIsValid(o, attested)
          /\ Fail(o, op[o], "device_gone", "device_gone")
          /\ UNCHANGED queued
       \/ /\ OriginalIsValid(o, attested) /\ IsError(a)
          /\ LET n == Normalize(a, op[o].stop.timedOut, op[o].stop.lost)
             IN  Complete(o, op[o], n[1], n[1], n[2])
          /\ UNCHANGED queued
       \/ /\ OriginalIsValid(o, attested) /\ a = "bad"
          /\ Fail(o, op[o], "unsupported_protocol", "unsupported_protocol")
          /\ UNCHANGED queued
       \/ /\ OriginalIsValid(o, attested) /\ a = "ok"
          /\ DispatchSet(o, again)
    /\ UNCHANGED <<bridge, nvm, staged, written, transport>>

\* What the firmware must have done for ModemManager to give this answer to
\* a write: success means executed, a refusal means never to be executed.
SetAnswerPossible(o, a) ==
    /\ a \in {"ok", "bad"} => Flushed(o)
    /\ a = "ok" => o \in written
    /\ a \in {"busy", "refused"} => o \notin written

SetReady(o, a) ==
    /\ op[o].phase = "set" /\ op[o].pending
    /\ a \in Answers(o)
    /\ SetAnswerPossible(o, a)
    /\ queued' = IF a \in {"ok", "bad", "busy", "refused"} THEN queued \ {o} ELSE queued
    /\ \/ /\ Uncertain(o, a) \/ op[o].req.original \notin live
          /\ Fail(o, op[o], "outcome_unknown", "outcome_unknown")
       \/ /\ ~Uncertain(o, a) /\ op[o].req.original \in live
          /\ IsError(a)
          /\ LET n == Normalize(a, FALSE, FALSE)
             IN  Complete(o, op[o], n[1],
                          IF n[1] = "unavailable" THEN "operation_failed" ELSE n[1],
                          n[2])
       \/ /\ ~Uncertain(o, a) /\ op[o].req.original \in live
          /\ a = "bad"
          /\ Fail(o, op[o], "malformed_response", "malformed_response")
       \/ /\ ~Uncertain(o, a) /\ op[o].req.original \in live
          /\ a = "ok"
          /\ Advance(o, StartNvmVerification([op[o] EXCEPT !.sent = [@ EXCEPT !.acked = TRUE]],
                                          "preNvm"))
    /\ UNCHANGED <<bridge, nvm, staged, written, transport>>

\* l850_mutation_start_reset
StartReset(o, r, again) ==
    \/ /\ ~OriginalIsValid(o, again)
       /\ Fail(o, r, "lock_applied_reset_required", "device_gone")
    \/ /\ OriginalIsValid(o, again)
       /\ Advance(o, Command([r EXCEPT !.phase = "reset",
                                 !.sent = [@ EXCEPT !.reset = TRUE,
                                                    !.resetAt = nextGeneration]]))

\* The state a failure in one of the two NVM stages is reported with.
NvmFailureState(o, otherwise) ==
    IF op[o].phase = "preNvm" THEN "lock_applied_reset_required" ELSE otherwise

NvmTargetIsValid(o, attested) ==
    IF op[o].phase = "preNvm" THEN OriginalIsValid(o, attested)
                              ELSE ReplacementIsValid(o, attested)

\* What follows an NVM read that answered with a well-formed state.
NvmObserved(o, match, again) ==
    LET m == ObservedMatches(op[o], match)
        r == [op[o] EXCEPT !.pending = FALSE,
                           !.stage = [expired |-> op[o].stage.expired, matches |-> m,
                                      lastRead |-> IF match THEN "match" ELSE "mismatch"]]
        ready == match /\ m >= RequiredMatches(op[o].phase)
    IN  \/ /\ op[o].stage.expired
           /\ Fail(o, r, NvmFailureState(o, "verification_mismatch"),
                   "verification_mismatch")
        \/ /\ ~op[o].stage.expired /\ ~ready
           /\ Advance(o, [r EXCEPT !.poll = TRUE])
        \/ /\ ~op[o].stage.expired /\ ready /\ op[o].phase = "preNvm"
           /\ StartReset(o, r, again)
        \/ /\ ~op[o].stage.expired /\ ready /\ op[o].phase = "postNvm"
           /\ op[o].req.target = Clear
           /\ Complete(o, r, "verified", "none", FALSE)
        \/ /\ ~op[o].stage.expired /\ ready /\ op[o].phase = "postNvm"
           /\ op[o].req.target # Clear
           /\ Advance(o, Command([r EXCEPT !.phase = "cell"]))

NvmReady(o, a, attested, again) ==
    /\ op[o].phase \in {"preNvm", "postNvm"} /\ op[o].pending
    /\ a \in Answers(o)
    /\ a = "ok" => Flushed(o)
    /\ \/ /\ ~NvmTargetIsValid(o, attested) \/ Uncertain(o, a) \/ IsError(a)
          /\ Fail(o, op[o], NvmFailureState(o, "outcome_unknown"), "outcome_unknown")
       \/ /\ NvmTargetIsValid(o, attested) /\ ~Uncertain(o, a) /\ a = "bad"
          /\ Fail(o, op[o], NvmFailureState(o, "verification_mismatch"),
                  "malformed_response")
       \/ /\ NvmTargetIsValid(o, attested) /\ ~Uncertain(o, a) /\ a = "ok"
          /\ NvmObserved(o, nvm[SlotOfOp(o)] = op[o].req.target, again)
    /\ UNCHANGED <<bridge, hardware, transport>>

\* l850_mutation_reset_ready: only a definite refusal ends the operation;
\* every other completion, even an error, starts the bounded reprobe.
ResetReady(o, a) ==
    /\ op[o].phase = "reset" /\ op[o].pending
    /\ a \in Answers(o)
    /\ \/ /\ op[o].stop.timedOut \/ op[o].stop.lost
          /\ Fail(o, op[o], "outcome_unknown", "outcome_unknown")
       \/ /\ ~op[o].stop.timedOut /\ ~op[o].stop.lost
          /\ a \in {"busy", "refused"}
          /\ Fail(o, op[o], "lock_applied_reset_required",
                  Normalize(a, FALSE, FALSE)[1])
       \/ /\ ~op[o].stop.timedOut /\ ~op[o].stop.lost
          /\ a \notin {"busy", "refused"}
          /\ Advance(o, [op[o] EXCEPT !.phase = "reprobe", !.stage = NoStage,
                                      !.pending = FALSE, !.poll = TRUE,
                                      !.stop = [@ EXCEPT !.cancelled = FALSE]])
    /\ UNCHANGED <<bridge, hardware, transport>>

\* l850_mutation_cell_ready; "serves" is whether XMCI parsed and names a
\* serving cell of the requested EARFCN (and PCI, when one was requested).
CellReady(o, a, attested, serves) ==
    /\ op[o].phase = "cell" /\ op[o].pending
    /\ a \in Answers(o)
    /\ a = "ok" => Flushed(o)
    /\ \/ /\ ~ReplacementIsValid(o, attested) \/ Uncertain(o, a) \/ IsError(a)
          /\ Fail(o, op[o], "outcome_unknown", "outcome_unknown")
       \/ /\ ReplacementIsValid(o, attested) /\ ~Uncertain(o, a)
          /\ a = "bad" \/ (a = "ok" /\ ~serves)
          /\ Fail(o, op[o], "verification_mismatch", "verification_mismatch")
       \/ /\ ReplacementIsValid(o, attested) /\ ~Uncertain(o, a)
          /\ a = "ok" /\ serves
          /\ Complete(o, op[o], "verified", "none", FALSE)
    /\ UNCHANGED <<bridge, hardware, transport>>

-----------------------------------------------------------------------------
(***************************************************************************)
(* l850_mutation_poll: the timer that carries an operation between two     *)
(* commands.  Polls that find nothing to do leave the state unchanged.     *)
(***************************************************************************)
PollCancelled(o) ==
    /\ op[o].poll /\ (op[o].stop.timedOut \/ op[o].stop.lost)
    /\ Fail(o, op[o], NvmFailureState(o, "outcome_unknown"), "outcome_unknown")
    /\ UNCHANGED <<bridge, hardware, transport>>

Polling(o, phases) ==
    /\ op[o].poll /\ ~op[o].stop.timedOut /\ ~op[o].stop.lost
    /\ op[o].phase \in phases

PollNvm(o, attested) ==
    /\ Polling(o, {"preNvm", "postNvm"})
    /\ \/ /\ op[o].stage.expired
          /\ Fail(o, op[o], NvmFailureState(o, "verification_mismatch"),
                  "verification_mismatch")
       \/ /\ ~op[o].stage.expired /\ ~NvmTargetIsValid(o, attested)
          /\ Fail(o, op[o], NvmFailureState(o, "outcome_unknown"), "outcome_unknown")
       \/ /\ ~op[o].stage.expired /\ NvmTargetIsValid(o, attested)
          /\ Advance(o, Command(op[o]))
    /\ UNCHANGED <<bridge, hardware, transport>>

\* l850_mutation_find_replacement looks among these; which of them sysfs
\* attests at this moment is the environment's choice.
Candidates(o) == {m \in live : m # op[o].req.original /\ slotOf[m] = SlotOfOp(o)}

\* The replacement is adopted: the operation takes its mutation lock too.
Adopt(o, m, registered) ==
    LET r == [op[o] EXCEPT !.replacement = m, !.phase = "registration",
                           !.stage = NoStage]
    IN  /\ op' = [op EXCEPT ![o] = IF registered
                                     THEN StartNvmVerification(r, "postNvm")
                                     ELSE [r EXCEPT !.poll = TRUE]]
        /\ kind' = [kind EXCEPT ![m] = "l850"]
        /\ UNCHANGED cooling

PollReprobe(o, attested, registered) ==
    /\ Polling(o, {"reprobe"})
    /\ attested \subseteq Candidates(o)
    /\ \/ /\ \E m, n \in attested : m # n
          /\ Fail(o, op[o], "verification_mismatch", "verification_mismatch")
       \/ \E m \in attested :
          /\ attested = {m}
          /\ kind[m] # "none"
          /\ Fail(o, op[o], "outcome_unknown", "busy")
       \/ \E m \in attested :
          /\ attested = {m}
          /\ kind[m] = "none"
          /\ Adopt(o, m, registered)
       \/ /\ attested = {}
          /\ op[o].stage.expired
          /\ Fail(o, op[o], "reprobe_timeout", "reprobe_timeout")
    /\ UNCHANGED <<bridge, hardware, transport>>

PollRegistration(o, attested, registered) ==
    /\ Polling(o, {"registration"})
    /\ \/ /\ ~ReplacementIsValid(o, attested)
          /\ Fail(o, op[o], "outcome_unknown", "outcome_unknown")
       \/ /\ ReplacementIsValid(o, attested) /\ registered
          /\ Advance(o, StartNvmVerification(op[o], "postNvm"))
       \/ /\ ReplacementIsValid(o, attested) /\ ~registered
          /\ op[o].stage.expired
          /\ Fail(o, op[o], "registration_timeout", "registration_timeout")
    /\ UNCHANGED <<bridge, hardware, transport>>

-----------------------------------------------------------------------------
(***************************************************************************)
(* Time: stage deadlines, the 130 second timer of the whole operation, and *)
(* the end of a cooldown.                                                  *)
(***************************************************************************)
DeadlineExpires(o) ==
    /\ op[o].phase \in DeadlinePhases /\ ~op[o].stage.expired
    /\ op' = [op EXCEPT ![o].stage = [@ EXCEPT !.expired = TRUE]]
    /\ UNCHANGED <<bridge, kind, cooling, hardware, transport>>

\* Mutant: the flag is set but the command is not cancelled.
OperationTimeoutUncancelled(o) ==
    /\ Active(o) /\ ~op[o].stop.timedOut
    /\ op' = [op EXCEPT ![o].stop = [@ EXCEPT !.timedOut = TRUE]]
    /\ UNCHANGED <<bridge, kind, cooling, hardware, transport>>

\* l850_mutation_timeout
OperationTimeout(o) ==
    /\ Active(o) /\ ~op[o].stop.timedOut
    /\ op' = [op EXCEPT ![o].stop = [@ EXCEPT !.timedOut = TRUE, !.cancelled = TRUE]]
    /\ UNCHANGED <<bridge, kind, cooling, hardware, transport>>

CooldownExpires(m) ==
    /\ m \in cooling
    /\ cooling' = cooling \ {m}
    /\ UNCHANGED <<bridge, kind, op, hardware, transport>>

\* Mutant: the requests of the lost connection stay deferred.
ConnectionLostDeferred ==
    /\ connected
    /\ connected' = FALSE
    /\ op' = [o \in Op |-> IF Active(o)
                             THEN [op[o] EXCEPT !.stop = [@ EXCEPT !.lost = TRUE,
                                                                !.cancelled = TRUE]]
                             ELSE op[o]]
    /\ UNCHANGED <<bridge, kind, cooling, hardware, epoch>>

(***************************************************************************)
(* The ubus socket: connection_lost with cancel_l850_mutation_operations,  *)
(* and the reconnection that follows it.                                   *)
(***************************************************************************)
ConnectionLost ==
    /\ connected
    /\ connected' = FALSE
    /\ op' = [o \in Op |-> IF Active(o)
                             THEN [op[o] EXCEPT !.deferred = FALSE,
                                                !.stop = [@ EXCEPT !.lost = TRUE,
                                                                   !.cancelled = TRUE]]
                             ELSE op[o]]
    /\ UNCHANGED <<bridge, kind, cooling, hardware, epoch>>

Reconnect ==
    /\ ~connected /\ epoch < MaxEpoch
    /\ connected' = TRUE
    /\ epoch' = epoch + 1
    /\ UNCHANGED <<bridge, kind, cooling, op, hardware>>

\* Mutant: the generation limit is tested one too late.
ModemAddedBeyondLimit(s) ==
    /\ nextGeneration <= MaxGeneration
    /\ nextGeneration' = nextGeneration + 1
    /\ slotOf' = [slotOf EXCEPT ![nextGeneration + 1] = s]
    /\ live' = live \cup {nextGeneration + 1}
    /\ UNCHANGED <<kind, cooling, op, hardware, transport>>

(***************************************************************************)
(* The bridge's inventory: objects are admitted with a new generation and  *)
(* marked removed.  A removal may be a power cycle, which loses what the   *)
(* firmware had not saved, or only ModemManager dropping the object; in    *)
(* both cases ModemManager abandons the object's queue.  Removal leaves    *)
(* the coordinator alone: its cancellables are not the modem's.            *)
(***************************************************************************)
ModemAdded(s) ==
    /\ nextGeneration < MaxGeneration
    /\ Twins \/ \A m \in live : slotOf[m] # s
    /\ nextGeneration' = nextGeneration + 1
    /\ slotOf' = [slotOf EXCEPT ![nextGeneration + 1] = s]
    /\ live' = live \cup {nextGeneration + 1}
    /\ UNCHANGED <<kind, cooling, op, hardware, transport>>

ModemRemoved(m, powerCycle) ==
    /\ m \in live
    /\ live' = live \ {m}
    /\ queued' = {o \in queued : op[o].req.original # m}
    /\ staged' = IF powerCycle THEN [staged EXCEPT ![slotOf[m]] = nvm[slotOf[m]]]
                               ELSE staged
    /\ UNCHANGED <<nextGeneration, slotOf, kind, cooling, op, nvm, written, transport>>

(***************************************************************************)
(* SMS, band and mode operations take the same per-modem lock; they are    *)
(* refused while the coordinator works on the modem's slot.                *)
(***************************************************************************)
OtherMutationStarts(m) ==
    /\ connected
    /\ m \in live
    /\ ~HasActiveMutation(m)
    /\ kind[m] = "none"
    /\ kind' = [kind EXCEPT ![m] = "other"]
    /\ UNCHANGED <<bridge, cooling, op, hardware, transport>>

OtherMutationEnds(m) ==
    /\ kind[m] = "other"
    /\ kind' = [kind EXCEPT ![m] = "none"]
    /\ UNCHANGED <<bridge, cooling, op, hardware, transport>>

(***************************************************************************)
(* The firmware: it executes a queued write even when nobody waits for the *)
(* answer any more, and saves it to NVM at some later moment.              *)
(***************************************************************************)
FirmwareWrites(o) ==
    /\ o \in queued
    /\ staged' = [staged EXCEPT ![SlotOfOp(o)] = op[o].req.target]
    /\ written' = written \cup {o}
    /\ queued' = queued \ {o}
    /\ UNCHANGED <<bridge, kind, cooling, op, nvm, transport>>

\* ModemManager gives up on a queued write that nobody waits for.
WriteDropped(o) ==
    /\ o \in queued /\ ~Active(o)
    /\ queued' = queued \ {o}
    /\ UNCHANGED <<bridge, kind, cooling, op, nvm, staged, written, transport>>

FirmwareSaves(s) ==
    /\ nvm[s] # staged[s]
    /\ nvm' = [nvm EXCEPT ![s] = staged[s]]
    /\ UNCHANGED <<bridge, kind, cooling, op, staged, queued, written, transport>>

-----------------------------------------------------------------------------
CommandReady(o) ==
    \E attested, again \in BOOLEAN : \E a \in Answers(o) :
        \/ ProbeReady(o, a, attested, again)
        \/ SetReady(o, a)
        \/ NvmReady(o, a, attested, again)
        \/ ResetReady(o, a)
        \/ CellReady(o, a, attested, again)

Poll(o) ==
    \/ PollCancelled(o)
    \/ \E attested \in BOOLEAN : PollNvm(o, attested)
    \/ \E attested \in SUBSET Generation, registered \in BOOLEAN :
           PollReprobe(o, attested, registered)
    \/ \E attested, registered \in BOOLEAN : PollRegistration(o, attested, registered)

Coordinator(o) ==
    \/ \E m \in Generation, target \in Lock : RequestLock(o, m, target)
    \/ CommandReady(o)
    \/ Poll(o)
    \/ DeadlineExpires(o)
    \/ OperationTimeout(o)
    \/ FirmwareWrites(o)
    \/ WriteDropped(o)

Environment ==
    \/ ConnectionLost
    \/ Reconnect
    \/ \E s \in Slot : ModemAdded(s) \/ FirmwareSaves(s)
    \/ \E m \in Generation :
        \/ \E powerCycle \in BOOLEAN : ModemRemoved(m, powerCycle)
        \/ OtherMutationStarts(m)
        \/ OtherMutationEnds(m)
        \/ CooldownExpires(m)

Next == (\E o \in Op : Coordinator(o)) \/ Environment

Spec == Init /\ [][Next]_vars

(***************************************************************************)
(* Every command ends (each carries a ModemManager timeout) and every GLib *)
(* timer fires; nothing is assumed of the user, the modem or the socket.   *)
(***************************************************************************)
Fairness ==
    \A o \in Op : /\ WF_vars(CommandReady(o))
                  /\ WF_vars(Poll(o))
                  /\ WF_vars(DeadlineExpires(o))

FairSpec == Spec /\ Fairness
-----------------------------------------------------------------------------
TypeOK ==
    /\ nextGeneration \in 0..MaxGeneration
    /\ slotOf \in [Generation -> Slot \cup {NoSlot}]
    /\ live \subseteq Generation
    /\ kind \in [Generation -> Kinds]
    /\ cooling \subseteq Generation
    /\ op \in [Op -> OpRecord]
    /\ nvm \in [Slot -> Lock]
    /\ staged \in [Slot -> Lock]
    /\ queued \subseteq Op
    /\ written \subseteq Op
    /\ connected \in BOOLEAN
    /\ epoch \in 1..MaxEpoch

(***************************************************************************)
(* An operation under way always has exactly one thing that will call it   *)
(* back: a command in flight or a poll timer, never both (two callbacks    *)
(* would free it twice) and never neither (it would hold the modem's       *)
(* mutation lock for ever).                                                *)
(***************************************************************************)
OneCallbackPending ==
    \A o \in Op : Active(o) <=> (op[o].pending # op[o].poll)

(***************************************************************************)
(* l850_modem_has_active_mutation excludes by hardware slot, so that two   *)
(* operations never work on the same slot, not even across the object      *)
(* replacement that the reset of one of them causes.                       *)
(***************************************************************************)
SlotExclusion ==
    \A o, p \in Op : Active(o) /\ Active(p) /\ o # p => SlotOfOp(o) # SlotOfOp(p)

(***************************************************************************)
(* mutation_busy/mutation_kind of a modem object says L850 exactly while   *)
(* some operation under way holds that object: every completion path       *)
(* releases both objects, and nobody else's completion releases them.      *)
(***************************************************************************)
LockOwned ==
    \A m \in Generation :
        kind[m] = "l850" <=> \E o \in Op : Active(o) /\ m \in Held(o)

(***************************************************************************)
(* A cancellation sticks: once the operation timer fired or the transport  *)
(* was lost, no later step installs a fresh cancellable (and with it a     *)
(* command that nothing can interrupt) in the operation.                   *)
(***************************************************************************)
CancelSticks ==
    \A o \in Op : Active(o) /\ (op[o].stop.timedOut \/ op[o].stop.lost) => op[o].stop.cancelled

(***************************************************************************)
(* From the dispatch of CFUN=15 until the operation ends, NVM of the slot  *)
(* holds what was requested: the modem is reset only once the write would  *)
(* survive it, and no other writer touches the slot in between.            *)
(***************************************************************************)
LockSurvivesReset ==
    \A o \in Op : Active(o) /\ op[o].sent.reset
        => nvm[SlotOfOp(o)] = op[o].req.target /\ staged[SlotOfOp(o)] = op[o].req.target

(***************************************************************************)
(* A failure offered as retryable is one after which the write has not     *)
(* reached the firmware and never will: docs/pci-cell-lock.md, "Timeout or *)
(* transport loss after dispatch becomes outcome_unknown".                 *)
(***************************************************************************)
RetryableMeansUnwritten ==
    \A o \in Op : op[o].phase = "done" /\ op[o].result.retryable
        => o \notin written /\ o \notin queued

(***************************************************************************)
(* A deferred request is answered on the connection it came on or not at   *)
(* all, and it is always answered when that connection was never lost.     *)
(***************************************************************************)
ReplyToRequester ==
    \A o \in Op : op[o].phase = "done"
        => op[o].result.reply = IF op[o].stop.lost THEN 0 ELSE op[o].req.conn

(***************************************************************************)
(* The persistence barrier: CFUN=15 is sent once per operation, from a     *)
(* matching NVM read that directly follows another matching one, to an     *)
(* original object that is still live and whose write was acknowledged.    *)
(***************************************************************************)
ResetBarrier ==
    [][\A o \in Op : op'[o].sent.reset /\ ~op[o].sent.reset
        => /\ op[o].phase = "preNvm"
           /\ op[o].sent.acked /\ o \in written
           /\ op[o].stage.lastRead = "match"
           /\ nvm[SlotOfOp(o)] = op[o].req.target
           /\ op[o].req.original \in live]_vars

(***************************************************************************)
(* "verified" is true when it is said: at the step that completes the      *)
(* operation NVM of the slot holds the requested lock, and the object      *)
(* named in the reply is live.                                             *)
(***************************************************************************)
VerifiedIsTrue ==
    [][\A o \in Op : op'[o].result.state = "verified" /\ op[o].result.state # "verified"
        => /\ nvm[SlotOfOp(o)] = op[o].req.target
           /\ op[o].replacement \in live]_vars

(***************************************************************************)
(* No operation starts at a slot whose firmware may still execute a write  *)
(* that an earlier operation gave up on, once that operation's own write   *)
(* is dispatched: a late write never lands on top of a newer one.          *)
(***************************************************************************)
NoLateOverwrite ==
    \A o \in Op, p \in queued :
        Active(o) /\ op[o].sent.set /\ p # o => SlotOfOp(p) # SlotOfOp(o)

(***************************************************************************)
(* The coordinator arbitrates the slots and modem objects it works on: an  *)
(* operation takes its slot and its object together, the replacement later *)
(* and only while nobody else works on it, and gives all of them back in   *)
(* the one step that completes it; no SMS, band or mode operation starts   *)
(* on any object of a slot that an operation holds.  The operation tables  *)
(* and mutation_kind implement Arbitration.                                *)
(***************************************************************************)
OtherJob(m) == <<"other", m>>

Arbiter ==
    INSTANCE Arbitration WITH
        Job <- Op \cup {OtherJob(m) : m \in Generation},
        Resource <- Slot \cup Generation,
        NoParent <- NoSlot,
        parent <- [r \in Slot \cup Generation |->
                      IF r \in Generation THEN slotOf[r] ELSE NoSlot],
        holders <- [r \in Slot \cup Generation |->
                      {o \in Op : Active(o) /\ (r = SlotOfOp(o) \/ r \in Held(o))}
                      \cup {OtherJob(m) : m \in {n \in Generation : n = r /\ kind[n] = "other"}}]

Arbitrated == Arbiter!Spec

(***************************************************************************)
(* Every accepted request ends, and with it the exclusion it holds.        *)
(***************************************************************************)
EveryOperationEnds ==
    \A o \in Op : Active(o) ~> op[o].phase = "done"
=============================================================================
