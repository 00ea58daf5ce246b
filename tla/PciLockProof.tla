--------------------------- MODULE PciLockProof ---------------------------
(***************************************************************************)
(* Proofs about the PCI/EARFCN lock coordinator, for any set of requests,  *)
(* slots and lock configurations and any bound on objects and connections. *)
(*                                                                         *)
(* The inductive invariant adds to TypeOK the shape of an operation in     *)
(* each phase (Shape), where its modem objects are (Placed) and the two    *)
(* exclusion properties.  Every callback of the coordinator has one of     *)
(* three footprints: it continues the operation, adopts a replacement or   *)
(* finishes; the invariant is shown to be preserved footprint by footprint.*)
(***************************************************************************)
EXTENDS PciLock, TLAPS

CommandPhases == {"probe", "set", "reset", "cell"}
NvmPhases == {"preNvm", "postNvm"}
PollPhases == {"reprobe", "registration"}
ActivePhases == Phases \ {"unused", "done"}

\* What each phase implies of the callbacks, the dispatched commands, the
\* adopted object and the cancellable of an operation.
Shape(r) ==
    /\ r.phase \in {"unused", "done"} => ~r.pending /\ ~r.poll
    /\ r.phase \in CommandPhases => r.pending /\ ~r.poll
    /\ r.phase \in NvmPhases => r.pending # r.poll
    /\ r.phase \in PollPhases => ~r.pending /\ r.poll
    /\ r.phase \in {"registration", "postNvm", "cell"} => r.replacement # 0
    /\ r.phase \in {"unused", "probe", "set", "preNvm", "reset", "reprobe"} => r.replacement = 0
    /\ r.phase # "unused" => r.req.original # 0
    /\ r.phase \in ActivePhases /\ (r.stop.timedOut \/ r.stop.lost) => r.stop.cancelled

Shapes == \A o \in Op : Shape(op[o])

\* Every object that an operation or the inventory names was admitted, and
\* an adopted object is another object at the slot of the original.
Placed ==
    /\ \A m \in live : m <= nextGeneration
    /\ \A o \in Op : op[o].req.original <= nextGeneration
    /\ \A o \in Op : op[o].replacement # 0
          => /\ op[o].replacement <= nextGeneration
             /\ slotOf[op[o].replacement] = SlotOfOp(o)

Inv == TypeOK /\ Shapes /\ Placed /\ SlotExclusion /\ LockOwned

-----------------------------------------------------------------------------
(* The footprints of the coordinator's callbacks.                          *)

\* The operation goes on to another command or poll.
Continues(o) ==
    \E r \in OpRecord :
        /\ Shape(r) /\ r.phase \in ActivePhases
        /\ r.req = op[o].req /\ r.replacement = op[o].replacement
        /\ op' = [op EXCEPT ![o] = r]
        /\ UNCHANGED <<kind, cooling>>

\* The operation completes and releases its modem objects.
Finishes(o) ==
    \E r \in OpRecord :
        /\ Shape(r) /\ r.phase = "done"
        /\ r.req = op[o].req /\ r.replacement = op[o].replacement
        /\ op' = [op EXCEPT ![o] = r]
        /\ ReleaseModems(o)

\* The operation takes the mutation lock of a replacement object.
Adopts(o) ==
    \E m \in Candidates(o), r \in OpRecord :
        /\ kind[m] = "none" /\ op[o].replacement = 0
        /\ Shape(r) /\ r.phase \in ActivePhases
        /\ r.req = op[o].req /\ r.replacement = m
        /\ op' = [op EXCEPT ![o] = r]
        /\ kind' = [kind EXCEPT ![m] = "l850"]
        /\ UNCHANGED cooling

\* One callback of a running operation.
Callback(o) ==
    /\ Active(o)
    /\ Continues(o) \/ Finishes(o) \/ Adopts(o)
    /\ queued' \subseteq Op
    /\ UNCHANGED <<bridge, nvm, staged, written, transport>>

-----------------------------------------------------------------------------
\* The values a new operation is built from are well typed.
LEMMA NoStageType == NoStage \in Stage
BY DEF NoStage, Stage

\* A new operation is well typed.
LEMMA NewOpType ==
    ASSUME NEW t \in Lock, NEW m \in 0..MaxGeneration, NEW c \in 0..MaxEpoch
    PROVE  NewOp(t, m, c) \in OpRecord
<1>1. /\ NoStop \in Stop /\ NothingSent \in Sent /\ NoResult \in Result
      /\ [target |-> t, original |-> m, conn |-> c] \in Request
  BY ConstantsAssumption
     DEF ConstantsAssumption, NoStop, Stop, NothingSent, Sent, NoResult, Result,
         States, Codes, Request
<1> QED
  BY <1>1, NoStageType, ConstantsAssumption DEF ConstantsAssumption, NewOp, OpRecord, Phases

\* A request that has not been made is well typed and waits for nothing.
LEMMA NoOpType ==
    /\ NoOp \in OpRecord /\ NoOp.phase = "unused" /\ NoOp.replacement = 0
    /\ ~NoOp.pending /\ ~NoOp.poll /\ NoOp.req.original = 0
<1> DEFINE n == NewOp(Clear, 0, 0)
<1>1. n \in OpRecord /\ n.replacement = 0 /\ ~n.poll
  BY NewOpType, ConstantsAssumption DEF ConstantsAssumption, NewOp
<1>2. n.req.original = 0
  BY DEF NewOp
<1> HIDE DEF n
<1> QED
  BY <1>1, <1>2 DEF NoOp, n, OpRecord, Phases

\* A fresh command keeps everything but the callback fields.
LEMMA CommandType ==
    ASSUME NEW r \in OpRecord
    PROVE  /\ Command(r) \in OpRecord
           /\ Command(r).phase = r.phase /\ Command(r).req = r.req
           /\ Command(r).replacement = r.replacement
           /\ Command(r).pending /\ ~Command(r).poll
           /\ Command(r).stop.timedOut = r.stop.timedOut
           /\ Command(r).stop.lost = r.stop.lost
<1>1. [r.stop EXCEPT !.cancelled = FALSE] \in Stop
  BY DEF OpRecord, Stop
<1>2. [r.stop EXCEPT !.cancelled = FALSE].timedOut = r.stop.timedOut
  BY DEF OpRecord, Stop
<1>3. [r.stop EXCEPT !.cancelled = FALSE].lost = r.stop.lost
  BY DEF OpRecord, Stop
<1> QED
  BY <1>1, <1>2, <1>3 DEF Command, OpRecord

\* A completed operation is well typed, and its request is unchanged.
LEMMA CompletedType ==
    ASSUME NEW r \in OpRecord, NEW s \in States, NEW c \in Codes, NEW b \in BOOLEAN,
           epoch \in 1..MaxEpoch
    PROVE  /\ Completed(r, s, c, b) \in OpRecord
           /\ Completed(r, s, c, b).phase = "done"
           /\ Completed(r, s, c, b).req = r.req
           /\ Completed(r, s, c, b).replacement = r.replacement
           /\ ~Completed(r, s, c, b).pending /\ ~Completed(r, s, c, b).poll
<1>1. [r.stop EXCEPT !.cancelled = FALSE] \in Stop
  BY DEF OpRecord, Stop
<1>2. [state |-> s, code |-> c, retryable |-> b,
       reply |-> IF r.deferred /\ connected THEN epoch ELSE 0] \in Result
  BY ConstantsAssumption DEF ConstantsAssumption, Result
<1> QED
  BY <1>1, <1>2, NoStageType DEF Completed, OpRecord, Phases

\* An operation that starts to read the NVM is well typed.
LEMMA StartNvmVerificationType ==
    ASSUME NEW r \in OpRecord, NEW p \in Phases
    PROVE  /\ StartNvmVerification(r, p) \in OpRecord
           /\ StartNvmVerification(r, p).phase = p
           /\ StartNvmVerification(r, p).req = r.req
           /\ StartNvmVerification(r, p).replacement = r.replacement
           /\ StartNvmVerification(r, p).pending /\ ~StartNvmVerification(r, p).poll
           /\ StartNvmVerification(r, p).stop.timedOut = r.stop.timedOut
           /\ StartNvmVerification(r, p).stop.lost = r.stop.lost
<1> DEFINE q == [r EXCEPT !.phase = p, !.stage = NoStage]
<1>1. /\ q \in OpRecord /\ q.phase = p /\ q.req = r.req
      /\ q.replacement = r.replacement /\ q.stop = r.stop
  BY NoStageType DEF OpRecord
<1> HIDE DEF q
<1>2. StartNvmVerification(r, p) = Command(q)
  BY DEF StartNvmVerification, q
<1> QED
  BY <1>1, <1>2, CommandType

\* The state reported for an answer is one of the states.
LEMMA NormalizeType ==
    ASSUME NEW a, NEW t \in BOOLEAN, NEW l \in BOOLEAN
    PROVE  /\ Normalize(a, t, l)[1] \in States
           /\ Normalize(a, t, l)[2] \in BOOLEAN
BY DEF Normalize, States

\* A completion of an operation with any state and code it may report
\* leaves the footprint Finishes.
LEMMA CompleteFinishes ==
    ASSUME TypeOK, Shapes, NEW o \in Op, Active(o),
           NEW r \in OpRecord, r.req = op[o].req, r.replacement = op[o].replacement,
           NEW s \in States, NEW c \in Codes, NEW b \in BOOLEAN,
           Complete(o, r, s, c, b)
    PROVE  Finishes(o)
<1> DEFINE d == Completed(r, s, c, b)
<1>1. /\ d \in OpRecord /\ d.phase = "done" /\ d.req = op[o].req
      /\ d.replacement = op[o].replacement /\ ~d.pending /\ ~d.poll
  BY CompletedType DEF TypeOK
<1>2. op' = [op EXCEPT ![o] = d] /\ ReleaseModems(o)
  BY DEF Complete
<1> HIDE DEF d
<1>3. op[o].req.original # 0
  BY DEF Shapes, Shape, Active
<1>4. Shape(d)
  BY <1>1, <1>3 DEF Shape, CommandPhases, NvmPhases, PollPhases, ActivePhases
<1> QED
  BY <1>1, <1>2, <1>4 DEF Finishes

\* A step to another active phase leaves the footprint Continues.
LEMMA AdvanceContinues ==
    ASSUME TypeOK, Shapes, NEW o \in Op, Active(o),
           NEW r \in OpRecord, r.req = op[o].req, r.replacement = op[o].replacement,
           r.phase \in ActivePhases,
           r.phase \in {"registration", "postNvm", "cell"} <=> r.replacement # 0,
           \/ r.phase \in CommandPhases \cup NvmPhases /\ r.pending /\ ~r.poll
           \/ r.phase \in PollPhases \cup NvmPhases /\ ~r.pending /\ r.poll,
           ~r.stop.timedOut, ~r.stop.lost,
           Advance(o, r)
    PROVE  Continues(o)
<1>1. op[o].req.original # 0
  BY DEF Shapes, Shape, Active
<1>2. Shape(r)
  BY <1>1 DEF Shape, CommandPhases, NvmPhases, PollPhases, ActivePhases, Phases
<1> QED
  BY <1>2 DEF Continues, Advance

\* The answer to the support probe.
LEMMA ProbeCallback ==
    ASSUME TypeOK, Shapes, NEW o \in Op, NEW a, NEW attested \in BOOLEAN,
           NEW again \in BOOLEAN, ProbeReady(o, a, attested, again)
    PROVE  Callback(o)
<1>1. op[o] \in OpRecord /\ op[o].phase = "probe" /\ Active(o)
  BY DEF TypeOK, ProbeReady, Active
<1>2. UNCHANGED <<bridge, nvm, staged, written, transport>>
  BY DEF ProbeReady
<1>3. "device_gone" \in States /\ "unsupported_protocol" \in States /\ States \subseteq Codes
  BY DEF States, Codes
<1>4. CASE Fail(o, op[o], "device_gone", "device_gone") /\ UNCHANGED queued
  BY <1>1, <1>2, <1>3, <1>4, CompleteFinishes DEF Fail, Callback, TypeOK
<1>5. CASE Fail(o, op[o], "unsupported_protocol", "unsupported_protocol") /\ UNCHANGED queued
  BY <1>1, <1>2, <1>3, <1>5, CompleteFinishes DEF Fail, Callback, TypeOK
<1>6. CASE /\ LET n == Normalize(a, op[o].stop.timedOut, op[o].stop.lost)
              IN  Complete(o, op[o], n[1], n[1], n[2])
           /\ UNCHANGED queued
  <2>1. op[o].stop.timedOut \in BOOLEAN /\ op[o].stop.lost \in BOOLEAN
    BY <1>1 DEF OpRecord, Stop
  <2> DEFINE n == Normalize(a, op[o].stop.timedOut, op[o].stop.lost)
  <2>2. n[1] \in States /\ n[2] \in BOOLEAN
    BY <2>1, NormalizeType
  <2>3. Complete(o, op[o], n[1], n[1], n[2])
    BY <1>6
  <2> HIDE DEF n
  <2> QED
    BY <1>1, <1>2, <1>3, <1>6, <2>2, <2>3, CompleteFinishes DEF Callback, TypeOK
<1>7. CASE /\ a = "ok" /\ a \in Answers(o)
           /\ Advance(o, Command([op[o] EXCEPT !.phase = "set",
                                               !.sent = [@ EXCEPT !.set = TRUE]]))
           /\ queued' = queued \cup {o}
  <2> DEFINE q == [op[o] EXCEPT !.phase = "set", !.sent = [@ EXCEPT !.set = TRUE]]
  <2>1. [op[o].sent EXCEPT !.set = TRUE] \in Sent
    BY <1>1 DEF OpRecord, Sent
  <2>2. /\ q \in OpRecord /\ q.phase = "set" /\ q.req = op[o].req
        /\ q.replacement = op[o].replacement /\ q.stop = op[o].stop
    BY <1>1, <2>1 DEF OpRecord, Phases
  <2>3. ~op[o].stop.timedOut /\ ~op[o].stop.lost
    BY <1>1, <1>7 DEF Answers, Shapes, Shape, ActivePhases, Phases, Active
  <2>4. op[o].replacement = 0
    BY <1>1 DEF Shapes, Shape
  <2>5. Advance(o, Command(q))
    BY <1>7
  <2> HIDE DEF q
  <2>6. Continues(o)
    BY <1>1, <2>2, <2>3, <2>4, <2>5, CommandType, AdvanceContinues
       DEF ActivePhases, Phases, CommandPhases, NvmPhases
  <2> QED
    BY <1>1, <1>2, <1>7, <2>6 DEF Callback, TypeOK
<1> QED
  BY <1>4, <1>5, <1>6, <1>7 DEF ProbeReady, DispatchSet

\* The count of matching observations stays within its bound.
LEMMA ObservedMatchesType ==
    ASSUME NEW r \in OpRecord, NEW match \in BOOLEAN
    PROVE  ObservedMatches(r, match) \in 0..2
<1>1. r.stage.matches \in 0..2
  BY DEF OpRecord, Stage
<1> QED
  BY <1>1 DEF ObservedMatches, RequiredMatches

\* A state may be reported as a code.
LEMMA StatesAreCodes == States \subseteq Codes
BY DEF States, Codes

\* The state reported for a failed NVM read is one of the states.
LEMMA NvmFailureStateType ==
    ASSUME NEW o \in Op, NEW s \in States
    PROVE  NvmFailureState(o, s) \in States
BY DEF NvmFailureState, States

\* An answer other than a cancellation, or a poll that is not cancelled,
\* finds the operation neither timed out nor cut off.
LEMMA AnsweredMeansRunning ==
    ASSUME Shapes, NEW o \in Op, Active(o), op[o] \in OpRecord,
           NEW a \in Answers(o), a # "cancelled"
    PROVE  ~op[o].stop.timedOut /\ ~op[o].stop.lost
BY DEF Answers, Errors, Shapes, Shape, ActivePhases, Active, OpRecord

\* The answer to the write of the lock.
LEMMA SetCallback ==
    ASSUME TypeOK, Shapes, NEW o \in Op, NEW a, SetReady(o, a)
    PROVE  Callback(o)
<1>1. op[o] \in OpRecord /\ op[o].phase = "set" /\ Active(o) /\ a \in Answers(o)
  BY DEF TypeOK, SetReady, Active
<1>2. queued' \subseteq Op /\ UNCHANGED <<bridge, nvm, staged, written, transport>>
  BY DEF SetReady, TypeOK
<1>3. "outcome_unknown" \in States /\ "malformed_response" \in States
  BY DEF States
<1>4. CASE Fail(o, op[o], "outcome_unknown", "outcome_unknown")
  BY <1>1, <1>2, <1>3, <1>4, StatesAreCodes, CompleteFinishes DEF Fail, Callback
<1>5. CASE Fail(o, op[o], "malformed_response", "malformed_response")
  BY <1>1, <1>2, <1>3, <1>5, StatesAreCodes, CompleteFinishes DEF Fail, Callback
<1>6. CASE LET n == Normalize(a, FALSE, FALSE)
           IN  Complete(o, op[o], n[1],
                        IF n[1] = "unavailable" THEN "operation_failed" ELSE n[1], n[2])
  <2> DEFINE n == Normalize(a, FALSE, FALSE)
             c == IF n[1] = "unavailable" THEN "operation_failed" ELSE n[1]
  <2>1. n[1] \in States /\ n[2] \in BOOLEAN
    BY NormalizeType
  <2>2. c \in Codes
    BY <2>1 DEF Codes
  <2>3. Complete(o, op[o], n[1], c, n[2])
    BY <1>6
  <2> HIDE DEF n, c
  <2> QED
    BY <1>1, <1>2, <2>1, <2>2, <2>3, CompleteFinishes DEF Callback
<1>7. CASE /\ a = "ok"
           /\ Advance(o, StartNvmVerification([op[o] EXCEPT !.sent = [@ EXCEPT !.acked = TRUE]],
                                              "preNvm"))
  <2> DEFINE q == [op[o] EXCEPT !.sent = [@ EXCEPT !.acked = TRUE]]
  <2>1. [op[o].sent EXCEPT !.acked = TRUE] \in Sent
    BY <1>1 DEF OpRecord, Sent
  <2>2. /\ q \in OpRecord /\ q.req = op[o].req
        /\ q.replacement = op[o].replacement /\ q.stop = op[o].stop
    BY <1>1, <2>1 DEF OpRecord
  <2>3. ~op[o].stop.timedOut /\ ~op[o].stop.lost
    BY <1>1, <1>7, AnsweredMeansRunning
  <2>4. op[o].replacement = 0
    BY <1>1 DEF Shapes, Shape
  <2>5. Advance(o, StartNvmVerification(q, "preNvm"))
    BY <1>7
  <2> HIDE DEF q
  <2>6. "preNvm" \in Phases /\ "preNvm" \in ActivePhases /\ "preNvm" \in NvmPhases
    BY DEF Phases, ActivePhases, NvmPhases
  <2>7. Continues(o)
    BY <1>1, <2>2, <2>3, <2>4, <2>5, <2>6, StartNvmVerificationType, AdvanceContinues
  <2> QED
    BY <1>1, <1>2, <2>7 DEF Callback
<1> QED
  BY <1>4, <1>5, <1>6, <1>7 DEF SetReady

\* The answer to the reset.
LEMMA ResetCallback ==
    ASSUME TypeOK, Shapes, NEW o \in Op, NEW a, ResetReady(o, a)
    PROVE  Callback(o)
<1>1. op[o] \in OpRecord /\ op[o].phase = "reset" /\ Active(o) /\ a \in Answers(o)
  BY DEF TypeOK, ResetReady, Active
<1>2. queued' \subseteq Op /\ UNCHANGED <<bridge, nvm, staged, written, transport>>
  BY DEF ResetReady, TypeOK, hardware
<1>3. "outcome_unknown" \in States /\ "lock_applied_reset_required" \in States
  BY DEF States
<1>4. CASE Fail(o, op[o], "outcome_unknown", "outcome_unknown")
  BY <1>1, <1>2, <1>3, <1>4, StatesAreCodes, CompleteFinishes DEF Fail, Callback
<1>5. CASE Fail(o, op[o], "lock_applied_reset_required", Normalize(a, FALSE, FALSE)[1])
  <2>1. Normalize(a, FALSE, FALSE)[1] \in Codes
    BY NormalizeType, StatesAreCodes
  <2> QED
    BY <1>1, <1>2, <1>3, <1>5, <2>1, CompleteFinishes DEF Fail, Callback
<1>6. CASE /\ ~op[o].stop.timedOut /\ ~op[o].stop.lost
           /\ Advance(o, [op[o] EXCEPT !.phase = "reprobe", !.stage = NoStage,
                                       !.pending = FALSE, !.poll = TRUE,
                                       !.stop = [@ EXCEPT !.cancelled = FALSE]])
  <2> DEFINE q == [op[o] EXCEPT !.phase = "reprobe", !.stage = NoStage,
                                !.pending = FALSE, !.poll = TRUE,
                                !.stop = [@ EXCEPT !.cancelled = FALSE]]
             st == [op[o].stop EXCEPT !.cancelled = FALSE]
  <2>1. st \in Stop /\ ~st.timedOut /\ ~st.lost
    BY <1>1, <1>6 DEF OpRecord, Stop
  <2>2. /\ q \in OpRecord /\ q.phase = "reprobe" /\ q.req = op[o].req /\ q.stop = st
        /\ q.replacement = op[o].replacement /\ ~q.pending /\ q.poll
    BY <1>1, <2>1, NoStageType DEF OpRecord, Phases
  <2>3. op[o].replacement = 0
    BY <1>1 DEF Shapes, Shape
  <2>4. Advance(o, q)
    BY <1>6
  <2> HIDE DEF q, st
  <2>5. Continues(o)
    BY <1>1, <2>1, <2>2, <2>3, <2>4, AdvanceContinues DEF Phases, ActivePhases, PollPhases
  <2> QED
    BY <1>1, <1>2, <2>5 DEF Callback
<1> QED
  BY <1>4, <1>5, <1>6 DEF ResetReady

\* The answer to the query of the serving cell.
LEMMA CellCallback ==
    ASSUME TypeOK, Shapes, NEW o \in Op, NEW a, NEW attested, NEW serves,
           CellReady(o, a, attested, serves)
    PROVE  Callback(o)
<1>1. op[o] \in OpRecord /\ Active(o)
  BY DEF TypeOK, CellReady, Active
<1>2. queued' \subseteq Op /\ UNCHANGED <<bridge, nvm, staged, written, transport>>
  BY DEF CellReady, TypeOK, hardware
<1>3. {"outcome_unknown", "verification_mismatch", "verified", "none"} \subseteq States
  BY DEF States
<1>4. \E s, c \in States : Complete(o, op[o], s, c, FALSE)
  BY <1>3 DEF CellReady, Fail
<1> QED
  BY <1>1, <1>2, <1>4, StatesAreCodes, CompleteFinishes DEF Callback

\* What follows a well-formed NVM read.
LEMMA NvmObservedCallback ==
    ASSUME TypeOK, Shapes, NEW o \in Op, op[o].phase \in NvmPhases, op[o].pending,
           ~op[o].stop.timedOut, ~op[o].stop.lost,
           NEW match \in BOOLEAN, NEW again \in BOOLEAN, NvmObserved(o, match, again)
    PROVE  Continues(o) \/ Finishes(o)
<1>1. op[o] \in OpRecord /\ Active(o)
  BY DEF TypeOK, Active, NvmPhases
<1> DEFINE m == ObservedMatches(op[o], match)
           r == [op[o] EXCEPT !.pending = FALSE,
                              !.stage = [expired |-> op[o].stage.expired, matches |-> m,
                                         lastRead |-> IF match THEN "match" ELSE "mismatch"]]
<1>2. m \in 0..2
  BY <1>1, ObservedMatchesType
<1> HIDE DEF m
<1>a. [expired |-> op[o].stage.expired, matches |-> m,
       lastRead |-> IF match THEN "match" ELSE "mismatch"] \in Stage
  BY <1>1, <1>2 DEF OpRecord, Stage
<1>3. /\ r \in OpRecord /\ r.phase = op[o].phase /\ r.req = op[o].req
      /\ r.replacement = op[o].replacement /\ r.stop = op[o].stop /\ r.sent = op[o].sent
      /\ ~r.pending /\ r.poll = op[o].poll
  BY <1>1, <1>a DEF OpRecord
<1>4. op[o].phase \in {"registration", "postNvm", "cell"} <=> op[o].replacement # 0
  BY DEF Shapes, Shape, NvmPhases
<1>5. \/ Fail(o, r, NvmFailureState(o, "verification_mismatch"), "verification_mismatch")
      \/ Advance(o, [r EXCEPT !.poll = TRUE])
      \/ op[o].phase = "preNvm" /\ StartReset(o, r, again)
      \/ Complete(o, r, "verified", "none", FALSE)
      \/ op[o].phase = "postNvm" /\ Advance(o, Command([r EXCEPT !.phase = "cell"]))
  BY DEF NvmObserved, m
<1> HIDE DEF r
<1>6. {"verification_mismatch", "verified", "none", "device_gone",
       "lock_applied_reset_required"} \subseteq States
  BY DEF States
<1>7. CASE Fail(o, r, NvmFailureState(o, "verification_mismatch"), "verification_mismatch")
  BY <1>1, <1>3, <1>6, <1>7, NvmFailureStateType, StatesAreCodes, CompleteFinishes DEF Fail
<1>8. CASE Advance(o, [r EXCEPT !.poll = TRUE])
  <2> DEFINE q == [r EXCEPT !.poll = TRUE]
  <2>1. /\ q \in OpRecord /\ q.phase = op[o].phase /\ q.req = op[o].req /\ q.stop = op[o].stop
        /\ q.replacement = op[o].replacement /\ ~q.pending /\ q.poll
    BY <1>3 DEF OpRecord
  <2> HIDE DEF q
  <2> QED
    BY <1>1, <1>4, <1>8, <2>1, AdvanceContinues DEF NvmPhases, ActivePhases, Phases, q
<1>9. CASE op[o].phase = "preNvm" /\ StartReset(o, r, again)
  <2>1. CASE Fail(o, r, "lock_applied_reset_required", "device_gone")
    BY <1>1, <1>3, <1>6, <2>1, StatesAreCodes, CompleteFinishes DEF Fail
  <2>2. CASE Advance(o, Command([r EXCEPT !.phase = "reset",
                                 !.sent = [@ EXCEPT !.reset = TRUE,
                                                    !.resetAt = nextGeneration]]))
    <3> DEFINE q == [r EXCEPT !.phase = "reset",
                              !.sent = [@ EXCEPT !.reset = TRUE, !.resetAt = nextGeneration]]
    <3>1. [r.sent EXCEPT !.reset = TRUE, !.resetAt = nextGeneration] \in Sent
      BY <1>3 DEF OpRecord, Sent, TypeOK
    <3>2. /\ q \in OpRecord /\ q.phase = "reset" /\ q.req = op[o].req
          /\ q.replacement = op[o].replacement /\ q.stop = op[o].stop
      BY <1>3, <3>1 DEF OpRecord, Phases
    <3>3. Advance(o, Command(q))
      BY <2>2
    <3> HIDE DEF q
    <3> QED
      BY <1>1, <1>4, <1>9, <3>2, <3>3, CommandType, AdvanceContinues
         DEF CommandPhases, ActivePhases, Phases
  <2> QED
    BY <1>9, <2>1, <2>2 DEF StartReset
<1>10. CASE Complete(o, r, "verified", "none", FALSE)
  BY <1>1, <1>3, <1>6, <1>10, StatesAreCodes, CompleteFinishes
<1>11. CASE op[o].phase = "postNvm" /\ Advance(o, Command([r EXCEPT !.phase = "cell"]))
  <2> DEFINE q == [r EXCEPT !.phase = "cell"]
  <2>1. /\ q \in OpRecord /\ q.phase = "cell" /\ q.req = op[o].req
        /\ q.replacement = op[o].replacement /\ q.stop = op[o].stop
    BY <1>3 DEF OpRecord, Phases
  <2>2. Advance(o, Command(q))
    BY <1>11
  <2> HIDE DEF q
  <2> QED
    BY <1>1, <1>4, <1>11, <2>1, <2>2, CommandType, AdvanceContinues
       DEF CommandPhases, ActivePhases, Phases
<1> QED
  BY <1>5, <1>7, <1>8, <1>9, <1>10, <1>11

\* The answer to a read of the NVM.
LEMMA NvmCallback ==
    ASSUME TypeOK, Shapes, NEW o \in Op, NEW a, NEW attested \in BOOLEAN,
           NEW again \in BOOLEAN, NvmReady(o, a, attested, again)
    PROVE  Callback(o)
<1>1. /\ op[o] \in OpRecord /\ op[o].phase \in NvmPhases /\ op[o].pending
      /\ Active(o) /\ a \in Answers(o)
  BY DEF TypeOK, NvmReady, Active, NvmPhases
<1>2. queued' \subseteq Op /\ UNCHANGED <<bridge, nvm, staged, written, transport>>
  BY DEF NvmReady, TypeOK, hardware
<1>3. {"outcome_unknown", "verification_mismatch", "malformed_response"} \subseteq States
  BY DEF States
<1>4. CASE \E s, c \in States : Fail(o, op[o], NvmFailureState(o, s), c)
  BY <1>1, <1>2, <1>4, NvmFailureStateType, StatesAreCodes, CompleteFinishes DEF Fail, Callback
<1>5. CASE a = "ok" /\ NvmObserved(o, nvm[SlotOfOp(o)] = op[o].req.target, again)
  <2>1. ~op[o].stop.timedOut /\ ~op[o].stop.lost
    BY <1>1, <1>5, AnsweredMeansRunning
  <2> QED
    BY <1>1, <1>2, <1>5, <2>1, NvmObservedCallback DEF Callback
<1> QED
  BY <1>3, <1>4, <1>5 DEF NvmReady

\* A poll timer of an operation that has been cancelled.
LEMMA PollCancelledCallback ==
    ASSUME TypeOK, Shapes, NEW o \in Op, PollCancelled(o)
    PROVE  Callback(o)
<1>1. op[o] \in OpRecord /\ Active(o)
  BY DEF TypeOK, PollCancelled, Active, Shapes, Shape
<1>2. queued' \subseteq Op /\ UNCHANGED <<bridge, nvm, staged, written, transport>>
  BY DEF PollCancelled, TypeOK, hardware
<1>3. "outcome_unknown" \in States
  BY DEF States
<1> QED
  BY <1>1, <1>2, <1>3, NvmFailureStateType, StatesAreCodes, CompleteFinishes
     DEF PollCancelled, Fail, Callback

\* A poll timer while the NVM is read.
LEMMA PollNvmCallback ==
    ASSUME TypeOK, Shapes, NEW o \in Op, NEW attested \in BOOLEAN, PollNvm(o, attested)
    PROVE  Callback(o)
<1>1. /\ op[o] \in OpRecord /\ op[o].phase \in NvmPhases /\ Active(o)
      /\ ~op[o].stop.timedOut /\ ~op[o].stop.lost
  BY DEF TypeOK, PollNvm, Polling, Active, NvmPhases
<1>2. queued' \subseteq Op /\ UNCHANGED <<bridge, nvm, staged, written, transport>>
  BY DEF PollNvm, TypeOK, hardware
<1>3. {"outcome_unknown", "verification_mismatch"} \subseteq States
  BY DEF States
<1>4. CASE \E s, c \in States : Fail(o, op[o], NvmFailureState(o, s), c)
  BY <1>1, <1>2, <1>4, NvmFailureStateType, StatesAreCodes, CompleteFinishes DEF Fail, Callback
<1>5. CASE Advance(o, Command(op[o]))
  <2>1. op[o].phase \in {"registration", "postNvm", "cell"} <=> op[o].replacement # 0
    BY <1>1 DEF Shapes, Shape, NvmPhases
  <2>2. op[o].phase \in ActivePhases
    BY <1>1 DEF ActivePhases, NvmPhases, Phases
  <2> QED
    BY <1>1, <1>2, <1>5, <2>1, <2>2, CommandType, AdvanceContinues DEF Callback
<1> QED
  BY <1>3, <1>4, <1>5 DEF PollNvm

\* A poll timer while the modem registers.
LEMMA PollRegistrationCallback ==
    ASSUME TypeOK, Shapes, NEW o \in Op, NEW attested \in BOOLEAN, NEW registered \in BOOLEAN,
           PollRegistration(o, attested, registered)
    PROVE  Callback(o)
<1>1. /\ op[o] \in OpRecord /\ op[o].phase = "registration" /\ Active(o)
      /\ ~op[o].stop.timedOut /\ ~op[o].stop.lost
  BY DEF TypeOK, PollRegistration, Polling, Active
<1>2. queued' \subseteq Op /\ UNCHANGED <<bridge, nvm, staged, written, transport>>
  BY DEF PollRegistration, TypeOK, hardware
<1>3. {"outcome_unknown", "registration_timeout"} \subseteq States
  BY DEF States
<1>4. CASE \E s, c \in States : Fail(o, op[o], s, c)
  BY <1>1, <1>2, <1>4, StatesAreCodes, CompleteFinishes DEF Fail, Callback
<1>5. CASE Advance(o, StartNvmVerification(op[o], "postNvm"))
  <2>1. op[o].replacement # 0
    BY <1>1 DEF Shapes, Shape
  <2>2. "postNvm" \in Phases /\ "postNvm" \in ActivePhases /\ "postNvm" \in NvmPhases
    BY DEF Phases, ActivePhases, NvmPhases
  <2>3. Continues(o)
    BY <1>1, <1>5, <2>1, <2>2, StartNvmVerificationType, AdvanceContinues
  <2> QED
    BY <1>1, <1>2, <2>3 DEF Callback
<1> QED
  BY <1>3, <1>4, <1>5 DEF PollRegistration

\* A poll timer while the modem is absent.
LEMMA PollReprobeCallback ==
    ASSUME TypeOK, Shapes, NEW o \in Op, NEW attested \in SUBSET Generation,
           NEW registered \in BOOLEAN, PollReprobe(o, attested, registered)
    PROVE  Callback(o)
<1>1. /\ op[o] \in OpRecord /\ op[o].phase = "reprobe" /\ Active(o)
      /\ ~op[o].stop.timedOut /\ ~op[o].stop.lost
      /\ ~op[o].pending /\ op[o].poll /\ op[o].replacement = 0 /\ op[o].req.original # 0
  BY DEF TypeOK, PollReprobe, Polling, Active, Shapes, Shape, PollPhases
<1>2. queued' \subseteq Op /\ UNCHANGED <<bridge, nvm, staged, written, transport>>
  BY DEF PollReprobe, TypeOK, hardware
<1>3. {"outcome_unknown", "verification_mismatch", "reprobe_timeout", "busy"} \subseteq States
  BY DEF States
<1>4. CASE \E s, c \in States : Fail(o, op[o], s, c)
  BY <1>1, <1>2, <1>4, StatesAreCodes, CompleteFinishes DEF Fail, Callback
<1>5. ASSUME NEW m \in attested, kind[m] = "none", Adopt(o, m, registered)
      PROVE  Callback(o)
  <2>1. m \in Candidates(o) /\ m \in Generation
    BY <1>5 DEF PollReprobe
  <2> DEFINE r == [op[o] EXCEPT !.replacement = m, !.phase = "registration", !.stage = NoStage]
             p == [r EXCEPT !.poll = TRUE]
             n == StartNvmVerification(r, "postNvm")
             q == IF registered THEN n ELSE p
  <2>2. m \in 0..MaxGeneration /\ m # 0
    BY <2>1, ConstantsAssumption DEF Generation, ConstantsAssumption
  <2>3. /\ r \in OpRecord /\ r.phase = "registration" /\ r.req = op[o].req
        /\ r.replacement = m /\ r.stop = op[o].stop /\ ~r.pending /\ r.poll
    BY <1>1, <2>2, NoStageType DEF OpRecord, Phases
  <2> HIDE DEF r
  <2>4. /\ p \in OpRecord /\ p.phase = "registration" /\ p.req = op[o].req
        /\ p.replacement = m /\ p.stop = op[o].stop /\ ~p.pending /\ p.poll
    BY <2>3 DEF OpRecord
  <2>5. /\ n \in OpRecord /\ n.phase = "postNvm" /\ n.req = op[o].req /\ n.replacement = m
        /\ n.pending /\ ~n.poll /\ ~n.stop.timedOut /\ ~n.stop.lost
    BY <1>1, <2>3, StartNvmVerificationType DEF Phases
  <2>6. op' = [op EXCEPT ![o] = q] /\ kind' = [kind EXCEPT ![m] = "l850"] /\ UNCHANGED cooling
    BY <1>5 DEF Adopt, r
  <2> HIDE DEF p, n
  <2>7. Shape(p) /\ Shape(n)
    BY <1>1, <2>2, <2>4, <2>5 DEF Shape, CommandPhases, NvmPhases, PollPhases
  <2>8. /\ q \in OpRecord /\ Shape(q) /\ q.phase \in ActivePhases
        /\ q.req = op[o].req /\ q.replacement = m
    BY <2>4, <2>5, <2>7 DEF ActivePhases, Phases
  <2> HIDE DEF q
  <2>9. Adopts(o)
    BY <1>1, <1>5, <2>1, <2>6, <2>8 DEF Adopts
  <2> QED
    BY <1>1, <1>2, <2>9 DEF Callback
<1> QED
  BY <1>3, <1>4, <1>5 DEF PollReprobe

\* Every completion of a command and every poll has one of the three
\* footprints.
LEMMA CallbackFootprint ==
    ASSUME TypeOK, Shapes, NEW o \in Op, CommandReady(o) \/ Poll(o)
    PROVE  Callback(o)
BY ProbeCallback, SetCallback, NvmCallback, ResetCallback, CellCallback,
   PollCancelledCallback, PollNvmCallback, PollReprobeCallback, PollRegistrationCallback
   DEF CommandReady, Poll

-----------------------------------------------------------------------------
(* The invariant is preserved, footprint by footprint.                     *)

\* The modem objects an operation holds are at the slot it works on.
LEMMA HeldAtSlot ==
    ASSUME Shapes, Placed, NEW o \in Op, NEW m \in Held(o)
    PROVE  slotOf[m] = SlotOfOp(o)
BY DEF Held, Placed, SlotOfOp

\* The invariant holds when the bridge starts.
LEMMA InitInv == Init => Inv
<1> SUFFICES ASSUME Init PROVE Inv
  OBVIOUS
<1>1. TypeOK
  BY NoOpType, ConstantsAssumption DEF Init, TypeOK, ConstantsAssumption, Kinds
<1>2. \A o \in Op : op[o] = NoOp
  BY DEF Init
<1>3. Shapes
  BY <1>2, NoOpType DEF Shapes, Shape, CommandPhases, NvmPhases, PollPhases, ActivePhases
<1>4. Placed
  BY <1>2, NoOpType DEF Placed, Init
<1>5. \A o \in Op : ~Active(o)
  BY <1>2, NoOpType DEF Active
<1> QED
  BY <1>1, <1>3, <1>4, <1>5 DEF Inv, SlotExclusion, LockOwned, Init

\* A step that changes no operation's phase, request or adopted object and
\* no modem's lock preserves both exclusion properties.
LEMMA SameHolders ==
    ASSUME Inv, UNCHANGED kind, TypeOK',
           \A m \in Generation : m <= nextGeneration => slotOf'[m] = slotOf[m],
           \A o \in Op : /\ Active(o)' <=> Active(o)
                         /\ op'[o].req = op[o].req
                         /\ op'[o].replacement = op[o].replacement
    PROVE  SlotExclusion' /\ LockOwned'
<1>1. \A o \in Op : Held(o)' = Held(o)
  BY DEF Held
<1>2. \A o \in Op : Active(o) => SlotOfOp(o)' = SlotOfOp(o)
  <2> SUFFICES ASSUME NEW o \in Op, Active(o) PROVE SlotOfOp(o)' = SlotOfOp(o)
    OBVIOUS
  <2>1. op[o].req.original # 0 /\ op[o].req.original <= nextGeneration
    BY DEF Inv, Shapes, Shape, Placed, Active
  <2>2. op[o].req.original \in 0..MaxGeneration
    BY DEF Inv, TypeOK, OpRecord, Request
  <2>3. op[o].req.original \in Generation
    BY <2>1, <2>2, ConstantsAssumption DEF Generation, ConstantsAssumption
  <2> QED
    BY <2>1, <2>3 DEF SlotOfOp
<1>3. SlotExclusion'
  BY <1>2 DEF Inv, SlotExclusion
<1>4. LockOwned'
  BY <1>1 DEF Inv, LockOwned
<1> QED
  BY <1>3, <1>4

\* A step with the footprint of a callback keeps the invariant.
LEMMA CallbackInv ==
    ASSUME Inv, NEW o \in Op, Callback(o)
    PROVE  Inv'
<1> USE DEF Inv
<1>1. UNCHANGED <<nextGeneration, slotOf, live, nvm, staged, written, connected, epoch>>
  BY DEF Callback, bridge, transport
<1>2. PICK r \in OpRecord : /\ op' = [op EXCEPT ![o] = r] /\ Shape(r)
                            /\ r.phase # "unused" /\ r.req = op[o].req
                            /\ r.replacement = op[o].replacement \/ r.replacement \in Candidates(o)
  BY DEF Callback, Continues, Finishes, Adopts, ActivePhases
<1>3. op'[o] = r /\ \A p \in Op : p # o => op'[p] = op[p]
  BY <1>2 DEF TypeOK
<1>4. /\ Active(o) /\ op[o].req.original # 0
      /\ SlotOfOp(o)' = SlotOfOp(o)
      /\ \A p \in Op : p # o => /\ Active(p)' <=> Active(p)
                                /\ SlotOfOp(p)' = SlotOfOp(p)
                                /\ Held(p)' = Held(p)
  BY <1>1, <1>2, <1>3 DEF Callback, Shapes, Shape, Active, SlotOfOp, Held
<1>5. TypeOK'
  <2>1. op' \in [Op -> OpRecord]
    BY <1>2 DEF TypeOK
  <2>2. kind' \in [Generation -> Kinds] /\ cooling' \subseteq Generation
    <3>1. Held(o) \subseteq Generation
      <4>1. op[o].req.original \in 0..MaxGeneration /\ op[o].replacement \in 0..MaxGeneration
        BY DEF TypeOK, OpRecord, Request
      <4> QED
        BY <4>1, ConstantsAssumption DEF ConstantsAssumption, Held, Generation
    <3>2. CASE UNCHANGED <<kind, cooling>>
      BY <3>2 DEF TypeOK
    <3>3. CASE ReleaseModems(o)
      BY <3>1, <3>3 DEF ReleaseModems, TypeOK, Kinds
    <3>4. CASE Adopts(o)
      BY <3>4 DEF Adopts, TypeOK, Kinds
    <3> QED
      BY <3>2, <3>3, <3>4 DEF Callback, Continues, Finishes
  <2>3. queued' \subseteq Op
    BY DEF Callback
  <2> QED
    BY <1>1, <2>1, <2>2, <2>3 DEF TypeOK
<1>6. Shapes'
  BY <1>2, <1>3 DEF Shapes
<1>7. Placed'
  <2>1. \A m \in Candidates(o) : m \in live /\ slotOf[m] = SlotOfOp(o)
    BY DEF Candidates
  <2> QED
    BY <1>1, <1>2, <1>3, <1>4, <2>1 DEF Placed, SlotOfOp
<1>8. SlotExclusion'
  BY <1>4 DEF SlotExclusion
<1>9. LockOwned'
  <2>1. CASE Continues(o)
    <3>1. PICK q \in OpRecord : /\ q.phase \in ActivePhases /\ op' = [op EXCEPT ![o] = q]
                                /\ q.req = op[o].req /\ q.replacement = op[o].replacement
                                /\ UNCHANGED kind
      BY <2>1 DEF Continues
    <3>2. Active(o)' /\ Held(o)' = Held(o)
      BY <3>1 DEF TypeOK, Active, Held, ActivePhases
    <3> QED
      BY <1>4, <3>1, <3>2 DEF LockOwned
  <2>2. CASE Finishes(o)
    <3>1. ~Active(o)' /\ ReleaseModems(o)
      BY <2>2 DEF Finishes, Active, TypeOK
    <3>2. \A p \in Op, m \in Generation : p # o /\ Active(p) /\ m \in Held(p) => m \notin Held(o)
      BY <1>4, HeldAtSlot DEF SlotExclusion
    <3>3. \A m \in Generation : kind'[m] = IF m \in Held(o) THEN "none" ELSE kind[m]
      BY <1>4, <3>1 DEF ReleaseModems, LockOwned
    <3> QED
      BY <1>4, <3>1, <3>2, <3>3 DEF LockOwned
  <2>3. CASE Adopts(o)
    <3>1. PICK m \in Candidates(o), q \in OpRecord :
             /\ kind[m] = "none" /\ op[o].replacement = 0
             /\ q.phase \in ActivePhases /\ op' = [op EXCEPT ![o] = q]
             /\ q.req = op[o].req /\ q.replacement = m
             /\ kind' = [kind EXCEPT ![m] = "l850"]
      BY <2>3 DEF Adopts
    <3>2. m \in Generation
      BY DEF Candidates, TypeOK
    <3>3. Active(o)' /\ Held(o)' = Held(o) \cup {m}
      BY <3>1, <3>2, ConstantsAssumption
         DEF TypeOK, Active, Held, ActivePhases, Generation, ConstantsAssumption
    <3>4. \A n \in Generation : kind'[n] = IF n = m THEN "l850" ELSE kind[n]
      BY <3>1 DEF TypeOK
    <3> QED
      BY <1>4, <3>2, <3>3, <3>4 DEF LockOwned
  <2> QED
    BY <2>1, <2>2, <2>3 DEF Callback
<1> QED
  BY <1>5, <1>6, <1>7, <1>8, <1>9

\* A request, refused or admitted, keeps the invariant.
LEMMA RequestInv ==
    ASSUME Inv, NEW o \in Op, NEW m \in Generation, NEW target \in Lock,
           RequestLock(o, m, target)
    PROVE  Inv'
<1> USE DEF Inv
<1> DEFINE r == NewOp(target, m, epoch)
<1>1. m \in 0..MaxGeneration /\ m # 0 /\ epoch \in 0..MaxEpoch
  BY ConstantsAssumption DEF Generation, TypeOK, ConstantsAssumption
<1>2. r \in OpRecord
  BY <1>1, NewOpType
<1>3. /\ r.phase = "probe" /\ r.pending /\ ~r.poll /\ r.replacement = 0
      /\ r.req.original = m /\ ~r.stop.timedOut /\ ~r.stop.lost
  BY DEF NewOp, NoStop
<1>4. op' = [op EXCEPT ![o] = r] /\ kind' = [kind EXCEPT ![m] = "l850"]
  BY DEF RequestLock
<1> HIDE DEF r
<1>5. op'[o] = r /\ \A p \in Op : p # o => op'[p] = op[p]
  BY <1>4 DEF TypeOK
<1>6. /\ UNCHANGED <<nextGeneration, slotOf, live, cooling, nvm, staged, queued, written,
                     connected, epoch>>
      /\ ~Active(o) /\ m \in live /\ kind[m] = "none" /\ ~HasActiveMutation(m)
  BY DEF RequestLock, bridge, hardware, transport, Active
<1>7. /\ Active(o)' /\ SlotOfOp(o)' = slotOf[m] /\ Held(o)' = {m}
      /\ \A p \in Op : p # o => /\ Active(p)' <=> Active(p)
                                /\ SlotOfOp(p)' = SlotOfOp(p)
                                /\ Held(p)' = Held(p)
  BY <1>1, <1>3, <1>5, <1>6 DEF Active, SlotOfOp, Held
<1>8. TypeOK'
  BY <1>2, <1>4, <1>6 DEF TypeOK, Kinds
<1>9. Shapes'
  <2>1. Shape(r)
    BY <1>1, <1>3 DEF Shape, CommandPhases, NvmPhases, PollPhases
  <2> QED
    BY <1>5, <2>1 DEF Shapes
<1>10. Placed'
  BY <1>3, <1>5, <1>6, <1>7 DEF Placed, SlotOfOp
<1>11. SlotExclusion'
  BY <1>6, <1>7 DEF SlotExclusion, HasActiveMutation
<1>12. LockOwned'
  <2>1. \A n \in Generation : kind'[n] = IF n = m THEN "l850" ELSE kind[n]
    BY <1>4 DEF TypeOK
  <2> QED
    BY <1>6, <1>7, <2>1 DEF LockOwned
<1> QED
  BY <1>8, <1>9, <1>10, <1>11, <1>12

\* The timers and the loss of the connection change flags of operations only.
LEMMA FlagsInv ==
    ASSUME Inv, \/ \E o \in Op : DeadlineExpires(o) \/ OperationTimeout(o)
                \/ ConnectionLost
    PROVE  Inv'
<1> USE DEF Inv
<1>1. /\ UNCHANGED <<nextGeneration, slotOf, live, kind, cooling, nvm, staged, queued,
                     written, epoch>>
      /\ connected' \in BOOLEAN
  BY DEF DeadlineExpires, OperationTimeout, ConnectionLost, bridge, hardware, transport, TypeOK
<1>2. op' \in [Op -> OpRecord] /\ \A p \in Op :
        /\ op'[p].phase = op[p].phase /\ op'[p].req = op[p].req
        /\ op'[p].replacement = op[p].replacement
        /\ op'[p].pending = op[p].pending /\ op'[p].poll = op[p].poll
        /\ op'[p].stop = op[p].stop \/ op'[p].stop.cancelled
  <2>1. ASSUME NEW o \in Op, DeadlineExpires(o)
        PROVE  <1>2
    <3> DEFINE e == [op[o].stage EXCEPT !.expired = TRUE]
               q == [op[o] EXCEPT !.stage = e]
    <3>1. op[o] \in OpRecord
      BY DEF TypeOK
    <3>2. e \in Stage
      BY <3>1 DEF OpRecord, Stage
    <3> HIDE DEF e
    <3>3. /\ q \in OpRecord /\ q.phase = op[o].phase /\ q.req = op[o].req
          /\ q.replacement = op[o].replacement /\ q.pending = op[o].pending
          /\ q.poll = op[o].poll /\ q.stop = op[o].stop
      BY <3>1, <3>2 DEF OpRecord
    <3>4. op' = [op EXCEPT ![o] = q]
      BY <2>1 DEF DeadlineExpires, e
    <3> HIDE DEF q
    <3> QED
      BY <3>3, <3>4 DEF TypeOK
  <2>2. ASSUME NEW o \in Op, OperationTimeout(o)
        PROVE  <1>2
    <3> DEFINE e == [op[o].stop EXCEPT !.timedOut = TRUE, !.cancelled = TRUE]
               q == [op[o] EXCEPT !.stop = e]
    <3>1. op[o] \in OpRecord
      BY DEF TypeOK
    <3>2. e \in Stop /\ e.cancelled
      BY <3>1 DEF OpRecord, Stop
    <3> HIDE DEF e
    <3>3. /\ q \in OpRecord /\ q.phase = op[o].phase /\ q.req = op[o].req
          /\ q.replacement = op[o].replacement /\ q.pending = op[o].pending
          /\ q.poll = op[o].poll /\ q.stop = e
      BY <3>1, <3>2 DEF OpRecord
    <3>4. op' = [op EXCEPT ![o] = q]
      BY <2>2 DEF OperationTimeout, e
    <3> HIDE DEF q
    <3> QED
      BY <3>2, <3>3, <3>4 DEF TypeOK
  <2>3. ASSUME ConnectionLost
        PROVE  <1>2
    <3> DEFINE e(p) == [op[p].stop EXCEPT !.lost = TRUE, !.cancelled = TRUE]
               q(p) == [op[p] EXCEPT !.deferred = FALSE, !.stop = e(p)]
    <3>1. \A p \in Op : op[p] \in OpRecord
      BY DEF TypeOK
    <3>2. \A p \in Op : e(p) \in Stop /\ e(p).cancelled
      BY <3>1 DEF OpRecord, Stop
    <3> HIDE DEF e
    <3>3. \A p \in Op :
          /\ q(p) \in OpRecord /\ q(p).phase = op[p].phase /\ q(p).req = op[p].req
          /\ q(p).replacement = op[p].replacement /\ q(p).pending = op[p].pending
          /\ q(p).poll = op[p].poll /\ q(p).stop = e(p)
      BY <3>1, <3>2 DEF OpRecord
    <3>4. op' = [p \in Op |-> IF Active(p) THEN q(p) ELSE op[p]]
      BY <2>3 DEF ConnectionLost, e
    <3> HIDE DEF q
    <3> QED
      BY <3>1, <3>2, <3>3, <3>4
  <2> QED
    BY <2>1, <2>2, <2>3
<1>3. TypeOK'
  BY <1>1, <1>2 DEF TypeOK
<1>4. Shapes'
  BY <1>2 DEF Shapes, Shape
<1>5. Placed'
  BY <1>1, <1>2 DEF Placed, SlotOfOp
<1>6. \A p \in Op : Active(p)' <=> Active(p)
  BY <1>2 DEF Active
<1> QED
  BY <1>1, <1>2, <1>3, <1>4, <1>5, <1>6, SameHolders

\* The hardware, the connection, the cooldowns and the inventory change no
\* operation and no mutation lock.
LEMMA EnvironmentInv ==
    ASSUME Inv,
           \/ \E o \in Op : FirmwareWrites(o) \/ WriteDropped(o)
           \/ Reconnect
           \/ \E s \in Slot : ModemAdded(s) \/ FirmwareSaves(s)
           \/ \E m \in Generation :
                (\E powerCycle \in BOOLEAN : ModemRemoved(m, powerCycle)) \/ CooldownExpires(m)
    PROVE  Inv'
<1> USE DEF Inv
<1>1. UNCHANGED <<kind, op>>
  BY DEF FirmwareWrites, WriteDropped, Reconnect, ModemAdded, FirmwareSaves,
         ModemRemoved, CooldownExpires
<1>2. /\ nextGeneration' \in 0..MaxGeneration /\ nextGeneration <= nextGeneration'
      /\ slotOf' \in [Generation -> Slot \cup {NoSlot}]
      /\ \A m \in Generation : m <= nextGeneration => slotOf'[m] = slotOf[m]
      /\ live' \subseteq Generation /\ \A m \in live' : m <= nextGeneration'
  <2>1. ASSUME NEW s \in Slot, ModemAdded(s)
        PROVE  <1>2
    <3> DEFINE n == nextGeneration + 1
    <3>1. /\ nextGeneration \in Nat /\ n \in Generation
          /\ nextGeneration' = n /\ slotOf' = [slotOf EXCEPT ![n] = s]
          /\ live' = live \cup {n}
      BY <2>1, ConstantsAssumption DEF ModemAdded, TypeOK, Generation, ConstantsAssumption
    <3>2. slotOf' \in [Generation -> Slot \cup {NoSlot}] /\ live' \subseteq Generation
      BY <3>1 DEF TypeOK
    <3>3. /\ nextGeneration' \in 0..MaxGeneration /\ nextGeneration <= nextGeneration'
          /\ \A m \in Generation : m <= nextGeneration => m # n
          /\ \A m \in Generation : m <= nextGeneration => m <= n
      BY <3>1, ConstantsAssumption DEF Generation, ConstantsAssumption
    <3>4. \A m \in Generation : m # n => slotOf'[m] = slotOf[m]
      BY <3>1 DEF TypeOK
    <3>5. \A m \in live' : m = n \/ m \in live
      BY <3>1
    <3> HIDE DEF n
    <3>6. \A m \in live' : m <= nextGeneration'
      BY <3>1, <3>2, <3>3, <3>5 DEF Placed, TypeOK, Generation
    <3> QED
      BY <3>2, <3>3, <3>4, <3>6
  <2>2. CASE UNCHANGED <<nextGeneration, slotOf>> /\ live' \subseteq live
    BY <2>2, ConstantsAssumption DEF TypeOK, Placed, ConstantsAssumption
  <2> QED
    BY <2>1, <2>2 DEF FirmwareWrites, WriteDropped, Reconnect, FirmwareSaves,
                      ModemRemoved, CooldownExpires, bridge
<1>3. nvm' \in [Slot -> Lock] /\ staged' \in [Slot -> Lock]
  <2>1. ASSUME NEW o \in Op, FirmwareWrites(o)
        PROVE  <1>3
    <3>1. op[o].req.target \in Lock
      BY DEF TypeOK, OpRecord, Request
    <3> QED
      BY <2>1, <3>1 DEF FirmwareWrites, TypeOK
  <2>2. ASSUME NEW m \in Generation, NEW c \in BOOLEAN, ModemRemoved(m, c)
        PROVE  <1>3
    BY <2>2 DEF ModemRemoved, TypeOK
  <2>3. ASSUME NEW s \in Slot, FirmwareSaves(s)
        PROVE  <1>3
    BY <2>3 DEF FirmwareSaves, TypeOK
  <2>4. CASE UNCHANGED <<nvm, staged>>
    BY <2>4 DEF TypeOK
  <2> QED
    BY <2>1, <2>2, <2>3, <2>4
       DEF WriteDropped, Reconnect, ModemAdded, CooldownExpires, hardware
<1>4. /\ cooling' \subseteq Generation /\ queued' \subseteq Op /\ written' \subseteq Op
      /\ connected' \in BOOLEAN /\ epoch' \in 1..MaxEpoch
  <2>1. cooling' \subseteq cooling /\ queued' \subseteq queued /\ written' \subseteq written \cup Op
    BY DEF FirmwareWrites, WriteDropped, Reconnect, ModemAdded, FirmwareSaves,
           ModemRemoved, CooldownExpires, hardware
  <2>2. connected' \in BOOLEAN /\ epoch' \in 1..MaxEpoch
    <3>1. CASE Reconnect
      BY <3>1, ConstantsAssumption DEF Reconnect, TypeOK, ConstantsAssumption
    <3>2. CASE UNCHANGED transport
      BY <3>2 DEF transport, TypeOK
    <3> QED
      BY <3>1, <3>2 DEF FirmwareWrites, WriteDropped, ModemAdded, FirmwareSaves,
                        ModemRemoved, CooldownExpires
  <2> QED
    BY <2>1, <2>2 DEF TypeOK
<1>5. TypeOK'
  BY <1>1, <1>2, <1>3, <1>4 DEF TypeOK
<1>6. Shapes'
  BY <1>1 DEF Shapes
<1>7. Placed'
  <2>1. \A o \in Op : /\ op[o].req.original \in 0..MaxGeneration
                      /\ op[o].replacement \in 0..MaxGeneration
                      /\ op[o].replacement # 0 => op[o].req.original # 0
    BY DEF TypeOK, OpRecord, Request, Shapes, Shape
  <2> QED
    BY <1>1, <1>2, <2>1, ConstantsAssumption
       DEF Placed, SlotOfOp, TypeOK, Generation, ConstantsAssumption
<1>8. \A o \in Op : Active(o)' <=> Active(o)
  BY <1>1 DEF Active
<1> QED
  BY <1>1, <1>2, <1>5, <1>6, <1>7, <1>8, SameHolders

\* Another kind of mutation starts or ends: the lock of one object passes
\* between "none" and "other".
LEMMA OtherMutationInv ==
    ASSUME Inv, NEW m \in Generation, OtherMutationStarts(m) \/ OtherMutationEnds(m)
    PROVE  Inv'
<1> USE DEF Inv
<1>1. /\ UNCHANGED <<nextGeneration, slotOf, live, cooling, op, nvm, staged, queued, written,
                     connected, epoch>>
      /\ \E k \in {"none", "other"} : kind' = [kind EXCEPT ![m] = k]
      /\ kind[m] # "l850"
  BY DEF OtherMutationStarts, OtherMutationEnds, bridge, hardware, transport
<1>2. TypeOK'
  BY <1>1 DEF TypeOK, Kinds
<1>3. Shapes' /\ Placed' /\ SlotExclusion'
  BY <1>1 DEF Shapes, Placed, SlotExclusion, SlotOfOp, Active
<1>4. LockOwned'
  BY <1>1 DEF LockOwned, TypeOK, Active, Held
<1> QED
  BY <1>2, <1>3, <1>4

\* The invariant is inductive.
LEMMA StepInv == Inv /\ [Next]_vars => Inv'
<1> SUFFICES ASSUME Inv, [Next]_vars PROVE Inv'
  OBVIOUS
<1>1. CASE UNCHANGED vars
  BY <1>1 DEF vars, Inv, TypeOK, Shapes, Placed, SlotExclusion, LockOwned, Active, Held, SlotOfOp
<1>2. ASSUME NEW o \in Op, Coordinator(o)
      PROVE  Inv'
  <2>1. CASE CommandReady(o) \/ Poll(o)
    BY <2>1, CallbackFootprint, CallbackInv DEF Inv
  <2> QED
    BY <1>2, <2>1, RequestInv, FlagsInv, EnvironmentInv DEF Coordinator
<1>3. CASE Environment
  BY <1>3, FlagsInv, EnvironmentInv, OtherMutationInv DEF Environment
<1> QED
  BY <1>1, <1>2, <1>3 DEF Next

(***************************************************************************)
(* Type correctness: every field of every operation, every lock and every  *)
(* slot keeps its type through all callbacks.                              *)
(***************************************************************************)
THEOREM TypeCorrect == Spec => []TypeOK
<1>1. Inv => TypeOK
  BY DEF Inv
<1> QED
  BY <1>1, InitInv, StepInv, PTL DEF Spec

(***************************************************************************)
(* Slot exclusion: however modem objects are removed and replaced, no two  *)
(* operations under way ever work on one hardware slot.                    *)
(***************************************************************************)
THEOREM ExclusionBySlot == Spec => []SlotExclusion
<1>1. Inv => SlotExclusion
  BY DEF Inv
<1> QED
  BY <1>1, InitInv, StepInv, PTL DEF Spec

(***************************************************************************)
(* Lock ownership: a modem object is marked busy for L850 exactly while an *)
(* operation under way holds it, so no completion path leaks the mutation  *)
(* lock or releases somebody else's.                                       *)
(***************************************************************************)
THEOREM LockIsOwned == Spec => []LockOwned
<1>1. Inv => LockOwned
  BY DEF Inv
<1> QED
  BY <1>1, InitInv, StepInv, PTL DEF Spec

(***************************************************************************)
(* Exactly one callback is pending for an operation under way, a command   *)
(* or a poll timer, and none for one that is not.                          *)
(***************************************************************************)
THEOREM CallbackPending == Spec => []OneCallbackPending
<1>1. Inv => OneCallbackPending
  <2> SUFFICES ASSUME Inv, NEW o \in Op
               PROVE  Active(o) <=> (op[o].pending # op[o].poll)
    BY DEF OneCallbackPending
  <2>1. /\ op[o].phase \in Phases
        /\ op[o].pending \in BOOLEAN /\ op[o].poll \in BOOLEAN
    BY DEF Inv, TypeOK, OpRecord
  <2> QED
    BY <2>1 DEF Inv, Shapes, Shape, Active, Phases, CommandPhases, NvmPhases, PollPhases
<1> QED
  BY <1>1, InitInv, StepInv, PTL DEF Spec

(***************************************************************************)
(* A cancellation sticks: an operation under way that timed out or lost    *)
(* its connection has a cancelled cancellable.                             *)
(***************************************************************************)
THEOREM CancellationSticks == Spec => []CancelSticks
<1>1. Inv => CancelSticks
  <2> SUFFICES ASSUME Inv, NEW o \in Op, Active(o),
                      op[o].stop.timedOut \/ op[o].stop.lost
               PROVE  op[o].stop.cancelled
    BY DEF CancelSticks
  <2>1. op[o].phase \in ActivePhases
    BY DEF Inv, TypeOK, OpRecord, Active, ActivePhases
  <2> QED
    BY <2>1 DEF Inv, Shapes, Shape
<1> QED
  BY <1>1, InitInv, StepInv, PTL DEF Spec

-----------------------------------------------------------------------------
(***************************************************************************)
(* What the coordinator promises about the modem and about its replies.    *)
(*                                                                         *)
(* The inductive invariant Safe, on top of the one above, ties each phase  *)
(* to the commands that were dispatched (Dispatched), to the connection    *)
(* that waits for the reply (Addressed) and to what the firmware holds     *)
(* (Saving).  Every callback either moves an operation on, having settled  *)
(* the writes queued before it, or ends it.                                *)
(***************************************************************************)
AfterReset == {"reset", "reprobe", "registration", "postNvm", "cell"}

\* The commands that an operation in each phase has dispatched, and what is
\* known of their effect.
Dispatched(o, r) ==
    /\ r.phase \in {"unused", "probe"} => ~r.sent.set
    /\ r.phase \in {"unused", "probe", "set", "preNvm"} => ~r.sent.reset
    /\ r.phase \in ActivePhases \ {"probe"} => r.sent.set
    /\ r.phase \in AfterReset => r.sent.reset
    /\ r.phase \in {"preNvm"} \cup AfterReset => r.sent.acked /\ o \in written
    /\ r.phase = "preNvm" /\ r.stage.matches > 0 => r.stage.lastRead = "match"

\* A request under way awaits its reply on the present connection, unless
\* its own was lost; a request answered was answered on its own.
Addressed(r) ==
    /\ r.phase \in ActivePhases => (r.deferred <=> ~r.stop.lost)
    /\ r.phase \in ActivePhases /\ ~r.stop.lost => connected /\ r.req.conn = epoch
    /\ r.phase = "done" => r.result.reply = IF r.stop.lost THEN 0 ELSE r.req.conn

\* An object has a slot from its admission on.
Admitted == \A m \in Generation : slotOf[m] \in Slot <=> m <= nextGeneration

\* Only dispatched writes reach the queue or the firmware.
Undispatched == \A o \in Op : ~op[o].sent.set => o \notin queued /\ o \notin written

\* The firmware holds what an operation under way has written, or has
\* fallen back on what it had saved.
Saving ==
    \A o \in Op : Active(o) /\ o \in written
        => staged[SlotOfOp(o)] \in {op[o].req.target, nvm[SlotOfOp(o)]}

Safe ==
    /\ Admitted
    /\ \A o \in Op : Dispatched(o, op[o]) /\ Addressed(op[o])
    /\ Undispatched /\ Saving
    /\ NoLateOverwrite /\ LockSurvivesReset /\ RetryableMeansUnwritten

-----------------------------------------------------------------------------
(* What a callback does to an operation.                                   *)

\* What the code has made sure of when it sends CFUN=15.
Barrier(o) ==
    /\ op[o].phase = "preNvm" /\ op[o].sent.acked /\ o \in written
    /\ op[o].stage.lastRead = "match"
    /\ nvm[SlotOfOp(o)] = op[o].req.target /\ op[o].req.original \in live

\* The operation goes on, its own write dispatched at the latest now and
\* the writes queued before it settled.
Moves(o) ==
    \E q \in OpRecord :
        /\ op' = [op EXCEPT ![o] = q]
        /\ q.phase \in ActivePhases \ {"probe"} /\ Dispatched(o, q)
        /\ q.req = op[o].req /\ q.stop.lost = op[o].stop.lost
        /\ q.deferred = op[o].deferred /\ q.result = op[o].result
        /\ q.sent.reset /\ ~op[o].sent.reset => Barrier(o)
        /\ queued' \subseteq queued \cup {o} /\ Flushed(o)

\* The operation ends; it is offered for a retry only if its write will
\* never be executed, and called verified only if NVM holds the lock.
Ends(o) ==
    \E q \in OpRecord :
        /\ op' = [op EXCEPT ![o] = q]
        /\ q.phase = "done"
        /\ q.req = op[o].req /\ q.stop.lost = op[o].stop.lost /\ q.sent = op[o].sent
        /\ q.result.reply = IF op[o].deferred /\ connected THEN epoch ELSE 0
        /\ q.result.retryable => o \notin written /\ o \notin queued'
        /\ q.result.state = "verified"
              => nvm[SlotOfOp(o)] = op[o].req.target /\ op[o].replacement \in live
        /\ queued' \subseteq queued

\* A fresh command leaves what was sent, read and asked alone.
LEMMA CommandKeeps ==
    ASSUME NEW r \in OpRecord
    PROVE  /\ Command(r).sent = r.sent /\ Command(r).stage = r.stage
           /\ Command(r).deferred = r.deferred /\ Command(r).result = r.result
BY DEF Command, OpRecord

\* So does the start of an NVM stage, which forgets the earlier reads.
LEMMA StartNvmVerificationKeeps ==
    ASSUME NEW r \in OpRecord, NEW p \in Phases
    PROVE  /\ StartNvmVerification(r, p).sent = r.sent
           /\ StartNvmVerification(r, p).stage = NoStage
           /\ StartNvmVerification(r, p).deferred = r.deferred
           /\ StartNvmVerification(r, p).result = r.result
<1> DEFINE q == [r EXCEPT !.phase = p, !.stage = NoStage]
<1>1. /\ q \in OpRecord /\ q.sent = r.sent /\ q.stage = NoStage
      /\ q.deferred = r.deferred /\ q.result = r.result
  BY NoStageType DEF OpRecord
<1> HIDE DEF q
<1>2. StartNvmVerification(r, p) = Command(q)
  BY DEF StartNvmVerification, q
<1> QED
  BY <1>1, <1>2, CommandKeeps

\* A completed operation carries its result and what it had sent.
LEMMA CompletedKeeps ==
    ASSUME NEW r \in OpRecord, NEW s, NEW c, NEW b
    PROVE  /\ Completed(r, s, c, b).sent = r.sent
           /\ Completed(r, s, c, b).stop.lost = r.stop.lost
           /\ Completed(r, s, c, b).result.state = s
           /\ Completed(r, s, c, b).result.retryable = b
           /\ Completed(r, s, c, b).result.reply =
                 IF r.deferred /\ connected THEN epoch ELSE 0
<1>1. [r.stop EXCEPT !.cancelled = FALSE].lost = r.stop.lost
  BY DEF OpRecord, Stop
<1>2. /\ Completed(r, s, c, b).sent = r.sent
      /\ Completed(r, s, c, b).stop = [r.stop EXCEPT !.cancelled = FALSE]
      /\ Completed(r, s, c, b).result =
            [state |-> s, code |-> c, retryable |-> b,
             reply |-> IF r.deferred /\ connected THEN epoch ELSE 0]
  BY DEF Completed, OpRecord
<1> QED
  BY <1>1, <1>2

\* A completion ends the operation with the result it is given.
LEMMA CompleteEnds ==
    ASSUME TypeOK, NEW o \in Op, NEW r \in OpRecord,
           r.req = op[o].req, r.sent = op[o].sent, r.stop = op[o].stop,
           r.deferred = op[o].deferred,
           NEW s \in States, NEW c \in Codes, NEW b \in BOOLEAN, Complete(o, r, s, c, b),
           b => o \notin written /\ o \notin queued',
           s = "verified" => nvm[SlotOfOp(o)] = op[o].req.target /\ op[o].replacement \in live,
           queued' \subseteq queued
    PROVE  Ends(o)
<1> DEFINE d == Completed(r, s, c, b)
<1>1. d \in OpRecord /\ d.phase = "done" /\ d.req = op[o].req
  BY CompletedType DEF TypeOK
<1>2. /\ d.sent = op[o].sent /\ d.stop.lost = op[o].stop.lost
      /\ d.result.state = s /\ d.result.retryable = b
      /\ d.result.reply = IF op[o].deferred /\ connected THEN epoch ELSE 0
  BY CompletedKeeps
<1>3. op' = [op EXCEPT ![o] = d]
  BY DEF Complete
<1> HIDE DEF d
<1> QED
  BY <1>1, <1>2, <1>3 DEF Ends

\* A failure that is neither retryable nor verified ends the operation.
LEMMA FailEnds ==
    ASSUME TypeOK, NEW o \in Op, NEW r \in OpRecord,
           r.req = op[o].req, r.sent = op[o].sent, r.stop = op[o].stop,
           r.deferred = op[o].deferred,
           NEW s \in States \ {"verified"}, NEW c \in Codes, Fail(o, r, s, c),
           queued' \subseteq queued
    PROVE  Ends(o)
BY CompleteEnds DEF Fail

\* The queue holds no other write for the slot of an operation that has
\* dispatched its own.
LEMMA DispatchedIsFlushed ==
    ASSUME Safe, NEW o \in Op, op[o].phase \in ActivePhases \ {"probe"}
    PROVE  Flushed(o)
<1>1. Active(o) /\ op[o].sent.set
  BY DEF Safe, Dispatched, Active, ActivePhases
<1> QED
  BY <1>1 DEF Safe, NoLateOverwrite, Flushed

\* No failure is reported as verified.
LEMMA FailureStates ==
    ASSUME NEW o \in Op
    PROVE  /\ \A s \in States \ {"verified"} : NvmFailureState(o, s) \in States \ {"verified"}
           /\ \A a : \A t, l \in BOOLEAN : Normalize(a, t, l)[1] \in States \ {"verified"}
<1>1. \A s \in States \ {"verified"} : NvmFailureState(o, s) \in States \ {"verified"}
  BY DEF NvmFailureState, States
<1>2. \A a : \A t, l \in BOOLEAN : Normalize(a, t, l)[1] \in States \ {"verified"}
  BY DEF Normalize, States
<1> QED
  BY <1>1, <1>2

\* The answer to the support probe: nothing has been sent before it.
LEMMA ProbeEnds ==
    ASSUME Inv, Safe, NEW o \in Op, NEW a, NEW attested \in BOOLEAN,
           NEW again \in BOOLEAN, ProbeReady(o, a, attested, again)
    PROVE  Moves(o) \/ Ends(o)
<1> USE DEF Inv
<1>1. /\ op[o] \in OpRecord /\ op[o].phase = "probe" /\ Active(o)
      /\ ~op[o].sent.set /\ ~op[o].sent.reset /\ o \notin queued /\ o \notin written
  BY DEF TypeOK, ProbeReady, Active, Safe, Dispatched, Undispatched
<1>2. {"device_gone", "unsupported_protocol"} \subseteq States \ {"verified"}
  BY DEF States
<1>3. CASE \E s \in {"device_gone", "unsupported_protocol"} :
              Fail(o, op[o], s, s) /\ UNCHANGED queued
  BY <1>1, <1>2, <1>3, FailEnds, StatesAreCodes
<1>4. CASE /\ LET n == Normalize(a, op[o].stop.timedOut, op[o].stop.lost)
              IN  Complete(o, op[o], n[1], n[1], n[2])
           /\ UNCHANGED queued
  <2>1. op[o].stop.timedOut \in BOOLEAN /\ op[o].stop.lost \in BOOLEAN
    BY <1>1 DEF OpRecord, Stop
  <2> DEFINE n == Normalize(a, op[o].stop.timedOut, op[o].stop.lost)
  <2>2. n[1] \in States \ {"verified"} /\ n[2] \in BOOLEAN
    BY <2>1, NormalizeType, FailureStates
  <2>3. Complete(o, op[o], n[1], n[1], n[2])
    BY <1>4
  <2> HIDE DEF n
  <2> QED
    BY <1>1, <1>4, <2>2, <2>3, StatesAreCodes, CompleteEnds
<1>5. CASE /\ a = "ok" /\ Flushed(o)
           /\ Advance(o, Command([op[o] EXCEPT !.phase = "set",
                                               !.sent = [@ EXCEPT !.set = TRUE]]))
           /\ queued' = queued \cup {o}
  <2> DEFINE t == [op[o].sent EXCEPT !.set = TRUE]
             q == [op[o] EXCEPT !.phase = "set", !.sent = t]
  <2>1. t \in Sent /\ t.set /\ ~t.reset
    BY <1>1 DEF OpRecord, Sent
  <2>2. op' = [op EXCEPT ![o] = Command(q)]
    BY <1>5 DEF Advance
  <2> HIDE DEF t
  <2>3. /\ q \in OpRecord /\ q.phase = "set" /\ q.req = op[o].req /\ q.stop = op[o].stop
        /\ q.sent = t /\ q.deferred = op[o].deferred /\ q.result = op[o].result
    BY <1>1, <2>1 DEF OpRecord, Phases
  <2> HIDE DEF q
  <2>4. Dispatched(o, Command(q))
    BY <2>1, <2>3, CommandType, CommandKeeps DEF Dispatched, ActivePhases, AfterReset
  <2> QED
    BY <1>1, <1>5, <2>1, <2>2, <2>3, <2>4, CommandType, CommandKeeps
       DEF Moves, ActivePhases, Phases
<1> QED
  BY <1>3, <1>4, <1>5 DEF ProbeReady, DispatchSet

\* The answer to the write: a refusal that may be retried comes from a
\* ModemManager that will not execute it.
LEMMA SetEnds ==
    ASSUME Inv, Safe, NEW o \in Op, NEW a, SetReady(o, a)
    PROVE  Moves(o) \/ Ends(o)
<1> USE DEF Inv
<1>1. /\ op[o] \in OpRecord /\ op[o].phase = "set" /\ Active(o) /\ a \in Answers(o)
      /\ op[o].sent.set /\ ~op[o].sent.reset /\ SetAnswerPossible(o, a)
      /\ queued' \subseteq queued /\ Flushed(o)
  <2>1. op[o].phase \in ActivePhases \ {"probe"}
    BY DEF SetReady, ActivePhases, Phases
  <2> QED
    BY <2>1, DispatchedIsFlushed DEF TypeOK, SetReady, Active, Safe, Dispatched
<1>2. {"outcome_unknown", "malformed_response"} \subseteq States \ {"verified"}
  BY DEF States
<1>3. CASE \E s \in {"outcome_unknown", "malformed_response"} : Fail(o, op[o], s, s)
  BY <1>1, <1>2, <1>3, FailEnds, StatesAreCodes
<1>4. CASE /\ ~Uncertain(o, a) /\ IsError(a)
           /\ LET n == Normalize(a, FALSE, FALSE)
              IN  Complete(o, op[o], n[1],
                           IF n[1] = "unavailable" THEN "operation_failed" ELSE n[1], n[2])
  <2> DEFINE n == Normalize(a, FALSE, FALSE)
             c == IF n[1] = "unavailable" THEN "operation_failed" ELSE n[1]
  <2>1. n[1] \in States \ {"verified"} /\ n[2] \in BOOLEAN
    BY NormalizeType, FailureStates
  <2>2. c \in Codes
    BY <2>1 DEF Codes
  <2>3. n[2] => a = "busy"
    BY <1>4 DEF Normalize, Uncertain
  <2>4. n[2] => o \notin written /\ o \notin queued'
    BY <2>3 DEF SetReady, SetAnswerPossible
  <2>5. Complete(o, op[o], n[1], c, n[2])
    BY <1>4
  <2> HIDE DEF n, c
  <2> QED
    BY <1>1, <2>1, <2>2, <2>4, <2>5, CompleteEnds
<1>5. CASE /\ a = "ok"
           /\ Advance(o, StartNvmVerification([op[o] EXCEPT !.sent = [@ EXCEPT !.acked = TRUE]],
                                              "preNvm"))
  <2> DEFINE t == [op[o].sent EXCEPT !.acked = TRUE]
             q == [op[o] EXCEPT !.sent = t]
             n == StartNvmVerification(q, "preNvm")
  <2>1. t \in Sent /\ t.set /\ t.acked /\ ~t.reset
    BY <1>1 DEF OpRecord, Sent
  <2>2. op' = [op EXCEPT ![o] = n]
    BY <1>5 DEF Advance
  <2> HIDE DEF t
  <2>3. /\ q \in OpRecord /\ q.req = op[o].req /\ q.stop = op[o].stop
        /\ q.sent = t /\ q.deferred = op[o].deferred /\ q.result = op[o].result
    BY <1>1, <2>1 DEF OpRecord
  <2> HIDE DEF q
  <2>4. /\ n \in OpRecord /\ n.phase = "preNvm" /\ n.req = op[o].req /\ n.sent = t
        /\ n.stop.lost = op[o].stop.lost /\ n.deferred = op[o].deferred
        /\ n.result = op[o].result /\ n.stage = NoStage
    <3>1. "preNvm" \in Phases
      BY DEF Phases
    <3> QED
      BY <2>3, <3>1, StartNvmVerificationType, StartNvmVerificationKeeps
  <2> HIDE DEF n
  <2>5. o \in written /\ NoStage.matches = 0
    BY <1>1, <1>5 DEF SetAnswerPossible, NoStage
  <2>6. Dispatched(o, n)
    BY <2>1, <2>4, <2>5 DEF Dispatched, ActivePhases, AfterReset
  <2> QED
    BY <1>1, <2>1, <2>2, <2>4, <2>6 DEF Moves, ActivePhases, Phases
<1> QED
  BY <1>3, <1>4, <1>5 DEF SetReady

\* What follows a well-formed NVM read: the reset is sent on the second
\* matching read in a row, to a live object.
LEMMA NvmObservedEnds ==
    ASSUME Inv, Safe, NEW o \in Op, op[o].phase \in NvmPhases, UNCHANGED queued,
           NEW match \in BOOLEAN, match => nvm[SlotOfOp(o)] = op[o].req.target,
           op[o].phase = "postNvm" => op[o].replacement \in live,
           NEW again \in BOOLEAN, NvmObserved(o, match, again)
    PROVE  Moves(o) \/ Ends(o)
<1> USE DEF Inv
<1>1. /\ op[o] \in OpRecord /\ Active(o) /\ Dispatched(o, op[o])
      /\ op[o].phase \in ActivePhases \ {"probe"} /\ Flushed(o)
  <2>1. op[o].phase \in ActivePhases \ {"probe"}
    BY DEF NvmPhases, ActivePhases, Phases
  <2> QED
    BY <2>1, DispatchedIsFlushed DEF TypeOK, Active, ActivePhases, Safe
<1> DEFINE m == ObservedMatches(op[o], match)
           g == [expired |-> op[o].stage.expired, matches |-> m,
                 lastRead |-> IF match THEN "match" ELSE "mismatch"]
           r == [op[o] EXCEPT !.pending = FALSE, !.stage = g]
<1>2. m \in 0..2
  BY <1>1, ObservedMatchesType
<1>3. m > 0 => match
  BY DEF ObservedMatches
<1>4. op[o].phase = "preNvm" /\ match /\ m >= 2 => op[o].stage.matches > 0
  <2>1. op[o].stage.matches \in 0..2
    BY <1>1 DEF OpRecord, Stage
  <2> QED
    BY <2>1 DEF ObservedMatches, RequiredMatches
<1>5. \/ Fail(o, r, NvmFailureState(o, "verification_mismatch"), "verification_mismatch")
      \/ Advance(o, [r EXCEPT !.poll = TRUE])
      \/ op[o].phase = "preNvm" /\ match /\ m >= 2 /\ StartReset(o, r, again)
      \/ op[o].phase = "postNvm" /\ match /\ Complete(o, r, "verified", "none", FALSE)
      \/ op[o].phase = "postNvm" /\ Advance(o, Command([r EXCEPT !.phase = "cell"]))
  BY DEF NvmObserved, RequiredMatches
<1> HIDE DEF m
<1>6. g \in Stage /\ (g.matches > 0 => g.lastRead = "match")
  BY <1>1, <1>2, <1>3 DEF OpRecord, Stage
<1> HIDE DEF g
<1>7. /\ r \in OpRecord /\ r.phase = op[o].phase /\ r.req = op[o].req /\ r.stage = g
      /\ r.stop = op[o].stop /\ r.sent = op[o].sent /\ r.deferred = op[o].deferred
      /\ r.result = op[o].result
  BY <1>1, <1>6 DEF OpRecord
<1> HIDE DEF r
<1>8. /\ {"verification_mismatch", "lock_applied_reset_required", "device_gone", "none"}
            \subseteq States \ {"verified"}
      /\ "verified" \in States
  BY DEF States
<1>9. CASE Fail(o, r, NvmFailureState(o, "verification_mismatch"), "verification_mismatch")
  BY <1>7, <1>8, <1>9, FailureStates, FailEnds, StatesAreCodes
<1>10. CASE Advance(o, [r EXCEPT !.poll = TRUE])
  <2> DEFINE q == [r EXCEPT !.poll = TRUE]
  <2>1. /\ q \in OpRecord /\ q.phase = op[o].phase /\ q.req = op[o].req /\ q.stage = g
        /\ q.stop = op[o].stop /\ q.sent = op[o].sent /\ q.deferred = op[o].deferred
        /\ q.result = op[o].result
    BY <1>7 DEF OpRecord
  <2>2. op' = [op EXCEPT ![o] = q]
    BY <1>10 DEF Advance
  <2> HIDE DEF q
  <2>3. Dispatched(o, q)
    BY <1>1, <1>6, <2>1 DEF Dispatched
  <2> QED
    BY <1>1, <2>1, <2>2, <2>3 DEF Moves
<1>11. CASE op[o].phase = "preNvm" /\ match /\ m >= 2 /\ StartReset(o, r, again)
  <2>1. CASE Fail(o, r, "lock_applied_reset_required", "device_gone")
    BY <1>7, <1>8, <2>1, FailEnds, StatesAreCodes
  <2>2. CASE /\ OriginalIsValid(o, again)
             /\ Advance(o, Command([r EXCEPT !.phase = "reset",
                                 !.sent = [@ EXCEPT !.reset = TRUE,
                                                    !.resetAt = nextGeneration]]))
    <3> DEFINE t == [r.sent EXCEPT !.reset = TRUE, !.resetAt = nextGeneration]
               q == [r EXCEPT !.phase = "reset", !.sent = t]
    <3>1. t \in Sent /\ t.reset /\ t.set = op[o].sent.set /\ t.acked = op[o].sent.acked
      BY <1>1, <1>7 DEF OpRecord, Sent, TypeOK
    <3>2. op' = [op EXCEPT ![o] = Command(q)]
      BY <2>2 DEF Advance
    <3> HIDE DEF t
    <3>3. /\ q \in OpRecord /\ q.phase = "reset" /\ q.req = op[o].req /\ q.stop = op[o].stop
          /\ q.sent = t /\ q.deferred = op[o].deferred /\ q.result = op[o].result
      BY <1>7, <3>1 DEF OpRecord, Phases
    <3> HIDE DEF q
    <3>4. Barrier(o)
      BY <1>1, <1>4, <1>11, <2>2 DEF Barrier, Dispatched, OriginalIsValid
    <3>5. Dispatched(o, Command(q))
      BY <1>1, <1>11, <3>1, <3>3, CommandType, CommandKeeps DEF Dispatched, ActivePhases
    <3> QED
      BY <1>1, <3>2, <3>3, <3>4, <3>5, CommandType, CommandKeeps DEF Moves, ActivePhases, Phases
  <2> QED
    BY <1>11, <2>1, <2>2 DEF StartReset
<1>12. CASE op[o].phase = "postNvm" /\ match /\ Complete(o, r, "verified", "none", FALSE)
  BY <1>7, <1>8, <1>12, CompleteEnds, StatesAreCodes
<1>13. CASE op[o].phase = "postNvm" /\ Advance(o, Command([r EXCEPT !.phase = "cell"]))
  <2> DEFINE q == [r EXCEPT !.phase = "cell"]
  <2>1. /\ q \in OpRecord /\ q.phase = "cell" /\ q.req = op[o].req /\ q.stop = op[o].stop
        /\ q.sent = op[o].sent /\ q.deferred = op[o].deferred /\ q.result = op[o].result
    BY <1>7 DEF OpRecord, Phases
  <2>2. op' = [op EXCEPT ![o] = Command(q)]
    BY <1>13 DEF Advance
  <2> HIDE DEF q
  <2>3. Dispatched(o, Command(q))
    BY <1>1, <1>13, <2>1, CommandType, CommandKeeps DEF Dispatched, AfterReset
  <2> QED
    BY <1>1, <1>13, <2>1, <2>2, <2>3, CommandType, CommandKeeps DEF Moves, ActivePhases, Phases
<1> QED
  BY <1>5, <1>9, <1>10, <1>11, <1>12, <1>13

\* The answer to a read of the NVM.
LEMMA NvmEnds ==
    ASSUME Inv, Safe, NEW o \in Op, NEW a, NEW attested \in BOOLEAN,
           NEW again \in BOOLEAN, NvmReady(o, a, attested, again)
    PROVE  Moves(o) \/ Ends(o)
<1>1. op[o] \in OpRecord /\ op[o].phase \in NvmPhases /\ UNCHANGED queued /\ TypeOK
  BY DEF Inv, TypeOK, NvmReady, NvmPhases, hardware
<1>2. {"outcome_unknown", "verification_mismatch", "malformed_response"}
         \subseteq States \ {"verified"}
  BY DEF States
<1>3. CASE \E s, c \in States \ {"verified"} : Fail(o, op[o], NvmFailureState(o, s), c)
  BY <1>1, <1>3, FailureStates, StatesAreCodes, FailEnds
<1>4. CASE /\ NvmTargetIsValid(o, attested)
           /\ NvmObserved(o, nvm[SlotOfOp(o)] = op[o].req.target, again)
  <2>1. op[o].phase = "postNvm" => op[o].replacement \in live
    BY <1>4 DEF NvmTargetIsValid, ReplacementIsValid
  <2> QED
    BY <1>1, <1>4, <2>1, NvmObservedEnds
<1> QED
  BY <1>2, <1>3, <1>4 DEF NvmReady

\* The answer to the reset.
LEMMA ResetEnds ==
    ASSUME Inv, Safe, NEW o \in Op, NEW a, ResetReady(o, a)
    PROVE  Moves(o) \/ Ends(o)
<1>1. /\ op[o] \in OpRecord /\ op[o].phase = "reset" /\ UNCHANGED queued /\ TypeOK
      /\ Dispatched(o, op[o]) /\ Flushed(o)
  <2>1. op[o].phase = "reset" /\ op[o].phase \in ActivePhases \ {"probe"}
    BY DEF ResetReady, ActivePhases, Phases
  <2> QED
    BY <2>1, DispatchedIsFlushed DEF Inv, TypeOK, ResetReady, hardware, Safe
<1>2. {"outcome_unknown", "lock_applied_reset_required"} \subseteq States \ {"verified"}
  BY DEF States
<1>3. CASE \E s, c \in States \ {"verified"} : Fail(o, op[o], s, c)
  BY <1>1, <1>3, StatesAreCodes, FailEnds
<1>4. CASE Advance(o, [op[o] EXCEPT !.phase = "reprobe", !.stage = NoStage,
                                    !.pending = FALSE, !.poll = TRUE,
                                    !.stop = [@ EXCEPT !.cancelled = FALSE]])
  <2> DEFINE t == [op[o].stop EXCEPT !.cancelled = FALSE]
             q == [op[o] EXCEPT !.phase = "reprobe", !.stage = NoStage,
                                !.pending = FALSE, !.poll = TRUE, !.stop = t]
  <2>1. t \in Stop /\ t.lost = op[o].stop.lost
    BY <1>1 DEF OpRecord, Stop
  <2>2. op' = [op EXCEPT ![o] = q]
    BY <1>4 DEF Advance
  <2> HIDE DEF t
  <2>3. /\ q \in OpRecord /\ q.phase = "reprobe" /\ q.req = op[o].req /\ q.stop = t
        /\ q.sent = op[o].sent /\ q.deferred = op[o].deferred /\ q.result = op[o].result
    BY <1>1, <2>1, NoStageType DEF OpRecord, Phases
  <2> HIDE DEF q
  <2>4. q.phase \in ActivePhases \ {"probe"} /\ Dispatched(o, q)
    BY <1>1, <2>3 DEF Dispatched, AfterReset, ActivePhases, Phases
  <2> QED
    BY <1>1, <2>1, <2>2, <2>3, <2>4 DEF Moves
<1>5. \A b \in {"busy", "refused"} : Normalize(b, FALSE, FALSE)[1] \in States \ {"verified"}
  BY FailureStates
<1> QED
  BY <1>2, <1>3, <1>4, <1>5 DEF ResetReady

\* The answer to the query of the serving cell: the reset barrier still
\* holds when it calls the lock verified.
LEMMA CellEnds ==
    ASSUME Inv, Safe, NEW o \in Op, NEW a, NEW attested, NEW serves,
           CellReady(o, a, attested, serves)
    PROVE  Moves(o) \/ Ends(o)
<1>1. /\ op[o] \in OpRecord /\ op[o].phase = "cell" /\ UNCHANGED queued /\ TypeOK
      /\ Active(o) /\ op[o].sent.reset
  BY DEF Inv, TypeOK, CellReady, hardware, Active, Safe, Dispatched, AfterReset
<1>2. /\ {"outcome_unknown", "verification_mismatch", "none"} \subseteq States \ {"verified"}
      /\ "verified" \in States
  BY DEF States
<1>3. CASE \E s, c \in States \ {"verified"} : Fail(o, op[o], s, c)
  BY <1>1, <1>3, StatesAreCodes, FailEnds
<1>4. CASE ReplacementIsValid(o, attested) /\ Complete(o, op[o], "verified", "none", FALSE)
  <2>1. nvm[SlotOfOp(o)] = op[o].req.target /\ op[o].replacement \in live
    BY <1>1, <1>4 DEF Safe, LockSurvivesReset, ReplacementIsValid
  <2> QED
    BY <1>1, <1>2, <1>4, <2>1, StatesAreCodes, CompleteEnds
<1> QED
  BY <1>2, <1>3, <1>4 DEF CellReady

\* A command or a stage that starts from a poll changes nothing that was
\* sent.
LEMMA PolledMoves ==
    ASSUME Inv, Safe, NEW o \in Op, op[o].phase \in ActivePhases \ {"probe"},
           NEW q \in OpRecord, op' = [op EXCEPT ![o] = q], UNCHANGED queued,
           q.req = op[o].req, q.stop.lost = op[o].stop.lost, q.sent = op[o].sent,
           q.deferred = op[o].deferred, q.result = op[o].result,
           \/ q.phase = op[o].phase /\ q.stage = op[o].stage
           \/ op[o].phase \in AfterReset /\ q.phase \in AfterReset
    PROVE  Moves(o)
<1>1. Dispatched(o, op[o]) /\ Flushed(o) /\ AfterReset \subseteq ActivePhases \ {"probe"}
  BY DispatchedIsFlushed DEF Safe, AfterReset, ActivePhases, Phases
<1>2. Dispatched(o, q)
  BY <1>1 DEF Dispatched, AfterReset
<1> QED
  BY <1>1, <1>2 DEF Moves

\* The poll timers.
LEMMA PollEnds ==
    ASSUME Inv, Safe, NEW o \in Op, Poll(o)
    PROVE  Moves(o) \/ Ends(o)
<1>1. op[o] \in OpRecord /\ UNCHANGED queued /\ TypeOK
  BY DEF Inv, TypeOK, Poll, PollCancelled, PollNvm, PollReprobe, PollRegistration, hardware
<1>2. {"outcome_unknown", "verification_mismatch", "busy", "reprobe_timeout",
       "registration_timeout"} \subseteq States \ {"verified"}
  BY DEF States
<1>3. CASE \E s, c \in States \ {"verified"} :
              Fail(o, op[o], s, c) \/ Fail(o, op[o], NvmFailureState(o, s), c)
  BY <1>1, <1>3, FailureStates, StatesAreCodes, FailEnds
<1>4. CASE op[o].phase \in {"preNvm", "postNvm"} /\ Advance(o, Command(op[o]))
  <2>1. op[o].phase \in ActivePhases \ {"probe"}
    BY <1>4 DEF ActivePhases, Phases
  <2> QED
    BY <1>1, <1>4, <2>1, CommandType, CommandKeeps, PolledMoves DEF Advance
<1>5. CASE op[o].phase = "registration" /\ Advance(o, StartNvmVerification(op[o], "postNvm"))
  <2>1. op[o].phase \in ActivePhases \ {"probe"} /\ "postNvm" \in Phases
    BY <1>5 DEF ActivePhases, Phases
  <2>2. op[o].phase \in AfterReset /\ "postNvm" \in AfterReset
    BY <1>5 DEF AfterReset
  <2> QED
    BY <1>1, <1>5, <2>1, <2>2, StartNvmVerificationType, StartNvmVerificationKeeps, PolledMoves
       DEF Advance
<1>6. ASSUME op[o].phase = "reprobe", NEW m \in Generation, NEW registered \in BOOLEAN,
             Adopt(o, m, registered)
      PROVE  Moves(o)
  <2> DEFINE r == [op[o] EXCEPT !.replacement = m, !.phase = "registration", !.stage = NoStage]
             p == [r EXCEPT !.poll = TRUE]
             n == StartNvmVerification(r, "postNvm")
             q == IF registered THEN n ELSE p
  <2>1. op' = [op EXCEPT ![o] = q]
    BY <1>6 DEF Adopt
  <2>2. m \in 0..MaxGeneration /\ "postNvm" \in Phases
    BY ConstantsAssumption DEF Generation, ConstantsAssumption, Phases
  <2>3. /\ r \in OpRecord /\ r.phase = "registration" /\ r.req = op[o].req
        /\ r.stop = op[o].stop /\ r.sent = op[o].sent
        /\ r.deferred = op[o].deferred /\ r.result = op[o].result
    BY <1>1, <2>2, NoStageType DEF OpRecord, Phases
  <2> HIDE DEF r
  <2>4. /\ p \in OpRecord /\ p.phase = "registration" /\ p.req = op[o].req
        /\ p.stop.lost = op[o].stop.lost /\ p.sent = op[o].sent
        /\ p.deferred = op[o].deferred /\ p.result = op[o].result
    BY <2>3 DEF OpRecord
  <2>5. /\ n \in OpRecord /\ n.phase = "postNvm" /\ n.req = op[o].req
        /\ n.stop.lost = op[o].stop.lost /\ n.sent = op[o].sent
        /\ n.deferred = op[o].deferred /\ n.result = op[o].result
    BY <2>2, <2>3, StartNvmVerificationType, StartNvmVerificationKeeps
  <2> HIDE DEF p, n
  <2>6. /\ q \in OpRecord /\ q.phase \in AfterReset /\ q.req = op[o].req
        /\ q.stop.lost = op[o].stop.lost /\ q.sent = op[o].sent
        /\ q.deferred = op[o].deferred /\ q.result = op[o].result
    BY <2>4, <2>5 DEF AfterReset
  <2> HIDE DEF q
  <2>7. op[o].phase \in ActivePhases \ {"probe"} /\ op[o].phase \in AfterReset
    BY <1>6 DEF ActivePhases, Phases, AfterReset
  <2> QED
    BY <1>1, <2>1, <2>6, <2>7, PolledMoves
<1>7. CASE PollCancelled(o)
  BY <1>2, <1>3, <1>7 DEF PollCancelled
<1>8. ASSUME NEW attested \in BOOLEAN, PollNvm(o, attested)
      PROVE  Moves(o) \/ Ends(o)
  BY <1>2, <1>3, <1>4, <1>8 DEF PollNvm, Polling
<1>9. ASSUME NEW attested \in BOOLEAN, NEW registered \in BOOLEAN,
             PollRegistration(o, attested, registered)
      PROVE  Moves(o) \/ Ends(o)
  BY <1>2, <1>3, <1>5, <1>9 DEF PollRegistration, Polling
<1>10. ASSUME NEW attested \in SUBSET Generation, NEW registered \in BOOLEAN,
              PollReprobe(o, attested, registered)
       PROVE  Moves(o) \/ Ends(o)
  BY <1>2, <1>3, <1>6, <1>10 DEF PollReprobe, Polling
<1> QED
  BY <1>7, <1>8, <1>9, <1>10 DEF Poll

\* Every callback moves its operation on or ends it.
LEMMA CallbackEnds ==
    ASSUME Inv, Safe, NEW o \in Op, CommandReady(o) \/ Poll(o)
    PROVE  Moves(o) \/ Ends(o)
BY ProbeEnds, SetEnds, NvmEnds, ResetEnds, CellEnds, PollEnds DEF CommandReady

-----------------------------------------------------------------------------
(* The invariant is preserved.                                             *)

\* A request that was made is about an admitted object, which has a slot.
LEMMA WorkedSlot ==
    ASSUME Inv, Admitted, NEW o \in Op, op[o].phase # "unused"
    PROVE  /\ op[o].req.original \in Generation /\ op[o].req.original <= nextGeneration
           /\ SlotOfOp(o) \in Slot
<1>1. op[o].req.original # 0 /\ op[o].req.original <= nextGeneration
  BY DEF Inv, Shapes, Shape, Placed
<1>2. op[o].req.original \in 0..MaxGeneration
  BY DEF Inv, TypeOK, OpRecord, Request
<1>3. op[o].req.original \in Generation
  BY <1>1, <1>2, ConstantsAssumption DEF Generation, ConstantsAssumption
<1> QED
  BY <1>1, <1>3 DEF Admitted, SlotOfOp

\* The invariant holds when the bridge starts.
LEMMA InitSafe == Init => Safe
<1> SUFFICES ASSUME Init PROVE Safe
  OBVIOUS
<1> DEFINE n == NewOp(Clear, 0, 0)
<1>1. /\ n \in OpRecord /\ n.sent = NothingSent
  BY NewOpType, ConstantsAssumption DEF ConstantsAssumption, NewOp
<1> HIDE DEF n
<1>2. NoOp.sent = NothingSent
  BY <1>1 DEF NoOp, n, OpRecord
<1>3. \A o \in Op : op[o].phase = "unused" /\ ~op[o].sent.set /\ ~op[o].sent.reset
  <2>1. ~NothingSent.set /\ ~NothingSent.reset
    BY DEF NothingSent
  <2>2. \A o \in Op : op[o] = NoOp
    BY DEF Init
  <2> QED
    BY <1>2, <2>1, <2>2, NoOpType
<1>4. Admitted
  BY ConstantsAssumption DEF Admitted, Init, ConstantsAssumption, Generation
<1>5. \A o \in Op : Dispatched(o, op[o]) /\ Addressed(op[o])
  BY <1>3 DEF Dispatched, Addressed, ActivePhases, AfterReset
<1> QED
  BY <1>3, <1>4, <1>5 DEF Safe, Undispatched, Saving, NoLateOverwrite, LockSurvivesReset,
                         RetryableMeansUnwritten, Active, Init

\* A callback that moves its operation on.
LEMMA MovesSafe ==
    ASSUME Inv, Safe, NEW o \in Op, Callback(o), Moves(o)
    PROVE  Safe'
<1> USE DEF Inv, Safe
<1>1. /\ UNCHANGED <<nextGeneration, slotOf, live, nvm, staged, written, connected, epoch>>
      /\ Active(o)
  BY DEF Callback, bridge, transport
<1>2. PICK q \in OpRecord :
        /\ op' = [op EXCEPT ![o] = q]
        /\ q.phase \in ActivePhases \ {"probe"} /\ Dispatched(o, q)
        /\ q.req = op[o].req /\ q.stop.lost = op[o].stop.lost
        /\ q.deferred = op[o].deferred /\ q.result = op[o].result
        /\ q.sent.reset /\ ~op[o].sent.reset => Barrier(o)
        /\ queued' \subseteq queued \cup {o} /\ Flushed(o)
  BY DEF Moves
<1>3. op'[o] = q /\ \A p \in Op : p # o => op'[p] = op[p]
  BY <1>2 DEF TypeOK
<1>4. /\ Active(o)' /\ \A p \in Op : SlotOfOp(p)' = SlotOfOp(p)
      /\ \A p \in Op : p # o => (Active(p)' <=> Active(p))
  BY <1>1, <1>2, <1>3 DEF Active, SlotOfOp, ActivePhases
<1>5. Admitted'
  BY <1>1 DEF Admitted
<1>6. \A p \in Op : (Dispatched(p, op[p]) /\ Addressed(op[p]))'
  <2>1. Addressed(q)'
    BY <1>1, <1>2 DEF Addressed, Active, ActivePhases, TypeOK, OpRecord
  <2>2. Dispatched(o, q)'
    BY <1>1, <1>2 DEF Dispatched
  <2>3. ASSUME NEW p \in Op, p # o
        PROVE  (Dispatched(p, op[p]) /\ Addressed(op[p]))'
    BY <1>1, <1>3, <2>3 DEF Dispatched, Addressed
  <2> QED
    BY <1>3, <2>1, <2>2, <2>3
<1>7. Undispatched'
  BY <1>1, <1>2, <1>3 DEF Undispatched, Dispatched
<1>8. Saving'
  BY <1>1, <1>2, <1>3, <1>4 DEF Saving
<1>9. NoLateOverwrite'
  <2> SUFFICES ASSUME NEW x \in Op, NEW p \in queued', Active(x)', op'[x].sent.set, p # x
               PROVE  SlotOfOp(p) # SlotOfOp(x)
    BY <1>2, <1>4 DEF NoLateOverwrite, TypeOK
  <2>1. CASE x = o
    BY <1>2, <2>1 DEF Flushed
  <2>2. CASE x # o /\ p = o
    BY <1>1, <1>4, <2>2 DEF SlotExclusion
  <2>3. CASE x # o /\ p # o
    BY <1>2, <1>3, <1>4, <2>3 DEF NoLateOverwrite
  <2> QED
    BY <2>1, <2>2, <2>3
<1>10. LockSurvivesReset'
  <2>1. q.sent.reset => /\ nvm[SlotOfOp(o)] = op[o].req.target
                        /\ staged[SlotOfOp(o)] = op[o].req.target
    BY <1>1, <1>2 DEF LockSurvivesReset, Barrier, Saving
  <2> QED
    BY <1>1, <1>2, <1>3, <1>4, <2>1 DEF LockSurvivesReset
<1>11. RetryableMeansUnwritten'
  BY <1>1, <1>2, <1>3 DEF RetryableMeansUnwritten, ActivePhases
<1> QED
  BY <1>5, <1>6, <1>7, <1>8, <1>9, <1>10, <1>11

\* A callback that ends its operation.
LEMMA EndsSafe ==
    ASSUME Inv, Safe, NEW o \in Op, Callback(o), Ends(o)
    PROVE  Safe'
<1> USE DEF Inv, Safe
<1>1. /\ UNCHANGED <<nextGeneration, slotOf, live, nvm, staged, written, connected, epoch>>
      /\ Active(o)
  BY DEF Callback, bridge, transport
<1>2. PICK q \in OpRecord :
        /\ op' = [op EXCEPT ![o] = q]
        /\ q.phase = "done"
        /\ q.req = op[o].req /\ q.stop.lost = op[o].stop.lost /\ q.sent = op[o].sent
        /\ q.result.reply = IF op[o].deferred /\ connected THEN epoch ELSE 0
        /\ q.result.retryable => o \notin written /\ o \notin queued'
        /\ queued' \subseteq queued
  BY DEF Ends
<1>3. op'[o] = q /\ \A p \in Op : p # o => op'[p] = op[p]
  BY <1>2 DEF TypeOK
<1>4. /\ ~Active(o)' /\ \A p \in Op : SlotOfOp(p)' = SlotOfOp(p)
      /\ \A p \in Op : p # o => (Active(p)' <=> Active(p))
  BY <1>1, <1>2, <1>3 DEF Active, SlotOfOp
<1>5. Admitted'
  BY <1>1 DEF Admitted
<1>6. \A p \in Op : (Dispatched(p, op[p]) /\ Addressed(op[p]))'
  <2>1. op[o].phase \in ActivePhases
    BY <1>1 DEF Active, ActivePhases, TypeOK, OpRecord
  <2>2. q.result.reply = IF q.stop.lost THEN 0 ELSE q.req.conn
    BY <1>2, <2>1 DEF Addressed
  <2>3. Addressed(q)' /\ Dispatched(o, q)'
    BY <1>2, <2>2 DEF Addressed, Dispatched, ActivePhases, AfterReset
  <2>4. ASSUME NEW p \in Op, p # o
        PROVE  (Dispatched(p, op[p]) /\ Addressed(op[p]))'
    BY <1>1, <1>3, <2>4 DEF Dispatched, Addressed
  <2> QED
    BY <1>3, <2>3, <2>4
<1>7. Undispatched'
  BY <1>1, <1>2, <1>3 DEF Undispatched
<1>8. Saving'
  BY <1>1, <1>2, <1>3, <1>4 DEF Saving
<1>9. NoLateOverwrite'
  BY <1>2, <1>3, <1>4 DEF NoLateOverwrite, TypeOK
<1>10. LockSurvivesReset'
  BY <1>1, <1>3, <1>4 DEF LockSurvivesReset
<1>11. RetryableMeansUnwritten'
  BY <1>1, <1>2, <1>3 DEF RetryableMeansUnwritten
<1> QED
  BY <1>5, <1>6, <1>7, <1>8, <1>9, <1>10, <1>11

\* An admitted request has sent nothing, and awaits its reply on the
\* connection it came on.
LEMMA RequestSafe ==
    ASSUME Inv, Safe, NEW o \in Op, NEW m \in Generation, NEW target \in Lock,
           RequestLock(o, m, target)
    PROVE  Safe'
<1> USE DEF Inv, Safe
<1> DEFINE n == NewOp(target, m, epoch)
<1>0. /\ n.phase = "probe" /\ n.deferred /\ n.req.conn = epoch /\ ~n.stop.lost
      /\ ~n.sent.set /\ ~n.sent.reset /\ op' = [op EXCEPT ![o] = n]
  BY DEF NewOp, NoStop, NothingSent, RequestLock
<1> HIDE DEF n
<1>1. PICK r : /\ r.phase = "probe" /\ r.deferred /\ r.req.conn = epoch /\ ~r.stop.lost
               /\ ~r.sent.set /\ ~r.sent.reset /\ op' = [op EXCEPT ![o] = r]
  BY <1>0
<1>2. /\ connected /\ op[o].phase = "unused"
      /\ UNCHANGED <<nextGeneration, slotOf, nvm, staged, queued, written, connected, epoch>>
  BY DEF RequestLock, bridge, hardware, transport
<1>3. op'[o] = r /\ \A p \in Op : p # o => op'[p] = op[p]
  BY <1>1 DEF TypeOK
<1>4. o \notin queued /\ o \notin written
  BY <1>2 DEF Dispatched, Undispatched
<1>5. \A p \in Op : p # o => SlotOfOp(p)' = SlotOfOp(p) /\ (Active(p)' <=> Active(p))
  BY <1>2, <1>3 DEF SlotOfOp, Active
<1>6. Admitted'
  BY <1>2 DEF Admitted
<1>7. \A p \in Op : (Dispatched(p, op[p]) /\ Addressed(op[p]))'
  <2>1. Addressed(r)' /\ Dispatched(o, r)'
    BY <1>1, <1>2 DEF Addressed, Dispatched, ActivePhases, AfterReset
  <2>2. ASSUME NEW p \in Op, p # o
        PROVE  (Dispatched(p, op[p]) /\ Addressed(op[p]))'
    BY <1>2, <1>3, <2>2 DEF Dispatched, Addressed
  <2> QED
    BY <1>3, <2>1, <2>2
<1>8. Undispatched' /\ Saving' /\ RetryableMeansUnwritten'
  BY <1>1, <1>2, <1>3, <1>4, <1>5 DEF Undispatched, Saving, RetryableMeansUnwritten
<1>9. NoLateOverwrite' /\ LockSurvivesReset'
  BY <1>1, <1>2, <1>3, <1>4, <1>5 DEF NoLateOverwrite, LockSurvivesReset, TypeOK
<1> QED
  BY <1>6, <1>7, <1>8, <1>9

\* What the timers and the loss of the connection do to an operation.
LEMMA FlagsFootprint ==
    ASSUME Inv, NEW p \in Op,
           \/ \E o \in Op : DeadlineExpires(o) \/ OperationTimeout(o)
           \/ ConnectionLost
    PROVE  /\ op'[p].phase = op[p].phase /\ op'[p].req = op[p].req
           /\ op'[p].replacement = op[p].replacement
           /\ op'[p].sent = op[p].sent /\ op'[p].result = op[p].result
           /\ op'[p].stage.matches = op[p].stage.matches
           /\ op'[p].stage.lastRead = op[p].stage.lastRead
           /\ \/ /\ op'[p].stop.lost = op[p].stop.lost /\ op'[p].deferred = op[p].deferred
                 /\ connected' = connected \/ ~Active(p)
              \/ op'[p].stop.lost /\ ~op'[p].deferred /\ Active(p)
<1> USE DEF Inv
<1>1. op[p] \in OpRecord
  BY DEF TypeOK
<1>2. ASSUME NEW o \in Op, DeadlineExpires(o)
      PROVE  /\ op'[p].phase = op[p].phase /\ op'[p].req = op[p].req
             /\ op'[p].replacement = op[p].replacement
             /\ op'[p].sent = op[p].sent /\ op'[p].result = op[p].result
             /\ op'[p].stage.matches = op[p].stage.matches
             /\ op'[p].stage.lastRead = op[p].stage.lastRead
             /\ op'[p].stop = op[p].stop /\ op'[p].deferred = op[p].deferred
             /\ connected' = connected
  <2> DEFINE e == [op[o].stage EXCEPT !.expired = TRUE]
             q == [op[o] EXCEPT !.stage = e]
  <2>1. op[o] \in OpRecord
    BY DEF TypeOK
  <2>2. e.matches = op[o].stage.matches /\ e.lastRead = op[o].stage.lastRead
    BY <2>1 DEF OpRecord, Stage
  <2>3. op' = [op EXCEPT ![o] = q] /\ connected' = connected
    BY <1>2 DEF DeadlineExpires, transport
  <2> HIDE DEF e
  <2>4. /\ q.phase = op[o].phase /\ q.req = op[o].req /\ q.sent = op[o].sent /\ q.stage = e
        /\ q.replacement = op[o].replacement
        /\ q.result = op[o].result /\ q.stop = op[o].stop /\ q.deferred = op[o].deferred
    BY <2>1 DEF OpRecord
  <2> HIDE DEF q
  <2> QED
    BY <2>2, <2>3, <2>4 DEF TypeOK
<1>3. ASSUME NEW o \in Op, OperationTimeout(o)
      PROVE  /\ op'[p].phase = op[p].phase /\ op'[p].req = op[p].req
             /\ op'[p].replacement = op[p].replacement
             /\ op'[p].sent = op[p].sent /\ op'[p].result = op[p].result
             /\ op'[p].stage = op[p].stage /\ op'[p].deferred = op[p].deferred
             /\ op'[p].stop.lost = op[p].stop.lost
             /\ connected' = connected
  <2> DEFINE e == [op[o].stop EXCEPT !.timedOut = TRUE, !.cancelled = TRUE]
             q == [op[o] EXCEPT !.stop = e]
  <2>1. op[o] \in OpRecord
    BY DEF TypeOK
  <2>2. e.lost = op[o].stop.lost
    BY <2>1 DEF OpRecord, Stop
  <2>3. op' = [op EXCEPT ![o] = q] /\ connected' = connected
    BY <1>3 DEF OperationTimeout, transport
  <2> HIDE DEF e
  <2>4. /\ q.phase = op[o].phase /\ q.req = op[o].req /\ q.sent = op[o].sent /\ q.stop = e
        /\ q.replacement = op[o].replacement
        /\ q.result = op[o].result /\ q.stage = op[o].stage /\ q.deferred = op[o].deferred
    BY <2>1 DEF OpRecord
  <2> HIDE DEF q
  <2> QED
    BY <2>2, <2>3, <2>4 DEF TypeOK
<1>4. ASSUME ConnectionLost, Active(p)
      PROVE  /\ op'[p].phase = op[p].phase /\ op'[p].req = op[p].req
             /\ op'[p].replacement = op[p].replacement
             /\ op'[p].sent = op[p].sent /\ op'[p].result = op[p].result
             /\ op'[p].stage = op[p].stage /\ op'[p].stop.lost /\ ~op'[p].deferred
  <2> DEFINE e == [op[p].stop EXCEPT !.lost = TRUE, !.cancelled = TRUE]
             q == [op[p] EXCEPT !.deferred = FALSE, !.stop = e]
  <2>1. e.lost
    BY <1>1 DEF OpRecord, Stop
  <2>2. op'[p] = q
    BY <1>4 DEF ConnectionLost
  <2> HIDE DEF e
  <2>3. /\ q.phase = op[p].phase /\ q.req = op[p].req /\ q.sent = op[p].sent /\ q.stop = e
        /\ q.replacement = op[p].replacement
        /\ q.result = op[p].result /\ q.stage = op[p].stage /\ ~q.deferred
    BY <1>1 DEF OpRecord
  <2> HIDE DEF q
  <2> QED
    BY <2>1, <2>2, <2>3
<1>5. ConnectionLost /\ ~Active(p) => op'[p] = op[p]
  BY DEF ConnectionLost
<1> QED
  BY <1>2, <1>3, <1>4, <1>5

\* The timers and the loss of the connection keep the invariant.
LEMMA FlagsSafe ==
    ASSUME Inv, Safe, \/ \E o \in Op : DeadlineExpires(o) \/ OperationTimeout(o)
                      \/ ConnectionLost
    PROVE  Safe'
<1> USE DEF Inv, Safe
<1>1. UNCHANGED <<nextGeneration, slotOf, nvm, staged, queued, written, epoch>>
  BY DEF DeadlineExpires, OperationTimeout, ConnectionLost, bridge, hardware, transport
<1>2. \A p \in Op :
        /\ op'[p].phase = op[p].phase /\ op'[p].req = op[p].req
        /\ op'[p].sent = op[p].sent /\ op'[p].result = op[p].result
        /\ SlotOfOp(p)' = SlotOfOp(p) /\ (Active(p)' <=> Active(p))
  BY <1>1, FlagsFootprint DEF SlotOfOp, Active
<1>3. Admitted'
  BY <1>1 DEF Admitted
<1>4. \A p \in Op : (Dispatched(p, op[p]) /\ Addressed(op[p]))'
  <2> SUFFICES ASSUME NEW p \in Op PROVE (Dispatched(p, op[p]) /\ Addressed(op[p]))'
    OBVIOUS
  <2>1. Dispatched(p, op[p])'
    BY <1>1, FlagsFootprint DEF Dispatched
  <2>2. Addressed(op[p])'
    <3>1. op[p].phase \in ActivePhases <=> Active(p)
      BY DEF ActivePhases, Active, TypeOK, OpRecord
    <3>2. /\ op[p].deferred \in BOOLEAN /\ op[p].stop.lost \in BOOLEAN
          /\ op[p].phase = "done" => ~Active(p)
      BY DEF TypeOK, OpRecord, Stop, Active
    <3> QED
      BY <1>1, <3>1, <3>2, FlagsFootprint DEF Addressed
  <2> QED
    BY <2>1, <2>2
<1>5. Undispatched' /\ RetryableMeansUnwritten' /\ NoLateOverwrite'
  BY <1>1, <1>2 DEF Undispatched, RetryableMeansUnwritten, NoLateOverwrite, TypeOK
<1>6. Saving' /\ LockSurvivesReset'
  BY <1>1, <1>2 DEF Saving, LockSurvivesReset
<1> QED
  BY <1>3, <1>4, <1>5, <1>6

\* The firmware executes a queued write, perhaps of an operation that ended
\* long ago: no operation that has dispatched its own is disturbed.
LEMMA FirmwareWritesSafe ==
    ASSUME Inv, Safe, NEW o \in Op, FirmwareWrites(o)
    PROVE  Safe'
<1> USE DEF Inv, Safe
<1>1. /\ o \in queued /\ queued' = queued \ {o} /\ written' = written \cup {o}
      /\ staged' = [staged EXCEPT ![SlotOfOp(o)] = op[o].req.target]
      /\ UNCHANGED <<nextGeneration, slotOf, op, nvm, connected, epoch>>
  BY DEF FirmwareWrites, bridge, transport
<1>2. op[o].sent.set /\ op[o].phase # "unused"
  BY <1>1 DEF Undispatched, Dispatched
<1>3. \A p \in Op : SlotOfOp(p)' = SlotOfOp(p) /\ (Active(p)' <=> Active(p))
  BY <1>1 DEF SlotOfOp, Active
<1>4. \A p \in Op : Active(p) /\ op[p].sent.set /\ p # o => SlotOfOp(p) # SlotOfOp(o)
  BY <1>1 DEF NoLateOverwrite
<1>5. \A p \in Op : Active(p) /\ op[p].sent.set /\ p # o
        => staged'[SlotOfOp(p)] = staged[SlotOfOp(p)]
  <2> SUFFICES ASSUME NEW p \in Op, Active(p), op[p].sent.set, p # o
               PROVE  staged'[SlotOfOp(p)] = staged[SlotOfOp(p)]
    OBVIOUS
  <2>1. SlotOfOp(p) \in Slot
    BY WorkedSlot DEF Active
  <2> QED
    BY <1>1, <1>4, <2>1 DEF TypeOK
<1>6. staged'[SlotOfOp(o)] = op[o].req.target
  BY <1>1, <1>2, WorkedSlot DEF TypeOK
<1>7. \A p \in Op : Active(p) /\ (op[p].sent.reset \/ p \in written) => op[p].sent.set
  BY DEF Dispatched, Undispatched, Active, ActivePhases, TypeOK, OpRecord
<1>8. Admitted' /\ \A p \in Op : (Dispatched(p, op[p]) /\ Addressed(op[p]))'
  BY <1>1 DEF Admitted, Dispatched, Addressed
<1>9. Undispatched' /\ RetryableMeansUnwritten' /\ NoLateOverwrite'
  BY <1>1, <1>2, <1>3 DEF Undispatched, RetryableMeansUnwritten, NoLateOverwrite, TypeOK
<1>10. Saving'
  BY <1>1, <1>3, <1>5, <1>6, <1>7 DEF Saving
<1>11. LockSurvivesReset'
  BY <1>1, <1>3, <1>5, <1>6, <1>7 DEF LockSurvivesReset
<1> QED
  BY <1>8, <1>9, <1>10, <1>11

\* ModemManager drops a write; the firmware saves what it holds, or loses
\* it in a power cycle.
LEMMA HardwareSafe ==
    ASSUME Inv, Safe,
           \/ \E o \in Op : WriteDropped(o)
           \/ \E s \in Slot : FirmwareSaves(s)
           \/ \E m \in Generation, powerCycle \in BOOLEAN : ModemRemoved(m, powerCycle)
    PROVE  Safe'
<1> USE DEF Inv, Safe
<1>1. /\ UNCHANGED <<nextGeneration, slotOf, op, written, connected, epoch>>
      /\ queued' \subseteq queued
  BY DEF WriteDropped, FirmwareSaves, ModemRemoved, bridge, transport
<1>2. \A s \in Slot : \/ nvm'[s] = nvm[s] /\ staged'[s] = staged[s]
                      \/ nvm'[s] = staged[s] /\ staged'[s] = staged[s]
                      \/ nvm'[s] = nvm[s] /\ staged'[s] = nvm[s]
  <2>1. CASE \E o \in Op : WriteDropped(o)
    BY <2>1 DEF WriteDropped
  <2>2. CASE \E s \in Slot : FirmwareSaves(s)
    BY <2>2 DEF FirmwareSaves, TypeOK
  <2>3. CASE \E m \in Generation, powerCycle \in BOOLEAN : ModemRemoved(m, powerCycle)
    BY <2>3 DEF ModemRemoved, TypeOK
  <2> QED
    BY <2>1, <2>2, <2>3
<1>3. \A p \in Op : SlotOfOp(p)' = SlotOfOp(p) /\ (Active(p)' <=> Active(p))
  BY <1>1 DEF SlotOfOp, Active
<1>4. \A p \in Op : Active(p) => SlotOfOp(p) \in Slot
  BY WorkedSlot DEF Active
<1>5. Admitted' /\ \A p \in Op : (Dispatched(p, op[p]) /\ Addressed(op[p]))'
  BY <1>1 DEF Admitted, Dispatched, Addressed
<1>6. Undispatched' /\ RetryableMeansUnwritten' /\ NoLateOverwrite'
  BY <1>1, <1>3 DEF Undispatched, RetryableMeansUnwritten, NoLateOverwrite, TypeOK
<1>7. Saving' /\ LockSurvivesReset'
  BY <1>1, <1>2, <1>3, <1>4 DEF Saving, LockSurvivesReset
<1> QED
  BY <1>5, <1>6, <1>7

\* A modem object is admitted: the slots of the others stay.
LEMMA ModemAddedSafe ==
    ASSUME Inv, Safe, NEW s \in Slot, ModemAdded(s)
    PROVE  Safe'
<1> USE DEF Inv, Safe
<1> DEFINE n == nextGeneration + 1
<1>1. /\ nextGeneration \in Nat /\ n \in Generation /\ n \in Nat
      /\ nextGeneration' = n /\ slotOf' = [slotOf EXCEPT ![n] = s]
      /\ UNCHANGED <<op, nvm, staged, queued, written, connected, epoch>>
  BY ConstantsAssumption
     DEF ModemAdded, TypeOK, Generation, ConstantsAssumption, hardware, transport
<1>2. /\ \A m \in Generation : m <= nextGeneration => m # n
      /\ \A m \in Generation : m <= n <=> m = n \/ m <= nextGeneration
  BY <1>1 DEF Generation
<1>3. slotOf'[n] = s /\ \A m \in Generation : m # n => slotOf'[m] = slotOf[m]
  BY <1>1 DEF TypeOK
<1> HIDE DEF n
<1>4. \A p \in Op : op[p].phase # "unused" => SlotOfOp(p)' = SlotOfOp(p)
  <2> SUFFICES ASSUME NEW p \in Op, op[p].phase # "unused" PROVE SlotOfOp(p)' = SlotOfOp(p)
    OBVIOUS
  <2>1. op[p].req.original \in Generation /\ op[p].req.original <= nextGeneration
    BY WorkedSlot
  <2> QED
    BY <1>1, <1>2, <1>3, <2>1 DEF SlotOfOp
<1>5. /\ \A p \in Op : (Active(p)' <=> Active(p)) /\ (Active(p) => op[p].phase # "unused")
      /\ \A p \in queued : op[p].phase # "unused"
  BY <1>1 DEF Active, Undispatched, Dispatched, TypeOK
<1>6. Admitted'
  BY <1>1, <1>2, <1>3 DEF Admitted
<1>7. \A p \in Op : (Dispatched(p, op[p]) /\ Addressed(op[p]))'
  BY <1>1 DEF Dispatched, Addressed
<1>8. Undispatched' /\ RetryableMeansUnwritten'
  BY <1>1 DEF Undispatched, RetryableMeansUnwritten
<1>9. NoLateOverwrite' /\ Saving' /\ LockSurvivesReset'
  BY <1>1, <1>4, <1>5 DEF NoLateOverwrite, Saving, LockSurvivesReset, TypeOK
<1> QED
  BY <1>6, <1>7, <1>8, <1>9

\* The ubus socket reconnects, or only mutation locks and cooldowns change:
\* nobody is waiting for an answer on the connection before this one.
LEMMA OtherSafe ==
    ASSUME Inv, Safe,
           \/ Reconnect
           \/ \E m \in Generation : \/ OtherMutationStarts(m) \/ OtherMutationEnds(m)
                                    \/ CooldownExpires(m)
           \/ UNCHANGED vars
    PROVE  Safe'
<1> USE DEF Inv, Safe
<1>1. /\ UNCHANGED <<nextGeneration, slotOf, op, nvm, staged, queued, written>>
      /\ ~connected \/ UNCHANGED <<connected, epoch>>
  BY DEF Reconnect, OtherMutationStarts, OtherMutationEnds, CooldownExpires, vars,
         bridge, hardware, transport
<1>2. Admitted' /\ \A p \in Op : (Dispatched(p, op[p]) /\ Addressed(op[p]))'
  BY <1>1 DEF Admitted, Dispatched, Addressed
<1>3. Undispatched' /\ RetryableMeansUnwritten'
  BY <1>1 DEF Undispatched, RetryableMeansUnwritten
<1>4. NoLateOverwrite' /\ Saving' /\ LockSurvivesReset'
  BY <1>1 DEF NoLateOverwrite, Saving, LockSurvivesReset, Active, SlotOfOp
<1> QED
  BY <1>2, <1>3, <1>4

\* The two invariants together are inductive.
LEMMA StepSafe == Inv /\ Safe /\ [Next]_vars => Safe'
<1> SUFFICES ASSUME Inv, Safe, [Next]_vars PROVE Safe'
  OBVIOUS
<1>1. ASSUME NEW o \in Op, Coordinator(o)
      PROVE  Safe'
  <2>1. CASE CommandReady(o) \/ Poll(o)
    BY <2>1, CallbackFootprint, CallbackEnds, MovesSafe, EndsSafe DEF Inv
  <2> QED
    BY <1>1, <2>1, RequestSafe, FlagsSafe, FirmwareWritesSafe, HardwareSafe DEF Coordinator
<1>2. CASE Environment
  BY <1>2, FlagsSafe, HardwareSafe, ModemAddedSafe, OtherSafe DEF Environment
<1> QED
  BY <1>1, <1>2, OtherSafe DEF Next

(***************************************************************************)
(* The lock survives the reset: from CFUN=15 to the end of the operation   *)
(* NVM and firmware hold the requested lock, whatever writes earlier       *)
(* operations left in ModemManager's queue and however often the modem is  *)
(* power cycled.                                                           *)
(***************************************************************************)
THEOREM ResetKeepsLock == Spec => []LockSurvivesReset
<1>1. Safe => LockSurvivesReset
  BY DEF Safe
<1> QED
  BY <1>1, InitInv, StepInv, InitSafe, StepSafe, PTL DEF Spec

(***************************************************************************)
(* A retry is offered only for a write that was not and will not be        *)
(* executed: the reply an operator may safely act on.                      *)
(***************************************************************************)
THEOREM RetryIsSafe == Spec => []RetryableMeansUnwritten
<1>1. Safe => RetryableMeansUnwritten
  BY DEF Safe
<1> QED
  BY <1>1, InitInv, StepInv, InitSafe, StepSafe, PTL DEF Spec

(***************************************************************************)
(* A write that an earlier operation gave up on never lands on top of the  *)
(* write of an operation under way at that slot.                           *)
(***************************************************************************)
THEOREM LateWritesSettled == Spec => []NoLateOverwrite
<1>1. Safe => NoLateOverwrite
  BY DEF Safe
<1> QED
  BY <1>1, InitInv, StepInv, InitSafe, StepSafe, PTL DEF Spec

(***************************************************************************)
(* A deferred request is answered on its own ubus connection or, when that *)
(* was lost, not at all.                                                   *)
(***************************************************************************)
THEOREM RepliesAddressed == Spec => []ReplyToRequester
<1>1. Safe => ReplyToRequester
  BY DEF Safe, Addressed, ReplyToRequester
<1> QED
  BY <1>1, InitInv, StepInv, InitSafe, StepSafe, PTL DEF Spec

\* Who sends a reset or reports a verified lock, and under which conditions.
LEMMA StepGuards ==
    ASSUME Inv, Safe, [Next]_vars, NEW o \in Op
    PROVE  /\ op'[o].sent.reset /\ ~op[o].sent.reset => Barrier(o)
           /\ op'[o].result.state = "verified" /\ op[o].result.state # "verified"
                => nvm[SlotOfOp(o)] = op[o].req.target /\ op[o].replacement \in live
<1> USE DEF Inv
<1>1. ASSUME NEW p \in Op, CommandReady(p) \/ Poll(p)
      PROVE  /\ op'[o].sent.reset /\ ~op[o].sent.reset => Barrier(o)
             /\ op'[o].result.state = "verified" /\ op[o].result.state # "verified"
                  => nvm[SlotOfOp(o)] = op[o].req.target /\ op[o].replacement \in live
  <2>1. CASE o # p
    BY <1>1, <2>1, CallbackEnds DEF Moves, Ends, TypeOK
  <2>2. CASE o = p /\ Moves(o)
    BY <2>2 DEF Moves, TypeOK
  <2>3. CASE o = p /\ Ends(o)
    BY <2>3 DEF Ends, TypeOK
  <2> QED
    BY <1>1, <2>1, <2>2, <2>3, CallbackEnds
<1>2. ASSUME NEW p \in Op, NEW m \in Generation, NEW target \in Lock, RequestLock(p, m, target)
      PROVE  \/ op'[o].sent = op[o].sent /\ op'[o].result = op[o].result
             \/ ~op'[o].sent.reset /\ op'[o].result.state = "none"
  <2> DEFINE r == NewOp(target, m, epoch)
  <2>1. ~r.sent.reset /\ r.result.state = "none"
    BY DEF NewOp, NothingSent, NoResult
  <2>2. op' = [op EXCEPT ![p] = r]
    BY <1>2 DEF RequestLock
  <2> HIDE DEF r
  <2> QED
    BY <2>1, <2>2 DEF TypeOK
<1>3. CASE (\E p \in Op : DeadlineExpires(p) \/ OperationTimeout(p)) \/ ConnectionLost
  BY <1>3, FlagsFootprint
<1>4. CASE UNCHANGED op
  BY <1>4
<1>5. \/ \E p \in Op : \/ CommandReady(p) \/ Poll(p)
                       \/ \E m \in Generation, target \in Lock : RequestLock(p, m, target)
                       \/ DeadlineExpires(p) \/ OperationTimeout(p)
      \/ ConnectionLost
      \/ UNCHANGED op
  BY DEF Next, Coordinator, Environment, vars, FirmwareWrites, WriteDropped, Reconnect,
         ModemAdded, FirmwareSaves, ModemRemoved, OtherMutationStarts, OtherMutationEnds,
         CooldownExpires
<1> QED
  BY <1>1, <1>2, <1>3, <1>4, <1>5

(***************************************************************************)
(* The persistence barrier: CFUN=15 goes out once per operation, on the    *)
(* second matching NVM read in a row, to a live original object, after an  *)
(* acknowledged write.                                                     *)
(***************************************************************************)
THEOREM BarrierBeforeReset == Spec => ResetBarrier
<1>1. Inv /\ Safe /\ [Next]_vars
        => [\A o \in Op : op'[o].sent.reset /\ ~op[o].sent.reset
              => /\ op[o].phase = "preNvm"
                 /\ op[o].sent.acked /\ o \in written
                 /\ op[o].stage.lastRead = "match"
                 /\ nvm[SlotOfOp(o)] = op[o].req.target
                 /\ op[o].req.original \in live]_vars
  BY StepGuards DEF Barrier
<1> QED
  BY <1>1, InitInv, StepInv, InitSafe, StepSafe, PTL DEF Spec, ResetBarrier

(***************************************************************************)
(* "verified" is said only while NVM holds the requested lock and the      *)
(* object named in the reply is live.                                      *)
(***************************************************************************)
THEOREM VerifiedHolds == Spec => VerifiedIsTrue
<1>1. Inv /\ Safe /\ [Next]_vars
        => [\A o \in Op : op'[o].result.state = "verified" /\ op[o].result.state # "verified"
              => /\ nvm[SlotOfOp(o)] = op[o].req.target
                 /\ op[o].replacement \in live]_vars
  BY StepGuards
<1> QED
  BY <1>1, InitInv, StepInv, InitSafe, StepSafe, PTL DEF Spec, VerifiedIsTrue

-----------------------------------------------------------------------------
(* The refinement: what the steps of Arbitration are here.                 *)

Jobs == Op \cup {OtherJob(m) : m \in Generation}
Resources == Slot \cup Generation

\* The jobs that work on a slot or an object, as Arbiter has them.
Working(r) ==
    {o \in Op : Active(o) /\ (r = SlotOfOp(o) \/ r \in Held(o))}
    \cup {OtherJob(m) : m \in {n \in Generation : n = r /\ kind[n] = "other"}}

\* The jobs on a resource, one by one.
LEMMA WorkingIs ==
    ASSUME NEW r, NEW j
    PROVE  j \in Working(r) <=>
               \/ j \in Op /\ Active(j) /\ (r = SlotOfOp(j) \/ r \in Held(j))
               \/ r \in Generation /\ kind[r] = "other" /\ j = OtherJob(r)
BY DEF Working

\* The same after a step.
LEMMA WorkingWillBe ==
    ASSUME NEW r, NEW j
    PROVE  j \in Working(r)' <=>
               \/ j \in Op /\ Active(j)' /\ (r = SlotOfOp(j)' \/ r \in Held(j)')
               \/ r \in Generation /\ kind'[r] = "other" /\ j = OtherJob(r)
BY DEF Working

\* Slots are not objects, and the jobs of other operations are their own.
LEMMA Apart ==
    /\ \A m \in Generation : m \notin Slot /\ OtherJob(m) \notin Op
    /\ \A m, n \in Generation : OtherJob(m) = OtherJob(n) => m = n
BY ConstantsAssumption DEF ConstantsAssumption, Generation, OtherJob

\* An operation under way works on a slot and on admitted objects.
LEMMA WorksOn ==
    ASSUME Inv, Admitted, NEW o \in Op, Active(o)
    PROVE  SlotOfOp(o) \in Slot /\ Held(o) \subseteq Generation
<1>1. SlotOfOp(o) \in Slot
  BY WorkedSlot DEF Active
<1>2. op[o].req.original \in 0..MaxGeneration /\ op[o].replacement \in 0..MaxGeneration
  BY DEF Inv, TypeOK, OpRecord, Request
<1> QED
  BY <1>1, <1>2, ConstantsAssumption DEF ConstantsAssumption, Held, Generation

\* Nothing changes hands.
LEMMA StutterStep ==
    ASSUME UNCHANGED slotOf, \A r \in Resources : Working(r)' = Working(r)
    PROVE  UNCHANGED Arbiter!vars
<1> DEFINE H == [r \in Resources |-> Working(r)]
<1>1. H' = H
  OBVIOUS
<1> QED
  BY <1>1 DEF Arbiter!vars, Working, Resources

\* Job j gives back what it has.
LEMMA ReleaseStep ==
    ASSUME NEW j \in Jobs, UNCHANGED slotOf, \A r \in Resources : Working(r)' = Working(r) \ {j}
    PROVE  Arbiter!Next
<1> DEFINE H == [r \in Resources |-> Working(r)]
<1>1. H' = [r \in Resources |-> H[r] \ {j}]
  OBVIOUS
<1>2. Arbiter!Release(j)
  BY <1>1 DEF Arbiter!Release, Working, Resources
<1> QED
  BY <1>2 DEF Arbiter!Next, Jobs

\* Job j takes resources nobody works on, of slots nobody else holds.
LEMMA AcquireStep ==
    ASSUME NEW j \in Jobs, UNCHANGED slotOf, slotOf \in [Generation -> Slot \cup {NoSlot}],
           \A r \in Resources :
               \/ Working(r)' = Working(r)
               \/ /\ Working(r)' = {j} /\ Working(r) = {}
                  /\ r \in Generation => slotOf[r] \in Slot /\ Working(slotOf[r]) \subseteq {j}
    PROVE  Arbiter!Next
<1> DEFINE H == [r \in Resources |-> Working(r)]
           P == [r \in Resources |-> IF r \in Generation THEN slotOf[r] ELSE NoSlot]
<1>1. \A r \in Resources : H[r] = Working(r) /\ H'[r] = Working(r)'
  OBVIOUS
<1>2. \A r \in Resources : Working(r)' \subseteq Jobs
  BY DEF Working, Jobs
<1>3. H' \in [Resources -> SUBSET Jobs]
  BY <1>2
<1>4. P' = P
  OBVIOUS
<1>5. \A r \in Resources : P[r] = NoSlot \/ (r \in Generation /\ P[r] = slotOf[r])
  OBVIOUS
<1>6. \A s \in Slot : H[s] = Working(s)
  BY DEF Resources
<1>7. \A r \in Resources :
        H'[r] = H[r] \/ (H'[r] = {j} /\ H[r] = {} /\ (P[r] = NoSlot \/ H[P[r]] \subseteq {j}))
  <2> HIDE DEF H, P
  <2> QED
    BY <1>1, <1>5, <1>6
<1>8. Arbiter!Acquire(j)
  BY <1>3, <1>4, <1>7 DEF Arbiter!Acquire, Arbiter!MayTake, Working, Resources, Jobs
<1> QED
  BY <1>8 DEF Arbiter!Next, Jobs

\* An object is admitted at a slot.
LEMMA AttachStep ==
    ASSUME NEW n \in Generation, NEW s \in Slot, slotOf \in [Generation -> Slot \cup {NoSlot}],
           slotOf[n] = NoSlot, slotOf' = [slotOf EXCEPT ![n] = s],
           \A r \in Resources : Working(r)' = Working(r)
    PROVE  Arbiter!Next
<1> DEFINE H == [r \in Resources |-> Working(r)]
           P == [r \in Resources |-> IF r \in Generation THEN slotOf[r] ELSE NoSlot]
<1>1. H' = H
  OBVIOUS
<1>2. P[n] = NoSlot
  BY DEF Resources
<1>3. P' = [P EXCEPT ![n] = s]
  <2>1. \A r \in Resources : P'[r] = IF r = n THEN s ELSE P[r]
    BY DEF Resources
  <2>2. P = [r \in Resources |-> P[r]] /\ P' = [r \in Resources |-> P'[r]]
    OBVIOUS
  <2> HIDE DEF P
  <2> QED
    BY <2>1, <2>2
<1>4. Arbiter!Attach(n, s)
  BY <1>1, <1>2, <1>3 DEF Arbiter!Attach, Working, Resources
<1> QED
  BY <1>4 DEF Arbiter!Next, Resources

\* Operations that keep their phase and objects keep what they hold.
LEMMA SameWork ==
    ASSUME Inv, Admitted,
           \A o \in Op : /\ Active(o)' <=> Active(o)
                         /\ Active(o) => SlotOfOp(o)' = SlotOfOp(o)
                         /\ Held(o)' = Held(o),
           \A m \in Generation : kind'[m] = "other" <=> kind[m] = "other"
    PROVE  \A r \in Resources : Working(r)' = Working(r)
<1> SUFFICES ASSUME NEW r \in Resources PROVE Working(r)' = Working(r)
  OBVIOUS
<1>1. \A j : j \in Working(r)' <=> j \in Working(r)
  BY WorkingIs, WorkingWillBe
<1> QED
  BY <1>1

\* An object that is not marked busy has no work, and a slot without an
\* operation has none.
LEMMA IdleMeansFree ==
    ASSUME Inv, Admitted
    PROVE  /\ \A m \in Generation : kind[m] = "none" => Working(m) = {}
           /\ \A s \in Slot : \A j \in Working(s) : j \in Op /\ Active(j) /\ SlotOfOp(j) = s
<1>1. ASSUME NEW m \in Generation, kind[m] = "none" PROVE Working(m) = {}
  <2>1. \A j : j \notin Working(m)
    BY <1>1, WorkingIs, WorksOn, Apart DEF Inv, LockOwned
  <2> QED
    BY <2>1
<1>2. ASSUME NEW s \in Slot, NEW j \in Working(s)
      PROVE  j \in Op /\ Active(j) /\ SlotOfOp(j) = s
  BY WorkingIs, WorksOn, Apart
<1> QED
  BY <1>1, <1>2

\* A request takes the slot and the object.
LEMMA RequestTakes ==
    ASSUME Inv, Safe, NEW o \in Op, NEW m \in Generation, NEW target \in Lock,
           RequestLock(o, m, target)
    PROVE  Arbiter!Next
<1> USE DEF Inv, Safe
<1> DEFINE r == NewOp(target, m, epoch)
<1>1. r.phase = "probe" /\ r.replacement = 0 /\ r.req.original = m
  BY DEF NewOp
<1>2. /\ op' = [op EXCEPT ![o] = r] /\ kind' = [kind EXCEPT ![m] = "l850"]
      /\ UNCHANGED slotOf /\ ~Active(o) /\ m \in live /\ kind[m] = "none"
      /\ ~HasActiveMutation(m)
  BY DEF RequestLock, bridge, Active
<1> HIDE DEF r
<1>3. op'[o] = r /\ \A p \in Op : p # o => op'[p] = op[p]
  BY <1>2 DEF TypeOK
<1>4. PICK s \in Slot : m # 0 /\ s = slotOf[m]
  BY <1>2, ConstantsAssumption DEF Placed, Admitted, ConstantsAssumption, Generation
<1>5. /\ Active(o)' /\ SlotOfOp(o)' = s /\ Held(o)' = {m}
      /\ \A p \in Op : p # o => /\ Active(p)' <=> Active(p)
                                /\ SlotOfOp(p)' = SlotOfOp(p)
                                /\ Held(p)' = Held(p)
  BY <1>1, <1>2, <1>3, <1>4 DEF Active, SlotOfOp, Held
<1>6. \A n \in Generation : kind'[n] = "other" <=> kind[n] = "other"
  BY <1>2 DEF TypeOK
<1>7. Working(m) = {} /\ Working(s) = {}
  BY <1>2, <1>4, IdleMeansFree DEF HasActiveMutation
<1>8. \A x \in Resources : \A j : j \in Working(x)' <=>
         j \in Working(x) \/ (j = o /\ x \in {m, s})
  BY <1>2, <1>5, <1>6, WorkingIs, WorkingWillBe
<1>9. \A x \in Resources : x \notin {m, s} => Working(x)' = Working(x)
  BY <1>8
<1>10. m \in Resources /\ s \in Resources /\ s \notin Generation
  BY <1>4, Apart DEF Resources
<1>11. Working(m)' = {o} /\ Working(s)' = {o}
  BY <1>7, <1>8, <1>10
<1>12. \A x \in Resources :
          \/ Working(x)' = Working(x)
          \/ /\ Working(x)' = {o} /\ Working(x) = {}
             /\ x \in Generation => slotOf[x] \in Slot /\ Working(slotOf[x]) \subseteq {o}
  BY <1>4, <1>7, <1>9, <1>10, <1>11
<1> QED
  BY <1>2, <1>12, AcquireStep DEF Jobs, TypeOK

\* A callback keeps what its operation holds, gives all of it back, or
\* takes the replacement.
LEMMA CallbackHands ==
    ASSUME Inv, Safe, NEW o \in Op, Callback(o)
    PROVE  [Arbiter!Next]_(Arbiter!vars)
<1> USE DEF Inv, Safe
<1>1. UNCHANGED slotOf /\ Active(o)
  BY DEF Callback, bridge
<1>2. CASE Continues(o)
  <2>1. PICK q \in OpRecord : /\ q.phase \in ActivePhases /\ op' = [op EXCEPT ![o] = q]
                              /\ q.req = op[o].req /\ q.replacement = op[o].replacement
                              /\ UNCHANGED kind
    BY <1>2 DEF Continues
  <2>2. \A p \in Op : /\ Active(p)' <=> Active(p)
                      /\ SlotOfOp(p)' = SlotOfOp(p) /\ Held(p)' = Held(p)
    BY <1>1, <2>1 DEF TypeOK, Active, Held, SlotOfOp, ActivePhases
  <2> QED
    BY <1>1, <2>1, <2>2, SameWork, StutterStep
<1>3. CASE Finishes(o)
  <2>1. PICK q \in OpRecord : q.phase = "done" /\ op' = [op EXCEPT ![o] = q] /\ ReleaseModems(o)
    BY <1>3 DEF Finishes
  <2>2. /\ ~Active(o)'
        /\ \A p \in Op : p # o => /\ Active(p)' <=> Active(p)
                                  /\ SlotOfOp(p)' = SlotOfOp(p) /\ Held(p)' = Held(p)
    BY <1>1, <2>1 DEF TypeOK, Active, Held, SlotOfOp
  <2>3. \A m \in Generation : kind'[m] = "other" <=> kind[m] = "other"
    BY <2>1 DEF ReleaseModems
  <2>4. ASSUME NEW r \in Resources PROVE Working(r)' = Working(r) \ {o}
    <3>1. \A j : j \in Working(r)' <=> j \in Working(r) /\ j # o
      BY <2>2, <2>3, WorkingIs, WorkingWillBe, Apart
    <3> QED
      BY <3>1
  <2> QED
    BY <1>1, <2>4, ReleaseStep DEF Jobs
<1>4. CASE Adopts(o)
  <2>1. PICK m \in Candidates(o), q \in OpRecord :
           /\ kind[m] = "none" /\ op[o].replacement = 0
           /\ q.phase \in ActivePhases /\ op' = [op EXCEPT ![o] = q]
           /\ q.req = op[o].req /\ q.replacement = m
           /\ kind' = [kind EXCEPT ![m] = "l850"]
    BY <1>4 DEF Adopts
  <2>2. m \in Generation /\ slotOf[m] = SlotOfOp(o) /\ SlotOfOp(o) \in Slot
    BY <1>1, WorksOn DEF Candidates, TypeOK
  <2>3. /\ Active(o)' /\ SlotOfOp(o)' = SlotOfOp(o) /\ Held(o)' = Held(o) \cup {m}
        /\ \A p \in Op : p # o => /\ Active(p)' <=> Active(p)
                                  /\ SlotOfOp(p)' = SlotOfOp(p) /\ Held(p)' = Held(p)
    BY <1>1, <2>1, <2>2, ConstantsAssumption
       DEF TypeOK, Active, Held, SlotOfOp, ActivePhases, Generation, ConstantsAssumption
  <2>4. \A n \in Generation : kind'[n] = "other" <=> kind[n] = "other"
    BY <2>1 DEF TypeOK
  <2>5. Working(m) = {} /\ Working(SlotOfOp(o)) \subseteq {o}
    BY <1>1, <2>1, <2>2, IdleMeansFree DEF SlotExclusion
  <2>6. \A r \in Resources : \A j : j \in Working(r)' <=> j \in Working(r) \/ (j = o /\ r = m)
    BY <1>1, <2>3, <2>4, WorkingIs, WorkingWillBe
  <2>7. \A r \in Resources : r # m => Working(r)' = Working(r)
    BY <2>6
  <2>8. Working(m)' = {o}
    BY <2>2, <2>5, <2>6 DEF Resources
  <2>9. \A r \in Resources :
           \/ Working(r)' = Working(r)
           \/ /\ Working(r)' = {o} /\ Working(r) = {}
              /\ r \in Generation => slotOf[r] \in Slot /\ Working(slotOf[r]) \subseteq {o}
    BY <2>2, <2>5, <2>7, <2>8
  <2> QED
    BY <1>1, <2>9, AcquireStep DEF Jobs, TypeOK
<1> QED
  BY <1>2, <1>3, <1>4 DEF Callback

\* An SMS, band or mode operation takes and gives back its object.
LEMMA OtherHands ==
    ASSUME Inv, Safe, NEW m \in Generation, OtherMutationStarts(m) \/ OtherMutationEnds(m)
    PROVE  Arbiter!Next
<1> USE DEF Inv, Safe
<1> DEFINE j == OtherJob(m)
<1>1. UNCHANGED <<slotOf, op>> /\ j \in Jobs
  BY DEF OtherMutationStarts, OtherMutationEnds, bridge, Jobs
<1>2. \A p \in Op : /\ Active(p)' <=> Active(p)
                    /\ SlotOfOp(p)' = SlotOfOp(p) /\ Held(p)' = Held(p)
  BY <1>1 DEF Active, SlotOfOp, Held
<1>3. CASE OtherMutationStarts(m)
  <2>1. /\ kind[m] = "none" /\ kind' = [kind EXCEPT ![m] = "other"]
        /\ m \in live /\ ~HasActiveMutation(m)
    BY <1>3 DEF OtherMutationStarts
  <2>2. slotOf[m] \in Slot
    BY <2>1 DEF Placed, Admitted
  <2>3. Working(m) = {} /\ Working(slotOf[m]) = {}
    BY <2>1, <2>2, IdleMeansFree DEF HasActiveMutation
  <2>4. \A r \in Resources : \A i : i \in Working(r)' <=> i \in Working(r) \/ (i = j /\ r = m)
    BY <1>2, <2>1, WorkingIs, WorkingWillBe DEF TypeOK
  <2> HIDE DEF j
  <2>5. \A r \in Resources : r # m => Working(r)' = Working(r)
    BY <2>4
  <2>6. Working(m)' = {j}
    BY <2>3, <2>4 DEF Resources
  <2>7. \A r \in Resources :
           \/ Working(r)' = Working(r)
           \/ /\ Working(r)' = {j} /\ Working(r) = {}
              /\ r \in Generation => slotOf[r] \in Slot /\ Working(slotOf[r]) \subseteq {j}
    BY <2>2, <2>3, <2>5, <2>6
  <2> QED
    BY <1>1, <2>7, AcquireStep DEF TypeOK
<1>4. CASE OtherMutationEnds(m)
  <2>1. kind[m] = "other" /\ kind' = [kind EXCEPT ![m] = "none"]
    BY <1>4 DEF OtherMutationEnds
  <2>2. ASSUME NEW r \in Resources PROVE Working(r)' = Working(r) \ {j}
    <3>1. \A n \in Generation : kind'[n] = "other" <=> kind[n] = "other" /\ n # m
      BY <2>1 DEF TypeOK
    <3>2. \A i : i \in Working(r)' <=> i \in Working(r) /\ i # j
      BY <1>2, <3>1, WorkingIs, WorkingWillBe, Apart
    <3> QED
      BY <3>2
  <2> HIDE DEF j
  <2> QED
    BY <1>1, <2>2, ReleaseStep
<1> QED
  BY <1>3, <1>4

\* The inventory attaches objects; nothing else changes hands.
LEMMA EnvironmentHands ==
    ASSUME Inv, Safe,
           \/ \E o \in Op : \/ DeadlineExpires(o) \/ OperationTimeout(o)
                            \/ FirmwareWrites(o) \/ WriteDropped(o)
           \/ ConnectionLost \/ Reconnect
           \/ \E s \in Slot : ModemAdded(s) \/ FirmwareSaves(s)
           \/ \E m \in Generation :
                (\E powerCycle \in BOOLEAN : ModemRemoved(m, powerCycle)) \/ CooldownExpires(m)
           \/ UNCHANGED vars
    PROVE  [Arbiter!Next]_(Arbiter!vars)
<1> USE DEF Inv, Safe
<1>1. UNCHANGED kind
  BY DEF DeadlineExpires, OperationTimeout, FirmwareWrites, WriteDropped, ConnectionLost,
         Reconnect, ModemAdded, FirmwareSaves, ModemRemoved, CooldownExpires, vars
<1>2. CASE \E s \in Slot : ModemAdded(s)
  <2>1. PICK s \in Slot : ModemAdded(s)
    BY <1>2
  <2> DEFINE n == nextGeneration + 1
  <2>2. /\ nextGeneration \in Nat /\ n \in Generation /\ UNCHANGED op
        /\ slotOf' = [slotOf EXCEPT ![n] = s]
    BY <2>1, ConstantsAssumption DEF ModemAdded, TypeOK, Generation, ConstantsAssumption
  <2>3. \A m \in Generation : m <= nextGeneration => m # n
    BY <2>2 DEF Generation
  <2>4. ~(n <= nextGeneration)
    BY <2>2
  <2> HIDE DEF n
  <2>5. slotOf[n] = NoSlot
    BY <2>2, <2>4 DEF Admitted, TypeOK
  <2>6. \A p \in Op : Active(p) => SlotOfOp(p)' = SlotOfOp(p)
    <3> SUFFICES ASSUME NEW p \in Op, Active(p) PROVE SlotOfOp(p)' = SlotOfOp(p)
      OBVIOUS
    <3>1. op[p].req.original \in Generation /\ op[p].req.original <= nextGeneration
      BY WorkedSlot DEF Active
    <3> QED
      BY <2>2, <2>3, <3>1 DEF SlotOfOp, TypeOK
  <2>7. \A p \in Op : (Active(p)' <=> Active(p)) /\ Held(p)' = Held(p)
    BY <2>2 DEF Active, Held
  <2> QED
    BY <1>1, <2>2, <2>5, <2>6, <2>7, SameWork, AttachStep DEF TypeOK
<1>3. CASE (\E o \in Op : DeadlineExpires(o) \/ OperationTimeout(o)) \/ ConnectionLost
  <2>1. UNCHANGED slotOf
    BY <1>3 DEF DeadlineExpires, OperationTimeout, ConnectionLost, bridge
  <2>2. \A p \in Op : /\ Active(p)' <=> Active(p)
                      /\ SlotOfOp(p)' = SlotOfOp(p) /\ Held(p)' = Held(p)
    BY <1>3, <2>1, FlagsFootprint DEF Active, SlotOfOp, Held
  <2> QED
    BY <1>1, <2>1, <2>2, SameWork, StutterStep
<1>4. CASE UNCHANGED <<slotOf, op>>
  <2>1. \A p \in Op : /\ Active(p)' <=> Active(p)
                      /\ SlotOfOp(p)' = SlotOfOp(p) /\ Held(p)' = Held(p)
    BY <1>4 DEF Active, SlotOfOp, Held
  <2> QED
    BY <1>1, <1>4, <2>1, SameWork, StutterStep
<1> QED
  BY <1>2, <1>3, <1>4
     DEF FirmwareWrites, WriteDropped, Reconnect, FirmwareSaves, ModemRemoved, CooldownExpires,
         vars, bridge

(***************************************************************************)
(* The operation table and mutation_kind implement Arbitration: a slot and *)
(* its object are taken together, the replacement while nobody works on    *)
(* it, and everything is given back in the step that completes.            *)
(***************************************************************************)
THEOREM CoordinatorArbitrates == Spec => Arbitrated
<1>1. Init => Arbiter!Init
  <2> SUFFICES ASSUME Init PROVE Arbiter!Init
    OBVIOUS
  <2>1. \A o \in Op : ~Active(o)
    BY NoOpType DEF Init, Active
  <2>2. ASSUME NEW r \in Resources PROVE Working(r) = {}
    <3>1. \A j : j \notin Working(r)
      BY <2>1, WorkingIs DEF Init
    <3> QED
      BY <3>1
  <2>3. [r \in Resources |-> Working(r)] = [r \in Resources |-> {}]
    BY <2>2
  <2>4. [r \in Resources |-> IF r \in Generation THEN slotOf[r] ELSE NoSlot]
           = [r \in Resources |-> NoSlot]
    BY DEF Init
  <2> QED
    BY <2>3, <2>4 DEF Arbiter!Init, Working, Resources
<1>2. Inv /\ Safe /\ [Next]_vars => [Arbiter!Next]_(Arbiter!vars)
  <2> SUFFICES ASSUME Inv, Safe, [Next]_vars PROVE [Arbiter!Next]_(Arbiter!vars)
    OBVIOUS
  <2>1. ASSUME NEW o \in Op, Coordinator(o)
        PROVE  [Arbiter!Next]_(Arbiter!vars)
    <3>1. CASE CommandReady(o) \/ Poll(o)
      BY <3>1, CallbackFootprint, CallbackHands DEF Inv
    <3> QED
      BY <2>1, <3>1, RequestTakes, EnvironmentHands DEF Coordinator
  <2>2. CASE Environment
    BY <2>2, OtherHands, EnvironmentHands DEF Environment
  <2> QED
    BY <2>1, <2>2, EnvironmentHands DEF Next
<1> QED
  BY <1>1, <1>2, InitInv, StepInv, InitSafe, StepSafe, PTL DEF Spec, Arbitrated, Arbiter!Spec

(***************************************************************************)
(* Two jobs never work on one slot or one modem object: a lock operation   *)
(* and an SMS, band or mode operation among them.                          *)
(***************************************************************************)
THEOREM CoordinatorApart == Spec => []Arbiter!Exclusive
<1>1. Arbiter!Spec => []Arbiter!Exclusive
  BY Arbiter!JobsApart
<1> QED
  BY <1>1, CoordinatorArbitrates, PTL DEF Arbitrated
=============================================================================
