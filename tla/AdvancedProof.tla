--------------------------- MODULE AdvancedProof ---------------------------
(***************************************************************************)
(* Proofs about the band and mode operations, for any set of requests,     *)
(* sections, intents and modes and any number of modem objects.            *)
(*                                                                         *)
(* What the properties do not say by themselves, and the steps need, is    *)
(* the shape of an operation in each phase: an operation that commits has  *)
(* a section and has written nothing yet, one that waits for the reload    *)
(* has written to the section that was the modem's.                        *)
(***************************************************************************)
EXTENDS Advanced, TLAPS

Shape(r) ==
    /\ r.phase \in {"bands", "commit", "reload"} => r.object \in Object
    /\ r.phase = "bands" => r.rpc # "none"
    /\ r.phase = "commit" => r.section \in Section /\ r.wrote = "no" /\ r.rpc = "none"
    /\ r.phase = "reload" => r.wrote = "bound" /\ r.rpc = "none"

\* What a reply says of the write of a mode operation ("rpc" is none) or of
\* the call of a band operation.
TrueReply(r, code) ==
    /\ r.rpc = "none"
         => /\ code = "ok" => r.wrote = "bound"
            /\ code \in {"persistence_failed", "netifd_binding_not_found",
                         "netifd_binding_ambiguous"} => r.wrote = "no"
    /\ r.rpc # "none"
         => /\ code = "ok" => r.rpc = "applied"
            /\ code \in {"refused", "busy"} => r.rpc = "refused"

\* BandsReplyTruthful and ModesReplyTruthful of one operation.
Truthful(r) == r.phase = "done" => TrueReply(r, r.code)

Shapes == \A o \in Op : Shape(op[o]) /\ Truthful(op[o])

Inv == TypeOK /\ Shapes /\ OneAdvancedPerModem

\* The part of TypeOK that a completion does not touch.
RestTyped ==
    /\ generation \in Object /\ live \in BOOLEAN /\ modes \in Modes
    /\ connected \in BOOLEAN
    /\ file \in [Section -> [bound : BOOLEAN, modes : Intents]]

-----------------------------------------------------------------------------
\* A completed operation is well typed and has the shape of its phase.
LEMMA CompletedShape ==
    ASSUME NEW r \in OpRecord, NEW code \in Codes,
           NEW a \in {"none", "pending", "reloaded", "failed", "outcome_unknown"}
    PROVE  /\ Completed(r, code, a) \in OpRecord
           /\ Shape(Completed(r, code, a))
           /\ Completed(r, code, a).phase = "done"
           /\ Completed(r, code, a).code = code
           /\ Completed(r, code, a).rpc = r.rpc
           /\ Completed(r, code, a).wrote = r.wrote
<1>1. AnyIntent \in Intents
  BY AdvancedAssumption DEF AnyIntent
<1>2. Live(r.object) \in BOOLEAN
  BY DEF Live
<1>3. Completed(r, code, a) \in OpRecord
  BY ZenonT(60), <1>1, <1>2 DEF Completed, OpRecord
<1>4. /\ Completed(r, code, a).phase = "done"
      /\ Completed(r, code, a).code = code
      /\ Completed(r, code, a).rpc = r.rpc
      /\ Completed(r, code, a).wrote = r.wrote
  BY DEF Completed, OpRecord
<1>5. Shape(Completed(r, code, a))
  BY <1>4 DEF Shape
<1> QED BY <1>3, <1>4, <1>5

\* A new operation is well typed.
LEMMA NewOpTyped ==
    ASSUME NEW phase \in {"unused", "bands", "commit", "reload", "done"},
           generation \in Object
    PROVE  NewOp(phase) \in OpRecord
<1>1. AnyIntent \in Intents
  BY AdvancedAssumption DEF AnyIntent
<1> QED BY <1>1, AdvancedAssumption DEF NewOp, OpRecord, Object, Codes

\* Completing one operation under way keeps the invariant, provided that its
\* reply is true.
LEMMA CompleteKeeps ==
    ASSUME Inv, NEW o \in Op, InFlight(o), handler \in {NoOp, o}, handler' = NoOp,
           NEW r \in OpRecord, r.object = op[o].object,
           NEW code \in Codes,
           NEW a \in {"none", "pending", "reloaded", "failed", "outcome_unknown"},
           Complete1(o, r, code, a),
           TrueReply(r, code), RestTyped'
    PROVE  Inv'
<1> DEFINE d == Completed(r, code, a)
<1>1. /\ d \in OpRecord /\ Shape(d)
      /\ d.phase = "done" /\ d.code = code /\ d.rpc = r.rpc /\ d.wrote = r.wrote
  BY CompletedShape DEF d
<1> HIDE DEF d
<1>2. op' = [op EXCEPT ![o] = d] /\ Free({o})
  BY DEF Complete1, d
<1>3. op' \in [Op -> OpRecord]
  BY <1>1, <1>2 DEF Inv, TypeOK
<1>4. Shapes'
  <2>1. Truthful(d)
    BY <1>1 DEF Truthful, TrueReply
  <2> QED BY <1>1, <1>2, <2>1 DEF Inv, TypeOK, Shapes
<1>5. /\ kind' \in [Object -> {"none", "advanced", "other"}]
      /\ holder' \in [Object -> Op \cup {NoOp}]
      /\ cooling' \in [Object -> BOOLEAN]
  BY <1>2 DEF Inv, TypeOK, Free
<1>6. \A p \in Op : op'[p].phase = "commit" <=> handler' = p
  BY <1>1, <1>2, AdvancedAssumption DEF Inv, TypeOK
<1>7. OneAdvancedPerModem'
  BY <1>1, <1>2, AdvancedAssumption DEF Inv, TypeOK, OneAdvancedPerModem, Free, InFlight
<1> QED BY <1>3, <1>4, <1>5, <1>6, <1>7, AdvancedAssumption DEF Inv, TypeOK, RestTyped

\* Admitting a request keeps the invariant.
LEMMA StartKeeps ==
    ASSUME Inv, NEW o \in Op, op[o].phase = "unused", Admits,
           NEW r \in OpRecord, r.object = generation, r.phase \in {"bands", "commit"}, Shape(r),
           op' = [op EXCEPT ![o] = r], Lock(o),
           handler' = IF r.phase = "commit" THEN o ELSE NoOp,
           RestTyped'
    PROVE  Inv'
<1>1. op' \in [Op -> OpRecord]
  BY DEF Inv, TypeOK
<1>2. Shapes'
  BY DEF Inv, TypeOK, Shapes, Truthful
<1>3. /\ kind' \in [Object -> {"none", "advanced", "other"}]
      /\ holder' \in [Object -> Op \cup {NoOp}]
      /\ cooling' \in [Object -> BOOLEAN]
  BY DEF Inv, TypeOK, Lock
<1>4. \A p \in Op : op'[p].phase = "commit" <=> handler' = p
  BY AdvancedAssumption DEF Inv, TypeOK, Admits
<1>5. OneAdvancedPerModem'
  BY AdvancedAssumption DEF Inv, TypeOK, OneAdvancedPerModem, Lock, Admits, InFlight
<1> QED BY <1>1, <1>2, <1>3, <1>4, <1>5 DEF Inv, TypeOK, RestTyped

\* A step that leaves phases, objects and results alone keeps the invariant.
LEMMA UpdateKeeps ==
    ASSUME Inv, op' \in [Op -> OpRecord],
           \A p \in Op : /\ op'[p].phase = op[p].phase /\ op'[p].object = op[p].object
                         /\ op'[p].section = op[p].section /\ op'[p].wrote = op[p].wrote
                         /\ op'[p].code = op[p].code
                         /\ \/ op'[p].rpc = op[p].rpc
                            \/ op[p].rpc = "sent" /\ op'[p].rpc # "none",
           kind' \in [Object -> {"none", "advanced", "other"}],
           \A m \in Object : kind'[m] = "advanced" <=> kind[m] = "advanced",
           cooling' \in [Object -> BOOLEAN],
           holder' = holder, handler' = handler, RestTyped'
    PROVE  Inv'
<1>1. Shapes'
  BY DEF Inv, Shapes, Shape, Truthful, TrueReply
<1>2. OneAdvancedPerModem'
  BY DEF Inv, OneAdvancedPerModem, InFlight
<1> QED BY <1>1, <1>2 DEF Inv, TypeOK, RestTyped

-----------------------------------------------------------------------------
(* The actions.                                                            *)

\* The invariant holds when the bridge starts.
LEMMA InitInv == Init => Inv
<1> SUFFICES ASSUME Init PROVE Inv
  OBVIOUS
<1>1. generation \in Object
  BY AdvancedAssumption DEF Init, Object
<1>2. NewOp("unused") \in OpRecord
  BY <1>1, NewOpTyped
<1>3. \A o \in Op : op[o] \in OpRecord /\ op[o].phase = "unused"
  <2> DEFINE r == [NewOp("unused") EXCEPT !.object = 0]
  <2>1. NewOp("unused").phase = "unused" /\ 0 \in 0..MaxGen
    BY AdvancedAssumption DEF NewOp
  <2>2. r \in OpRecord /\ r.phase = "unused"
    BY <1>2, <2>1 DEF OpRecord
  <2>3. op = [o \in Op |-> r]
    BY DEF Init
  <2> HIDE DEF r
  <2> QED BY <2>2, <2>3
<1>4. op \in [Op -> OpRecord]
  BY <1>3 DEF Init
<1>5. TypeOK
  BY <1>1, <1>3, <1>4, AdvancedAssumption DEF Init, TypeOK
<1>6. Shapes
  BY <1>3 DEF Shapes, Shape, Truthful
<1>7. OneAdvancedPerModem
  BY <1>3, AdvancedAssumption DEF Init, OneAdvancedPerModem, InFlight
<1> QED BY <1>5, <1>6, <1>7 DEF Inv

\* set_bands: refused at once, or the mutation lock is taken.
LEMMA SetBandsKeeps == ASSUME Inv, NEW o \in Op, SetBands(o) PROVE Inv'
<1> DEFINE r == [NewOp("bands") EXCEPT !.rpc = "sent"]
<1>1. NewOp("bands") \in OpRecord /\ generation \in Object
  BY NewOpTyped DEF Inv, TypeOK
<1>2. NewOp("bands").phase = "bands" /\ NewOp("bands").object = generation
  BY DEF NewOp
<1>3. r \in OpRecord /\ r.phase = "bands" /\ r.object = generation /\ r.rpc = "sent"
  BY <1>1, <1>2 DEF OpRecord
<1> HIDE DEF r
<1>4. Shape(r)
  BY <1>1, <1>3 DEF Shape
<1>5. op' = [op EXCEPT ![o] = r] /\ Lock(o) /\ Admits /\ op[o].phase = "unused"
  BY DEF SetBands, r
<1>6. RestTyped' /\ handler' = NoOp
  BY DEF SetBands, Admits, Inv, TypeOK, RestTyped
<1> QED BY <1>3, <1>4, <1>5, <1>6, StartKeeps

\* ModemManager carries the band change out.
LEMMA ExecutesKeeps == ASSUME Inv, NEW o \in Op, Executes(o) PROVE Inv'
<1>1. PICK r \in {"applied", "refused"} : op' = [op EXCEPT ![o].rpc = r]
  BY DEF Executes
<1>2. op' \in [Op -> OpRecord]
  <2>1. [op[o] EXCEPT !.rpc = r] \in OpRecord
    BY DEF Inv, TypeOK, OpRecord
  <2> QED BY <1>1, <2>1 DEF Inv, TypeOK
<1>3. \A p \in Op : /\ op'[p].phase = op[p].phase /\ op'[p].object = op[p].object
                    /\ op'[p].section = op[p].section /\ op'[p].wrote = op[p].wrote
                    /\ op'[p].code = op[p].code
                    /\ \/ op'[p].rpc = op[p].rpc
                       \/ op[p].rpc = "sent" /\ op'[p].rpc # "none"
  BY <1>1 DEF Inv, TypeOK, OpRecord, Executes
<1>4. RestTyped' /\ UNCHANGED <<kind, holder, cooling, handler>>
  BY DEF Executes, Inv, TypeOK, RestTyped
<1> QED BY <1>2, <1>3, <1>4, UpdateKeeps DEF Inv, TypeOK

\* The answer of ModemManager, late or not, ends the band operation.
LEMMA BandsReadyKeeps == ASSUME Inv, NEW o \in Op, BandsReady(o) PROVE Inv'
<1>1. PICK a \in Answers(o) :
         Complete1(o, op[o],
                   IF OutcomeUnknown(o, a) THEN "outcome_unknown"
                   ELSE IF a = "cancelled" THEN "refused" ELSE a, "none")
  BY DEF BandsReady
<1> DEFINE code == IF OutcomeUnknown(o, a) THEN "outcome_unknown"
                   ELSE IF a = "cancelled" THEN "refused" ELSE a
<1>2. code \in Codes
  BY <1>1 DEF Answers, Codes, OutcomeUnknown
<1>6. /\ code = "ok" => op[o].rpc = "applied"
      /\ code \in {"refused", "busy"} => op[o].rpc = "refused"
  BY <1>1 DEF Answers, OutcomeUnknown
<1> HIDE DEF code
<1>3. op[o] \in OpRecord /\ op[o].rpc # "none" /\ InFlight(o)
  BY DEF BandsReady, Inv, TypeOK, Shapes, Shape, InFlight
<1>4. RestTyped' /\ handler' = NoOp /\ handler = NoOp
  BY DEF BandsReady, Inv, TypeOK, RestTyped
<1>5. Complete1(o, op[o], code, "none")
  BY <1>1 DEF code
<1>7. TrueReply(op[o], code)
  BY <1>3, <1>6 DEF TrueReply
<1> QED BY <1>2, <1>3, <1>4, <1>5, <1>7, CompleteKeeps

\* A set_modes refused before anything is written.
LEMMA RefuseModesKeeps ==
    ASSUME Inv, NEW o \in Op, op[o].phase = "unused", handler = NoOp, RestTyped',
           NEW code \in Codes, code # "ok", RefuseModes(o, code)
    PROVE  Inv'
<1> DEFINE d == Completed(NewOp("commit"), code, "none")
<1>1. /\ NewOp("commit") \in OpRecord /\ NewOp("commit").wrote = "no"
      /\ NewOp("commit").rpc = "none"
  BY NewOpTyped DEF Inv, TypeOK, NewOp
<1>2. /\ d \in OpRecord /\ Shape(d) /\ d.phase = "done" /\ d.code = code /\ d.wrote = "no"
      /\ d.rpc = "none"
  BY <1>1, CompletedShape DEF d
<1> HIDE DEF d
<1>3. op' = [op EXCEPT ![o] = d] /\ UNCHANGED <<kind, holder, handler>>
  BY DEF RefuseModes, d
<1>4. op' \in [Op -> OpRecord] /\ Shapes'
  <2>1. Truthful(d)
    BY <1>2 DEF Truthful, TrueReply
  <2> QED BY <1>2, <1>3, <2>1 DEF Inv, TypeOK, Shapes
<1>5. cooling' \in [Object -> BOOLEAN]
  BY DEF RefuseModes, Inv, TypeOK
<1>6. \A p \in Op : op'[p].phase = "commit" <=> handler' = p
  BY <1>2, <1>3, AdvancedAssumption DEF Inv, TypeOK
<1>7. OneAdvancedPerModem'
  BY <1>2, <1>3 DEF Inv, TypeOK, OneAdvancedPerModem, InFlight
<1> QED BY <1>3, <1>4, <1>5, <1>6, <1>7 DEF Inv, TypeOK, RestTyped

\* set_modes: refused, or the file transaction begins.
LEMMA SetModesKeeps == ASSUME Inv, NEW o \in Op, SetModes(o) PROVE Inv'
<1>1. RestTyped' /\ handler = NoOp /\ op[o].phase = "unused" /\ Admits
  BY DEF SetModes, Admits, Inv, TypeOK, RestTyped
<1>2. ASSUME NEW code \in {"persistence_failed", "netifd_binding_not_found",
                           "netifd_binding_ambiguous"}, RefuseModes(o, code)
      PROVE  Inv'
  BY <1>1, <1>2, RefuseModesKeeps DEF Codes
<1>3. ASSUME NEW i \in Intents, NEW s \in Matches(file),
             op' = [op EXCEPT ![o] = [NewOp("commit") EXCEPT !.section = s, !.intent = i]],
             Lock(o), handler' = o
      PROVE  Inv'
  <2> DEFINE r == [NewOp("commit") EXCEPT !.section = s, !.intent = i]
  <2>1. NewOp("commit") \in OpRecord /\ generation \in Object
    BY NewOpTyped DEF Inv, TypeOK
  <2>2. /\ NewOp("commit").phase = "commit" /\ NewOp("commit").object = generation
        /\ NewOp("commit").wrote = "no" /\ NewOp("commit").rpc = "none"
    BY DEF NewOp
  <2>3. s \in Section
    BY DEF Matches
  <2>4. /\ r \in OpRecord /\ r.phase = "commit" /\ r.object = generation
        /\ r.wrote = "no" /\ r.rpc = "none" /\ r.section = s
    BY <2>1, <2>2, <2>3 DEF OpRecord
  <2> HIDE DEF r
  <2>5. Shape(r)
    BY <2>1, <2>3, <2>4 DEF Shape
  <2>6. op' = [op EXCEPT ![o] = r]
    BY <1>3 DEF r
  <2> QED BY <1>1, <1>3, <2>4, <2>5, <2>6, StartKeeps
<1> QED BY <1>2, <1>3 DEF SetModes

\* The operation that commits: what its phase says, and what the file is
\* after the commit.
LEMMA CommitFacts ==
    ASSUME Inv, NEW o \in Op, CommitModes(o)
    PROVE  /\ op[o] \in OpRecord /\ InFlight(o) /\ Shape(op[o])
           /\ op[o].phase = "commit" /\ handler' = NoOp
           /\ Wrote(o) \in OpRecord
           /\ Wrote(o).object = op[o].object /\ Wrote(o).rpc = "none"
           /\ Written(o) \in [Section -> [bound : BOOLEAN, modes : Intents]]
           /\ IsExactSection(Written(o), op[o].section) => Wrote(o).wrote = "bound"
           /\ RestTyped'
<1>1. op[o] \in OpRecord /\ op[o].phase = "commit" /\ Shape(op[o])
  BY DEF CommitModes, Inv, TypeOK, Shapes
<1>2. op[o].section \in Section /\ op[o].rpc = "none" /\ op[o].intent \in Intents
  BY <1>1 DEF Shape, OpRecord
<1>3. /\ Wrote(o) \in OpRecord
      /\ Wrote(o).object = op[o].object /\ Wrote(o).rpc = "none"
      /\ Wrote(o).wrote = IF Matches(file) = {op[o].section} THEN "bound" ELSE "stray"
  BY <1>1, <1>2 DEF Wrote, OpRecord
<1>4. Written(o) \in [Section -> [bound : BOOLEAN, modes : Intents]]
  BY <1>2 DEF Written, Committed, Inv, TypeOK
<1>5. Matches(Written(o)) = Matches(file)
  <2>1. \A s \in Section : Written(o)[s].bound = file[s].bound
    BY <1>2 DEF Written, Committed, Inv, TypeOK
  <2> QED BY <2>1 DEF Matches
<1>6. file' = file \/ file' = Written(o)
  BY DEF CommitModes, CommitFails, ReadbackFails, Persisted
<1>7. RestTyped' /\ handler' = NoOp
  BY <1>4, <1>6 DEF CommitModes, RestTyped, Inv, TypeOK
<1> QED BY <1>1, <1>3, <1>4, <1>5, <1>7 DEF IsExactSection, InFlight

\* The file transaction: not written, written elsewhere, or the reload starts.
LEMMA CommitModesKeeps == ASSUME Inv, NEW o \in Op, CommitModes(o) PROVE Inv'
<1>1. /\ op[o] \in OpRecord /\ InFlight(o) /\ Shape(op[o])
      /\ op[o].phase = "commit" /\ handler' = NoOp /\ handler = o
      /\ Wrote(o) \in OpRecord
      /\ Wrote(o).object = op[o].object /\ Wrote(o).rpc = "none"
      /\ IsExactSection(Written(o), op[o].section) => Wrote(o).wrote = "bound"
      /\ RestTyped'
  BY CommitFacts DEF CommitModes
<1>2. CASE CommitFails(o)
  <2>1. \E r \in OpRecord : r.object = op[o].object /\ Complete1(o, r, "outcome_unknown", "none")
    BY <1>1, <1>2 DEF CommitFails
  <2>2. \A r \in OpRecord : TrueReply(r, "outcome_unknown")
    BY DEF TrueReply
  <2> QED BY <1>1, <2>1, <2>2, CompleteKeeps DEF Codes
<1>3. CASE ReadbackFails(o)
  <2>1. Complete1(o, Wrote(o), "outcome_unknown", "none")
    BY <1>3 DEF ReadbackFails
  <2>2. TrueReply(Wrote(o), "outcome_unknown")
    BY DEF TrueReply
  <2> QED BY <1>1, <2>1, <2>2, CompleteKeeps DEF Codes
<1>4. CASE Persisted(o)
  <2>1. Wrote(o).wrote = "bound"
    BY <1>1, <1>4 DEF Persisted
  <2>2. CASE Complete1(o, Wrote(o), "ok", "pending")
    <3>1. TrueReply(Wrote(o), "ok")
      BY <1>1, <2>1 DEF TrueReply
    <3> QED BY <1>1, <2>2, <3>1, CompleteKeeps DEF Codes
  <2>3. CASE /\ op' = [op EXCEPT ![o] = [Wrote(o) EXCEPT !.phase = "reload",
                                            !.section = NoSection, !.intent = AnyIntent]]
             /\ UNCHANGED <<kind, holder, cooling>>
    <3> DEFINE r == [Wrote(o) EXCEPT !.phase = "reload", !.section = NoSection,
                                     !.intent = AnyIntent]
    <3>1. AnyIntent \in Intents
      BY AdvancedAssumption DEF AnyIntent
    <3>2. /\ r \in OpRecord /\ r.phase = "reload" /\ r.object = op[o].object
          /\ r.wrote = "bound" /\ r.rpc = "none"
      BY <1>1, <2>1, <3>1 DEF OpRecord
    <3>3. op' = [op EXCEPT ![o] = r]
      BY <2>3 DEF r
    <3> HIDE DEF r
    <3>4. Shape(r)
      BY <1>1, <3>2 DEF Shape
    <3>5. op' \in [Op -> OpRecord] /\ Shapes'
      BY <3>2, <3>3, <3>4 DEF Inv, TypeOK, Shapes, Truthful
    <3>6. \A p \in Op : op'[p].phase = "commit" <=> handler' = p
      BY <1>1, <3>2, <3>3, AdvancedAssumption DEF Inv, TypeOK
    <3>7. OneAdvancedPerModem'
      BY <1>1, <2>3, <3>2, <3>3 DEF Inv, TypeOK, OneAdvancedPerModem, InFlight
    <3> QED BY <1>1, <2>3, <3>5, <3>6, <3>7, AdvancedAssumption DEF Inv, TypeOK, RestTyped
  <2> QED BY <1>4, <2>2, <2>3 DEF Persisted
<1> QED BY <1>2, <1>3, <1>4 DEF CommitModes

\* The answer of the network reload ends the mode operation.
LEMMA ReloadCompleteKeeps == ASSUME Inv, NEW o \in Op, ReloadComplete(o) PROVE Inv'
<1>1. PICK a \in {"reloaded", "failed"} : Complete1(o, op[o], "ok", a)
  BY DEF ReloadComplete
<1>2. op[o] \in OpRecord /\ TrueReply(op[o], "ok") /\ InFlight(o)
  BY DEF ReloadComplete, Inv, TypeOK, Shapes, Shape, InFlight, TrueReply
<1>3. RestTyped' /\ handler' = NoOp /\ handler = NoOp
  BY DEF ReloadComplete, Inv, TypeOK, RestTyped
<1> QED BY <1>1, <1>2, <1>3, CompleteKeeps DEF Codes

\* The timer ends a mode operation and only cancels a band operation.
LEMMA OperationTimeoutKeeps == ASSUME Inv, NEW o \in Op, OperationTimeout(o) PROVE Inv'
<1>1. RestTyped' /\ handler' = NoOp /\ handler = NoOp /\ InFlight(o) /\ op[o] \in OpRecord
  BY DEF OperationTimeout, Inv, TypeOK, RestTyped
<1>2. CASE op[o].phase = "reload" /\ Complete1(o, op[o], "ok", "outcome_unknown")
  <2>1. TrueReply(op[o], "ok")
    BY <1>2 DEF Inv, Shapes, Shape, TrueReply
  <2> QED BY <1>1, <1>2, <2>1, CompleteKeeps DEF Codes
<1>3. CASE /\ op' = [op EXCEPT ![o].timedOut = TRUE, ![o].cancelled = TRUE]
           /\ UNCHANGED <<kind, holder, cooling>>
  <2>0. op' = [op EXCEPT ![o] = [op[o] EXCEPT !.timedOut = TRUE, !.cancelled = TRUE]]
    BY <1>3 DEF Inv, TypeOK
  <2>1. op' \in [Op -> OpRecord]
    <3>1. [op[o] EXCEPT !.timedOut = TRUE, !.cancelled = TRUE] \in OpRecord
      BY <1>1 DEF OpRecord
    <3> QED BY <2>0, <3>1 DEF Inv, TypeOK
  <2>2. \A p \in Op : /\ op'[p].phase = op[p].phase /\ op'[p].object = op[p].object
                      /\ op'[p].section = op[p].section /\ op'[p].wrote = op[p].wrote
                      /\ op'[p].code = op[p].code /\ op'[p].rpc = op[p].rpc
    BY <1>3 DEF Inv, TypeOK, OpRecord
  <2> QED BY <1>1, <1>3, <2>1, <2>2, UpdateKeeps DEF Inv, TypeOK
<1> QED BY <1>2, <1>3 DEF OperationTimeout

\* The connection is lost: reloads are dropped, band operations cancelled.
LEMMA ConnectionLostKeeps == ASSUME Inv, ConnectionLost PROVE Inv'
<1> DEFINE freed == {o \in Op : op[o].phase = "reload"}
<1>1. /\ Free(freed)
      /\ op' = [o \in Op |->
            CASE o \in freed -> Completed(op[o], "dropped", "none")
              [] op[o].phase = "bands" -> [op[o] EXCEPT !.lost = TRUE, !.cancelled = TRUE]
              [] OTHER -> op[o]]
  BY DEF ConnectionLost
<1>2. RestTyped' /\ handler' = NoOp /\ handler = NoOp
  BY DEF ConnectionLost, Inv, TypeOK, RestTyped
<1>3. ASSUME NEW o \in Op, op[o].phase = "reload"
      PROVE  /\ op'[o] \in OpRecord /\ Shape(op'[o]) /\ Truthful(op'[o])
             /\ op'[o].phase = "done"
  <2>1. op[o] \in OpRecord /\ op'[o] = Completed(op[o], "dropped", "none")
    BY <1>1, <1>3 DEF Inv, TypeOK
  <2>2. /\ op'[o] \in OpRecord /\ Shape(op'[o]) /\ op'[o].phase = "done"
        /\ op'[o].code = "dropped"
    BY <2>1, CompletedShape DEF Codes
  <2> QED BY <2>2 DEF Truthful, TrueReply
<1>4. ASSUME NEW o \in Op, op[o].phase # "reload"
      PROVE  /\ op'[o] \in OpRecord /\ Shape(op'[o]) /\ Truthful(op'[o])
             /\ op'[o].phase = op[o].phase /\ op'[o].object = op[o].object
  <2>1. op[o] \in OpRecord /\ Shape(op[o]) /\ Truthful(op[o])
    BY DEF Inv, TypeOK, Shapes
  <2>2. CASE op[o].phase = "bands"
    <3>1. op'[o] = [op[o] EXCEPT !.lost = TRUE, !.cancelled = TRUE]
      BY <1>1, <2>2
    <3> QED BY <2>1, <2>2, <3>1 DEF OpRecord, Shape, Truthful
  <2>3. CASE op[o].phase # "bands"
    <3>1. op'[o] = op[o]
      BY <1>1, <1>4, <2>3
    <3> QED BY <2>1, <3>1
  <2> QED BY <2>2, <2>3
<1>5. op' \in [Op -> OpRecord] /\ Shapes'
  BY <1>1, <1>3, <1>4 DEF Shapes
<1>6. /\ kind' \in [Object -> {"none", "advanced", "other"}]
      /\ holder' \in [Object -> Op \cup {NoOp}]
      /\ cooling' \in [Object -> BOOLEAN]
  BY <1>1 DEF Inv, TypeOK, Free
<1>7. \A p \in Op : op'[p].phase = "commit" <=> handler' = p
  BY <1>2, <1>3, <1>4, AdvancedAssumption DEF Inv, TypeOK
<1>8. OneAdvancedPerModem'
  <2> SUFFICES ASSUME NEW m \in Object, NEW o \in Op
               PROVE  op'[o].phase \in {"bands", "commit", "reload"} /\ op'[o].object = m
                        <=> kind'[m] = "advanced" /\ holder'[m] = o
    BY DEF OneAdvancedPerModem, InFlight
  <2>1. op[o].phase \in {"bands", "commit", "reload"} /\ op[o].object = m
          <=> kind[m] = "advanced" /\ holder[m] = o
    BY DEF Inv, OneAdvancedPerModem, InFlight
  <2>2. kind'[m] = "advanced" /\ holder'[m] = o
          <=> kind[m] = "advanced" /\ holder[m] = o /\ o \notin freed
    BY <1>1, AdvancedAssumption DEF Free
  <2> QED BY <1>3, <1>4, <2>1, <2>2
<1> QED BY <1>2, <1>5, <1>6, <1>7, <1>8, AdvancedAssumption DEF Inv, TypeOK, RestTyped

\* The removal of the modem only cancels what is under way.
LEMMA ModemRemovedKeeps == ASSUME Inv, ModemRemoved PROVE Inv'
<1>1. \A p \in Op : op'[p] = op[p] \/ op'[p] = [op[p] EXCEPT !.cancelled = TRUE]
  BY DEF ModemRemoved
<1>2. \A p \in Op : /\ op'[p] \in OpRecord
                    /\ op'[p].phase = op[p].phase /\ op'[p].object = op[p].object
                    /\ op'[p].section = op[p].section /\ op'[p].wrote = op[p].wrote
                    /\ op'[p].code = op[p].code /\ op'[p].rpc = op[p].rpc
  <2> TAKE p \in Op
  <2>1. op[p] \in OpRecord
    BY DEF Inv, TypeOK
  <2>2. CASE op'[p] = op[p]
    BY <2>1, <2>2
  <2>3. CASE op'[p] = [op[p] EXCEPT !.cancelled = TRUE]
    BY <2>1, <2>3 DEF OpRecord
  <2> QED BY <1>1, <2>2, <2>3
<1>3. op' \in [Op -> OpRecord]
  BY <1>2 DEF ModemRemoved
<1>4. RestTyped' /\ UNCHANGED <<kind, holder, cooling, handler>>
  BY DEF ModemRemoved, Inv, TypeOK, RestTyped
<1> QED BY <1>2, <1>3, <1>4, UpdateKeeps DEF Inv, TypeOK

\* The steps of the environment, and of the bridge between operations.
LEMMA EnvironmentKeeps ==
    ASSUME Inv,
           \/ Reconnect \/ ModemAdded \/ OtherStarts \/ OtherEnds
           \/ CooldownEnds \/ FileEdited \/ ModesChanged
    PROVE  Inv'
<1>1. op' = op /\ holder' = holder /\ handler' = handler
  BY DEF Reconnect, ModemAdded, OtherStarts, OtherEnds, CooldownEnds, FileEdited, ModesChanged
<1>2. generation' \in Object
  BY AdvancedAssumption DEF Inv, TypeOK, Object, Reconnect, ModemAdded, OtherStarts, OtherEnds,
     CooldownEnds, FileEdited, ModesChanged
<1>3. file' \in [Section -> [bound : BOOLEAN, modes : Intents]]
  BY DEF Inv, TypeOK, Reconnect, ModemAdded, OtherStarts, OtherEnds, CooldownEnds,
     FileEdited, ModesChanged
<1>4. live' \in BOOLEAN /\ modes' \in Modes /\ connected' \in BOOLEAN
  BY DEF Inv, TypeOK, Reconnect, ModemAdded, OtherStarts, OtherEnds, CooldownEnds,
     FileEdited, ModesChanged
<1>5. cooling' \in [Object -> BOOLEAN]
  BY DEF Inv, TypeOK, Reconnect, ModemAdded, OtherStarts, OtherEnds, CooldownEnds,
     FileEdited, ModesChanged
<1>6. /\ kind' \in [Object -> {"none", "advanced", "other"}]
      /\ \A m \in Object : kind'[m] = "advanced" <=> kind[m] = "advanced"
  BY DEF Inv, TypeOK, Reconnect, ModemAdded, OtherStarts, OtherEnds, CooldownEnds,
     FileEdited, ModesChanged
<1>7. RestTyped'
  BY <1>2, <1>3, <1>4 DEF RestTyped
<1> QED BY <1>1, <1>5, <1>6, <1>7, UpdateKeeps DEF Inv, TypeOK

-----------------------------------------------------------------------------
\* The invariant is inductive.
LEMMA NextInv == Inv /\ [Next]_vars => Inv'
<1> SUFFICES ASSUME Inv, [Next]_vars PROVE Inv'
  OBVIOUS
<1>1. ASSUME NEW o \in Op,
             \/ SetBands(o) \/ Executes(o) \/ BandsReady(o) \/ SetModes(o)
             \/ CommitModes(o) \/ ReloadComplete(o) \/ OperationTimeout(o)
      PROVE  Inv'
  BY <1>1, SetBandsKeeps, ExecutesKeeps, BandsReadyKeeps, SetModesKeeps, CommitModesKeeps,
     ReloadCompleteKeeps, OperationTimeoutKeeps
<1>2. CASE ConnectionLost \/ ModemRemoved
  BY <1>2, ConnectionLostKeeps, ModemRemovedKeeps
<1>3. CASE \/ Reconnect \/ ModemAdded \/ OtherStarts \/ OtherEnds
           \/ CooldownEnds \/ FileEdited \/ ModesChanged
  BY <1>3, EnvironmentKeeps
<1>4. CASE UNCHANGED vars
  BY <1>4 DEF Inv, vars, TypeOK, Shapes, OneAdvancedPerModem, InFlight, Shape, Truthful,
              TrueReply
<1> QED BY <1>1, <1>2, <1>3, <1>4 DEF Next

\* The invariant of every reachable state.
LEMMA Invariance == Spec => []Inv
<1> QED BY InitInv, NextInv, PTL DEF Spec

\* Every reachable state is well typed, and only a call of method_set_modes
\* is in the middle of the network file.
THEOREM AdvancedTypes == Spec => []TypeOK
<1>1. Inv => TypeOK
  BY DEF Inv
<1> QED BY <1>1, Invariance, PTL

\* At any time a modem object has at most one band or mode operation, and its
\* mutation lock belongs to it until it ends.
THEOREM AdvancedExclusion == Spec => []OneAdvancedPerModem
<1>1. Inv => OneAdvancedPerModem
  BY DEF Inv
<1> QED BY <1>1, Invariance, PTL

\* What set_modes reports about the network file is true, whatever other
\* processes do to the file.
THEOREM ModesTruth == Spec => []ModesReplyTruthful
<1>1. Inv => ModesReplyTruthful
  BY DEF Inv, Shapes, Truthful, TrueReply, ModesReplyTruthful
<1> QED BY <1>1, Invariance, PTL

\* What set_bands reports about the call of SetCurrentBands is true: success
\* only if ModemManager applied it, a definite failure only if it refused,
\* however late it answers and whatever interrupts the operation
\* (advanced_operation_ready, advanced_operation_outcome_is_unknown).
THEOREM BandsTruth == Spec => []BandsReplyTruthful
<1>1. Inv => BandsReplyTruthful
  BY DEF Inv, Shapes, Truthful, TrueReply, BandsReplyTruthful
<1> QED BY <1>1, Invariance, PTL
=============================================================================
