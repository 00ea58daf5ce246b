------------------------------ MODULE SmsSend ------------------------------
(***************************************************************************)
(* SMS sending and deletion of l850gl-mm-bridge (ubus_glib.c) on one modem *)
(* object: the client-token dedupe queue, the asynchronous Create/Send and *)
(* Delete operations, and what interrupts them: the operation timer, the   *)
(* loss of the ubus connection, the removal of the modem object and the    *)
(* start of a new messaging epoch (reconcile_messaging in bridge.c).       *)
(*                                                                         *)
(* Every action is one callback of the single-threaded main loop.          *)
(* Requests that are refused without changing any state (stale identity,   *)
(* busy, not ready) are not actions.                                       *)
(***************************************************************************)
EXTENDS Naturals, Sequences, FiniteSets

CONSTANTS
    Op,        \* send_sms and delete_sms requests
    Token,     \* client tokens
    NoToken,   \* the token of a delete request
    Content,   \* recipient and text, as their SHA-256 digest tells them apart
    Proxy,     \* messaging proxies libmm may hand out for the modem
    NoProxy,   \* no messaging interface
    NoOp,      \* no operation holds the modem
    Capacity,  \* L850GL_SMS_DEDUPE_MAX
    MaxEpoch   \* the last messaging_generation (G_MAXUINT32)

ASSUME ConstantsAssumption ==
    /\ NoToken \notin Token
    /\ NoProxy \notin Proxy
    /\ NoOp \notin Op
    /\ Content # {}
    /\ Capacity \in Nat \ {0}
    /\ MaxEpoch \in Nat

VARIABLES
    live,       \* modem->live
    mgen,       \* modem->messaging_generation
    messaging,  \* modem->messaging
    kind,       \* modem->mutation_kind; "none" iff not mutation_busy
    holder,     \* the SMS operation whose cancellable the modem holds
    dedupe,     \* modem->sms_dedupe, oldest first
    op,         \* the requests
    connected,  \* ubus->connected
    started,    \* history: the operations in the order they were accepted
    expired,    \* history: operations whose entry expired
    evicted     \* history: operations whose entry was evicted

vars == <<live, mgen, messaging, kind, holder, dedupe, op, connected, started, expired, evicted>>

Codes == {"none", "ok", "deduplicated", "cached", "invalid_argument", "outcome_unknown",
          "device_gone", "stale_messaging_generation", "timeout", "dependency_unavailable",
          "refused", "busy", "internal_error", "unsupported"}

(***************************************************************************)
(* A SmsOperation.  code and retryable are the reply once phase is "done". *)
(* Whether the deferred request can still be answered is left out: that is *)
(* the same code as PciLock's, and decides nothing here.                   *)
(***************************************************************************)
OpRecord ==
    [phase      : {"unused", "create", "send", "delete", "done"},
     token      : Token \cup {NoToken},
     content    : Content,
     mgen       : 0..MaxEpoch,
     messaging  : Proxy \cup {NoProxy},
     timedOut   : BOOLEAN,
     lost       : BOOLEAN,
     cancelled  : BOOLEAN,
     dispatched : BOOLEAN,   \* send_dispatched
     code       : Codes,
     retryable  : BOOLEAN]

\* An L850GLSmsDedupe; "by" is history: the operation that stored it.
Entry == [token : Token, content : Content, ok : BOOLEAN,
          code : {"none", "busy", "outcome_unknown"}, by : Op]

NewOp(phase, token, content) ==
    [phase |-> phase, token |-> token, content |-> content, mgen |-> mgen,
     messaging |-> messaging, timedOut |-> FALSE, lost |-> FALSE, cancelled |-> FALSE,
     dispatched |-> FALSE, code |-> "none", retryable |-> FALSE]

InFlight(o) == op[o].phase \in {"create", "send", "delete"}

Init ==
    /\ live = TRUE
    /\ mgen = 0
    /\ messaging = NoProxy
    /\ kind = "none"
    /\ holder = NoOp
    /\ dedupe = <<>>
    /\ op = [o \in Op |-> NewOp("unused", NoToken, CHOOSE c \in Content : TRUE)]
    /\ connected = TRUE
    /\ started = <<>>
    /\ expired = {}
    /\ evicted = {}

-----------------------------------------------------------------------------
(* The dedupe queue.                                                       *)

Find(q, t) == {i \in 1..Len(q) : q[i].token = t}

\* The queue without the first entry of a token, if there is one.
Without(q, t) ==
    LET i == CHOOSE i \in Find(q, t) : \A j \in Find(q, t) : i <= j
    IN  IF Find(q, t) = {} THEN q
        ELSE [k \in 1..(Len(q) - 1) |-> IF k < i THEN q[k] ELSE q[k + 1]]

\* Mutant: the entry stored last makes room.
EvictNewest(q) == IF Len(q) < Capacity THEN q ELSE SubSeq(q, 1, Capacity - 1)

\* l850gl_sms_dedupe_evictions_required, applied at the head.
Evict(q) == IF Len(q) < Capacity THEN q
                                 ELSE SubSeq(q, Len(q) - Capacity + 2, Len(q))

\* The operations whose entries Evict drops.
EvictedBy(q) == {q[i].by : i \in 1..(Len(q) - Len(Evict(q)))}

\* Mutant: new entries go to the end that is evicted.
PushHead(q, e) == <<e>> \o q

\* The order of the queue is the order in which its entries were stored.
Push(q, e) == Append(q, e)

\* sms_dedupe_store: replaces in place, or evicts and appends.
Store(o, ok, code) ==
    LET e == [token |-> op'[o].token, content |-> op'[o].content, ok |-> ok,
              code |-> code, by |-> o]
        at == Find(dedupe, e.token)
    IN  /\ UNCHANGED expired
        /\ IF at # {}
             THEN /\ dedupe' = [i \in 1..Len(dedupe) |-> IF i \in at THEN e ELSE dedupe[i]]
                  /\ UNCHANGED evicted
             ELSE /\ dedupe' = Push(Evict(dedupe), e)
                  /\ evicted' = evicted \cup EvictedBy(dedupe)

\* Mutant: the token of a failed send is kept.
RemoveNot(t) == UNCHANGED <<dedupe, expired, evicted>>

\* sms_dedupe_remove
Remove(t) == dedupe' = Without(dedupe, t) /\ UNCHANGED <<expired, evicted>>

-----------------------------------------------------------------------------
(* Operations.                                                             *)

\* sms_operation_stale_code: the epoch the operation captured is over.
Stale(o) == ~live \/ op[o].mgen # mgen \/ op[o].messaging # messaging

StaleCode == IF live THEN "stale_messaging_generation" ELSE "device_gone"

\* sms_operation_free
Free(o) == IF kind = "sms" /\ holder = o
             THEN kind' = "none" /\ holder' = NoOp
             ELSE UNCHANGED <<kind, holder>>

\* The operation is freed; whether it was cancelled stays as history.
Completed(r, code, retryable) ==
    [r EXCEPT !.phase = "done", !.code = code, !.retryable = retryable,
              !.messaging = NoProxy, !.timedOut = FALSE, !.lost = FALSE]

\* Mutants: an unknown outcome is remembered whatever the epoch, or never.
RemembersNever(o, code) == FALSE
RemembersAlways(o, code) == code = "outcome_unknown"

\* sms_operation_complete_error keeps the token only then.
Remembers(o, code) == ~Stale(o) /\ code = "outcome_unknown"

CompleteError(o, code, retryable) ==
    /\ op' = [op EXCEPT ![o] = Completed(@, code, retryable)]
    /\ Free(o)
    /\ IF op[o].token = NoToken THEN UNCHANGED <<dedupe, expired, evicted>>
       ELSE IF Remembers(o, code) THEN Store(o, FALSE, code)
       ELSE Remove(op[o].token)

(***************************************************************************)
(* The answers of ModemManager, by how normalize_sms_error sorts them:     *)
(* definite refusals (final or retryable), timeouts, broken transports.  A *)
(* cancelled operation only ever sees G_IO_ERROR_CANCELLED.  "refused"     *)
(* stands for every final code of ModemManager and for operation_failed.   *)
(***************************************************************************)
Answers(o) == IF op[o].cancelled THEN {"cancelled"}
                                 ELSE {"ok", "refused", "again", "uncertain", "broken"}

\* normalize_sms_error
Normalize(o, a) ==
    IF op[o].dispatched
       /\ (op[o].timedOut \/ op[o].lost \/ a \in {"uncertain", "broken", "cancelled"})
      THEN <<"outcome_unknown", FALSE>>
    ELSE IF Stale(o) THEN <<StaleCode, FALSE>>
    ELSE IF op[o].timedOut THEN <<"timeout", TRUE>>
    ELSE IF op[o].lost THEN <<"dependency_unavailable", TRUE>>
    ELSE CASE a = "uncertain" -> <<"timeout", TRUE>>
           [] a = "again" -> <<"busy", TRUE>>
           [] OTHER -> <<"refused", FALSE>>

CompleteNormalized(o, a) == CompleteError(o, Normalize(o, a)[1], Normalize(o, a)[2])

-----------------------------------------------------------------------------
(***************************************************************************)
(* method_send_sms for a request that names the current epoch.             *)
(***************************************************************************)
Admissible(o) ==
    /\ connected /\ live /\ messaging # NoProxy
    /\ op[o].phase = "unused"

\* A request answered from the dedupe queue.
SendCached(o, t, c) ==
    /\ Admissible(o)
    /\ \E i \in Find(dedupe, t) :
         LET r == NewOp("unused", t, c)
             e == dedupe[i]
         IN  op' = [op EXCEPT ![o] =
                      CASE e.content # c -> Completed(r, "invalid_argument", FALSE)
                        [] e.content = c /\ e.ok -> Completed(r, "deduplicated", FALSE)
                        [] OTHER -> Completed(r, "cached", e.code = "busy")]
    /\ UNCHANGED <<live, mgen, messaging, kind, holder, dedupe, connected, started, expired,
                   evicted>>

\* Mutant: the mutation lock is not tested.
NotTested == TRUE

MayMutate == kind = "none"

\* A request with a new token: the token is remembered as busy, and Create()
\* is called if sysfs attests the modem once more.
SendStarts(o, t, c) ==
    /\ Admissible(o)
    /\ Find(dedupe, t) = {}
    /\ MayMutate
    /\ op' = [op EXCEPT ![o] = NewOp("create", t, c)]
    /\ kind' = "sms" /\ holder' = o
    /\ Store(o, FALSE, "busy")
    /\ started' = Append(started, o)
    /\ UNCHANGED <<live, mgen, messaging, connected>>

\* The same, when the second attestation fails: the operation completes and
\* the token is removed again, at the cost of whatever its entry evicted.
SendUnattested(o, t, c) ==
    /\ Admissible(o)
    /\ Find(dedupe, t) = {}
    /\ MayMutate
    /\ op' = [op EXCEPT ![o] = Completed(NewOp("create", t, c), "unsupported", FALSE)]
    /\ dedupe' = Evict(dedupe)
    /\ evicted' = evicted \cup EvictedBy(dedupe)
    /\ started' = Append(started, o)
    /\ UNCHANGED <<live, mgen, messaging, kind, holder, connected, expired>>

\* Mutant: a failed Create() of a stale operation is dropped silently.
CreateReadyDropsStale(o, a, admitted, attested) ==
    /\ op[o].phase = "create" /\ a \in Answers(o)
    /\ a # "ok" /\ ~Stale(o)
    /\ CompleteNormalized(o, a)
    /\ UNCHANGED <<live, mgen, messaging, connected, started>>

(***************************************************************************)
(* sms_create_ready: "admitted" is whether the SMS cache took the message  *)
(* under its reserved identity, "attested" the attestation before Send().  *)
(***************************************************************************)
CreateReady(o, a, admitted, attested) ==
    /\ op[o].phase = "create" /\ a \in Answers(o)
    /\ \/ /\ a # "ok"
          /\ CompleteNormalized(o, a)
       \/ /\ a = "ok" /\ Stale(o)
          /\ CompleteError(o, StaleCode, FALSE)
       \/ /\ a = "ok" /\ ~Stale(o) /\ ~admitted
          /\ CompleteError(o, "internal_error", FALSE)
       \/ /\ a = "ok" /\ ~Stale(o) /\ admitted /\ ~attested
          /\ CompleteError(o, "unsupported", FALSE)
       \/ /\ a = "ok" /\ ~Stale(o) /\ admitted /\ attested
          /\ op' = [op EXCEPT ![o].phase = "send", ![o].dispatched = TRUE,
                              ![o].timedOut = FALSE]
          /\ UNCHANGED <<kind, holder, dedupe, expired, evicted>>
    /\ UNCHANGED <<live, mgen, messaging, connected, started>>

SendReady(o, a) ==
    /\ op[o].phase = "send" /\ a \in Answers(o)
    /\ \/ /\ a # "ok"
          /\ CompleteNormalized(o, a)
       \/ /\ a = "ok"
          /\ op' = [op EXCEPT ![o] = Completed(@, "ok", FALSE)]
          /\ Free(o)
          /\ IF Stale(o) THEN UNCHANGED <<dedupe, expired, evicted>> ELSE Store(o, TRUE, "none")
    /\ UNCHANGED <<live, mgen, messaging, connected, started>>

\* method_delete_sms on a message the ready cache knows, and its answer.
DeleteSms(o, attested) ==
    /\ Admissible(o)
    /\ MayMutate
    /\ LET r == NewOp("delete", NoToken, op[o].content)
       IN  IF attested
             THEN /\ op' = [op EXCEPT ![o] = r]
                  /\ kind' = "sms" /\ holder' = o
             ELSE /\ op' = [op EXCEPT ![o] = Completed(r, "unsupported", FALSE)]
                  /\ UNCHANGED <<kind, holder>>
    /\ started' = Append(started, o)
    /\ UNCHANGED <<live, mgen, messaging, dedupe, connected, expired, evicted>>

DeleteReady(o, a) ==
    /\ op[o].phase = "delete" /\ a \in Answers(o)
    /\ IF a = "ok" THEN /\ op' = [op EXCEPT ![o] = Completed(@, "ok", FALSE)]
                        /\ Free(o)
                        /\ UNCHANGED <<dedupe, expired, evicted>>
                   ELSE CompleteNormalized(o, a)
    /\ UNCHANGED <<live, mgen, messaging, connected, started>>

-----------------------------------------------------------------------------
(* Interruptions.                                                          *)

\* Mutant: the flag is set but the call is not cancelled.
OperationTimeoutUncancelled(o) ==
    /\ InFlight(o) /\ ~op[o].timedOut
    /\ op' = [op EXCEPT ![o].timedOut = TRUE]
    /\ UNCHANGED <<live, mgen, messaging, kind, holder, dedupe, connected, started, expired,
                   evicted>>

\* sms_operation_timeout
OperationTimeout(o) ==
    /\ InFlight(o) /\ ~op[o].timedOut
    /\ op' = [op EXCEPT ![o].timedOut = TRUE, ![o].cancelled = TRUE]
    /\ UNCHANGED <<live, mgen, messaging, kind, holder, dedupe, connected, started, expired,
                   evicted>>

\* The operations as the modem's mutation_cancellable is cancelled.
HolderCancelled ==
    [o \in Op |-> IF kind = "sms" /\ holder = o THEN [op[o] EXCEPT !.cancelled = TRUE]
                                                ELSE op[o]]

\* Mutant: the new epoch keeps the dedupe queue of the old one.
MessagingChangedKeepsTokens(p, force) ==
    /\ live
    /\ force \/ p # messaging
    /\ op' = HolderCancelled
    /\ messaging' = IF mgen = MaxEpoch THEN NoProxy ELSE p
    /\ mgen' = IF mgen = MaxEpoch THEN mgen ELSE mgen + 1
    /\ UNCHANGED <<live, kind, holder, dedupe, connected, started, expired, evicted>>

(***************************************************************************)
(* reconcile_messaging: another messaging proxy, or a SIM change that      *)
(* forces a new epoch.  At the last generation number messaging is given   *)
(* up instead.                                                             *)
(***************************************************************************)
MessagingChanged(p, force) ==
    /\ live
    /\ force \/ p # messaging
    /\ op' = HolderCancelled
    /\ dedupe' = <<>>
    /\ messaging' = IF mgen = MaxEpoch THEN NoProxy ELSE p
    /\ mgen' = IF mgen = MaxEpoch THEN mgen ELSE mgen + 1
    /\ UNCHANGED <<live, kind, holder, connected, started, expired, evicted>>

\* modem_mark_removed
ModemRemoved ==
    /\ live
    /\ live' = FALSE
    /\ op' = HolderCancelled
    /\ UNCHANGED <<mgen, messaging, kind, holder, dedupe, connected, started, expired, evicted>>

\* cancel_sms_operations in connection_lost.
ConnectionLost ==
    /\ connected
    /\ connected' = FALSE
    /\ op' = [o \in Op |-> IF InFlight(o)
                             THEN [op[o] EXCEPT !.lost = TRUE, !.cancelled = TRUE]
                             ELSE op[o]]
    /\ UNCHANGED <<live, mgen, messaging, kind, holder, dedupe, started, expired, evicted>>

Reconnect ==
    /\ ~connected
    /\ connected' = TRUE
    /\ UNCHANGED <<live, mgen, messaging, kind, holder, dedupe, op, started, expired, evicted>>

\* sms_dedupe_prune: an entry may outlive its 300 seconds at any time, even
\* while its operation (whose timer allows 320 seconds twice) is in flight.
EntryExpires(t) ==
    /\ Find(dedupe, t) # {}
    /\ dedupe' = Without(dedupe, t)
    /\ expired' = expired \cup {dedupe[i].by : i \in Find(dedupe, t)}
    /\ UNCHANGED <<live, mgen, messaging, kind, holder, op, connected, started, evicted>>

\* A band, mode or PCI-lock mutation of the same modem.
OtherMutation ==
    /\ \/ live /\ kind = "none" /\ kind' = "other"
       \/ kind = "other" /\ kind' = "none"
    /\ UNCHANGED <<live, mgen, messaging, holder, dedupe, op, connected, started, expired, evicted>>

-----------------------------------------------------------------------------
Ready(o) ==
    \E a \in Answers(o) :
        \/ \E admitted, attested \in BOOLEAN : CreateReady(o, a, admitted, attested)
        \/ SendReady(o, a)
        \/ DeleteReady(o, a)

Request(o) ==
    \/ \E t \in Token, c \in Content :
         SendCached(o, t, c) \/ SendStarts(o, t, c) \/ SendUnattested(o, t, c)
    \/ \E attested \in BOOLEAN : DeleteSms(o, attested)

Next ==
    \/ \E o \in Op : Request(o) \/ Ready(o) \/ OperationTimeout(o)
    \/ \E p \in Proxy \cup {NoProxy}, force \in BOOLEAN : MessagingChanged(p, force)
    \/ \E t \in Token : EntryExpires(t)
    \/ ModemRemoved \/ ConnectionLost \/ Reconnect \/ OtherMutation

Spec == Init /\ [][Next]_vars

\* Every D-Bus call of libmm ends: with an answer, or after its 310 seconds.
FairSpec == Spec /\ \A o \in Op : WF_vars(Ready(o))

-----------------------------------------------------------------------------
TypeOK ==
    /\ live \in BOOLEAN
    /\ mgen \in 0..MaxEpoch
    /\ messaging \in Proxy \cup {NoProxy}
    /\ kind \in {"none", "sms", "other"}
    /\ holder \in Op \cup {NoOp}
    /\ dedupe \in Seq(Entry) /\ Len(dedupe) <= Capacity
    /\ op \in [Op -> OpRecord]
    /\ connected \in BOOLEAN
    /\ started \in Seq(Op)
    /\ expired \subseteq Op
    /\ evicted \subseteq Op

(***************************************************************************)
(* mutation_busy says SMS exactly while one SMS operation is in flight,    *)
(* that operation's cancellable is the one the modem would cancel, and     *)
(* there is never a second one.                                            *)
(***************************************************************************)
SmsLockOwned ==
    \A o \in Op : InFlight(o) <=> (kind = "sms" /\ holder = o)

(***************************************************************************)
(* Within a messaging epoch a client token leads to Sms.Send at most once, *)
(* unless ModemManager refused the earlier send for certain, its entry     *)
(* expired, or as many other tokens as the queue holds were accepted since *)
(* and evicted it (the two exceptions the documentation makes).            *)
(***************************************************************************)
NoDuplicateSend ==
    \A i, j \in 1..Len(started) :
        LET o == started[i]
            p == started[j]
        IN  /\ i < j
            /\ op[o].token # NoToken /\ op[o].token = op[p].token
            /\ op[o].mgen = op[p].mgen
            /\ op[o].dispatched /\ op[p].dispatched
            => \/ o \in expired \/ op[o].code \in {"refused", "busy"}
               \/ /\ o \in evicted
                  /\ Cardinality({op[started[k]].token : k \in (i + 1)..(j - 1)}
                                   \ {NoToken, op[o].token}) >= Capacity

(***************************************************************************)
(* A reply marked "deduplicated" repeats a send of the same content under  *)
(* the same token that did succeed, in this epoch.                         *)
(***************************************************************************)
DeduplicatedIsTrue ==
    \A o \in Op : op[o].code = "deduplicated"
        => \E p \in Op : /\ op[p].code = "ok" /\ op[p].dispatched
                         /\ op[p].token = op[o].token /\ op[p].content = op[o].content
                         /\ op[p].mgen = op[o].mgen

(***************************************************************************)
(* Sms.Send is dispatched only in the epoch in which the request was       *)
(* accepted, on a live modem: neither a change of SIM nor a removal nor an *)
(* interruption during Create() is followed by a send.                     *)
(***************************************************************************)
DispatchedInItsEpoch ==
    [][\A o \in Op : op'[o].dispatched /\ ~op[o].dispatched
        => /\ live /\ op[o].mgen = mgen /\ op[o].messaging = messaging
           /\ ~op[o].timedOut /\ ~op[o].lost /\ holder = o]_vars

(***************************************************************************)
(* The queue holds results of the current epoch only ("never place an      *)
(* old-epoch result in the current modem's dedupe queue"), one per token,  *)
(* oldest stored first, so that eviction takes the least recent one.       *)
(***************************************************************************)
QueueIsCurrent ==
    \A i, j \in 1..Len(dedupe) :
        /\ op[dedupe[i].by].mgen = mgen
        /\ i < j => /\ dedupe[i].token # dedupe[j].token
                    /\ \E k, l \in 1..Len(started) :
                         k < l /\ started[k] = dedupe[i].by /\ started[l] = dedupe[j].by

(***************************************************************************)
(* An entry says what has become of its request: "busy" while it is in     *)
(* flight, success or an unknown outcome when it has ended so.  A send     *)
(* that failed for certain is forgotten, at whichever of its two D-Bus     *)
(* calls, so that the client may repeat it under the same token and is not *)
(* told to wait for a request that has ended.                              *)
(***************************************************************************)
TokensSettled ==
    live => \A i \in 1..Len(dedupe) :
              LET e == dedupe[i]
              IN  /\ e.code = "busy" <=> InFlight(e.by)
                  /\ e.ok <=> op[e.by].code = "ok"
                  /\ e.code = "outcome_unknown" <=> op[e.by].code = "outcome_unknown"

(***************************************************************************)
(* However an operation ends (refused, timed out, stale, disconnected, at  *)
(* Create or at Send or at Delete), it settles both things it took: the    *)
(* mutation lock of the modem and the entry of its token.                  *)
(***************************************************************************)
OperationSettled == SmsLockOwned /\ TokensSettled

(***************************************************************************)
(* docs/ubus-api.md: "Uncertainty after Sms.Send dispatch is               *)
(* outcome_unknown and is cached to prevent automatic resend", with expiry,*)
(* eviction and restart as the only exceptions.  As documented, a send of  *)
(* unknown outcome is in the queue of its live modem.                      *)
(***************************************************************************)
UnknownIsCached ==
    \A o \in Op : op[o].phase = "done" /\ op[o].code = "outcome_unknown" /\ live
                  /\ o \notin expired \cup evicted
        => \E i \in 1..Len(dedupe) : dedupe[i].token = op[o].token

\* Every accepted request ends, and with it the modem's mutation lock.
EverySendEnds == \A o \in Op : InFlight(o) ~> op[o].phase = "done"
=============================================================================
