------------------------------ MODULE SmsCache ------------------------------
(***************************************************************************)
(* The SMS inventory the bridge keeps of one modem (bridge.c): a cache     *)
(* from message paths to random identities, filled by asynchronous list    *)
(* calls and corrected by the Added and Deleted signals of ModemManager,   *)
(* by the messages send_sms creates, and by messaging epochs (a change of  *)
(* SIM or of the messaging interface).                                     *)
(*                                                                         *)
(* ModemManager's signals and replies reach the bridge through one D-Bus   *)
(* connection, in order; libmm then builds a proxy per message before it   *)
(* completes a List or Create call, so that signals sent after the reply   *)
(* may be handled before its completion.                                   *)
(***************************************************************************)
EXTENDS Naturals, Sequences, FiniteSets

CONSTANTS
    Path,      \* object paths of messages; ModemManager never reuses one
    NoPath,    \* no message
    Id,        \* message identities (random, so any unused one may be drawn)
    NoId,      \* no identity
    Limit,     \* MAX_SMS_CACHE
    MaxEpoch,  \* the last messaging_generation (G_MAXUINT32)
    MaxErrors, \* bound on the list calls that fail while there is an interface
    MaxBus     \* bound on the messages under way to the bridge

ASSUME ConstantsAssumption ==
    /\ IsFiniteSet(Path)
    /\ NoPath \notin Path
    /\ NoId \notin Id
    /\ Limit \in Nat \ {0}
    /\ MaxEpoch \in Nat \ {0}
    /\ MaxErrors \in Nat
    /\ MaxBus \in Nat \ {0}

VARIABLES
    live,       \* modem->live
    messaging,  \* modem->messaging # NULL
    mgen,       \* modem->messaging_generation
    cache,      \* modem->sms_by_path: path to identity, NoId where absent
    reserved,   \* modem->sms_reserved_ids
    tombs,      \* modem->sms_deleted_paths
    state,      \* modem->sms_cache_state
    truncated,  \* modem->sms_cache_truncated
    pending,    \* modem->sms_query_pending
    dirty,      \* modem->sms_query_dirty
    revision,   \* modem->sms_revision modulo 2: no callback bumps it twice
    calls,      \* List calls sent but not read, and replies libmm is turning
                \* into proxies
    send,       \* the SmsOperation of type send, as far as the cache sees it
    bus,        \* what ModemManager sent and the bridge has not yet handled
    interface,  \* ModemManager: the modem has a messaging interface
    store,      \* ModemManager: the messages of that interface
    unborn,     \* ModemManager: the paths not used yet
    errors,     \* list calls that failed
    created,    \* history: paths Create() put into the cache since the last list
    source      \* history: the epoch whose call put a path into the cache

modem == <<live, messaging, mgen>>
inventory == <<cache, reserved, tombs, state, truncated, revision, created, source>>
flight == <<pending, dirty, calls>>
manager == <<interface, store, unborn, errors>>
vars == <<live, messaging, mgen, cache, reserved, tombs, state, truncated, pending, dirty,
          revision, calls, send, bus, interface, store, unborn, errors, created, source>>

Call == [gen : 0..MaxEpoch, read : {FALSE}, paths : {{}}]
        \cup [gen : 0..MaxEpoch, read : {TRUE}, paths : SUBSET Path]

NewCall == [gen |-> mgen, read |-> FALSE, paths |-> {}]

Message ==
    [type : {"added", "deleted", "created"}, path : Path]
    \cup [type : {"listed"}, gen : 0..MaxEpoch, paths : SUBSET Path]
    \cup [type : {"epoch"}, present : BOOLEAN]

Send == [phase : {"idle", "create", "replied", "building", "send"},
         gen : 0..MaxEpoch, id : Id \cup {NoId}, path : Path \cup {NoPath}]

Idle == [phase |-> "idle", gen |-> 0, id |-> NoId, path |-> NoPath]

Cached == {p \in Path : cache[p] # NoId}
CachedIds == {cache[p] : p \in Cached}
Served == state \in {"ready", "ready-truncated"}
Empty == [p \in Path |-> NoId]
Nowhere == [p \in Path |-> 0]

\* Mutant: changes while a query is pending are left for its end to count.
BumpLater == revision' = IF pending THEN revision ELSE 1 - revision

\* sms_revision_bump
Bump == revision' = 1 - revision

\* The identities new_sms_id does not draw.
Used == CachedIds \cup reserved

(***************************************************************************)
(* The bridge has just admitted the modem, with a messaging interface      *)
(* (reconcile_messaging started the first epoch) or without.               *)
(***************************************************************************)
Init ==
    /\ live = TRUE
    /\ interface \in BOOLEAN
    /\ messaging = interface
    /\ mgen = IF messaging THEN 1 ELSE 0
    /\ state = IF messaging THEN "loading" ELSE "absent"
    /\ pending = messaging
    /\ calls = IF messaging THEN {[gen |-> 1, read |-> FALSE, paths |-> {}]} ELSE {}
    /\ revision = IF messaging THEN 1 ELSE 0
    /\ cache = Empty /\ source = Nowhere
    /\ reserved = {} /\ tombs = {}
    /\ truncated = FALSE /\ dirty = FALSE
    /\ send = Idle
    /\ bus = <<>>
    /\ store \in {{}} \cup {{p} : p \in IF interface THEN Path ELSE {}}
    /\ unborn = Path \ store
    /\ errors = 0
    /\ created = {}

-----------------------------------------------------------------------------
(* ModemManager.                                                           *)

Emit(m) == Len(bus) < MaxBus /\ bus' = Append(bus, m)

MessageArrives(p) ==
    /\ live /\ interface /\ p \in unborn
    /\ store' = store \cup {p} /\ unborn' = unborn \ {p}
    /\ Emit([type |-> "added", path |-> p])
    /\ UNCHANGED <<modem, inventory, flight, send, interface, errors>>

\* On behalf of delete_sms or of any other client.
MessageDeleted(p) ==
    /\ live /\ p \in store
    /\ store' = store \ {p}
    /\ Emit([type |-> "deleted", path |-> p])
    /\ UNCHANGED <<modem, inventory, flight, send, interface, unborn, errors>>

\* Create() adds the message, says so, and then answers.
MessageCreated(p) ==
    /\ live /\ interface /\ p \in unborn
    /\ send.phase = "create"
    /\ Len(bus) + 1 < MaxBus
    /\ store' = store \cup {p} /\ unborn' = unborn \ {p}
    /\ bus' = bus \o <<[type |-> "added", path |-> p], [type |-> "created", path |-> p]>>
    /\ send' = [send EXCEPT !.phase = "replied", !.path = p]
    /\ UNCHANGED <<modem, inventory, flight, interface, errors>>

ListRead(c) ==
    /\ live /\ interface /\ c \in calls /\ ~c.read
    /\ Emit([type |-> "listed", gen |-> c.gen, paths |-> store])
    /\ calls' = calls \ {c}
    /\ UNCHANGED <<modem, inventory, pending, dirty, send, manager>>

\* A change of SIM, or of the messaging interface itself: other messages.
EpochChanges(present) ==
    /\ live
    /\ interface \/ present
    /\ interface' = present
    /\ store' = {}
    /\ Emit([type |-> "epoch", present |-> present])
    /\ UNCHANGED <<modem, inventory, flight, send, unborn, errors>>

-----------------------------------------------------------------------------
(* Queries.                                                                *)

(***************************************************************************)
(* query_sms, given the values pending and dirty have when it is called    *)
(* and the calls that stay under way: single flight, at most one repeat    *)
(* remembered.  "from" is the cache state at the call.                     *)
(***************************************************************************)
QuerySms(stillPending, stillDirty, others, from) ==
    IF stillPending
      THEN /\ pending' = TRUE /\ dirty' = TRUE
           /\ calls' = others
           /\ state' = from
      ELSE /\ pending' = TRUE /\ dirty' = stillDirty
           /\ calls' = others \cup {NewCall}
           /\ state' = IF from \in {"ready", "ready-truncated"} THEN from ELSE "loading"

\* l850gl_modem_refresh_sms: the 30-second timer, list_sms and delete_sms on
\* a cache that is not ready.
Refresh ==
    /\ live /\ messaging
    /\ QuerySms(pending, dirty, calls, state)
    /\ UNCHANGED <<modem, cache, reserved, tombs, truncated, revision, created, source,
                   send, bus, manager>>

\* The completion of a call whose epoch is over.
ListStale(c) ==
    /\ c \in calls
    /\ ~live \/ ~messaging \/ c.gen # mgen
    /\ calls' = calls \ {c}
    /\ UNCHANGED <<modem, inventory, pending, dirty, send, bus, manager>>

\* Mutants: the dirty flag is forgotten, or the query repeated too early.
RequeryNever(others, now) ==
    pending' = FALSE /\ dirty' = FALSE /\ calls' = others /\ state' = now
RequeryWhilePending(others, now) ==
    IF dirty THEN QuerySms(TRUE, FALSE, others, now)
             ELSE pending' = FALSE /\ dirty' = FALSE /\ calls' = others /\ state' = now

\* What every completion of the current epoch does last.
Requery(others, now) ==
    IF dirty THEN QuerySms(FALSE, FALSE, others, now)
             ELSE pending' = FALSE /\ dirty' = FALSE /\ calls' = others /\ state' = now

\* Mutant: the epoch of the call is not compared.
ListCurrentOfAnyEpoch(c) == c \in calls /\ live /\ messaging

ListCurrent(c) == c \in calls /\ live /\ messaging /\ c.gen = mgen

\* The call failed, or (with a reply) no identity could be generated.
ListFails(c, reply) ==
    /\ ListCurrent(c)
    /\ c.read = reply
    /\ interface => errors < MaxErrors
    /\ errors' = IF interface THEN errors + 1 ELSE errors
    /\ cache' = Empty /\ source' = Nowhere /\ created' = {}
    /\ Bump
    /\ Requery(calls \ {c}, "unavailable")
    /\ UNCHANGED <<modem, reserved, tombs, truncated, send, bus, interface, store, unborn>>

\* Identities for the paths new in the cache, as new_sms_id draws them.
Fresh(new) ==
    {f \in [new -> Id \ Used] : \A p, q \in new : p # q => f[p] # f[q]}

\* Mutant: known messages get new identities.
ReusesNone(kept) == {}

\* The messages that keep their cache entry.
Reuses(kept) == kept \cap Cached

RoomFor(n) == IF n > Limit THEN Limit ELSE n

(***************************************************************************)
(* sms_list_ready.  "kept" are the newest Limit messages that no Deleted   *)
(* signal has overtaken; which those are depends on their timestamps.      *)
(***************************************************************************)
ListReady(c, kept) ==
    LET found == c.paths \ tombs
        cut == Cardinality(found) > Limit
    IN  /\ ListCurrent(c) /\ c.read
        /\ kept \subseteq found
        /\ Cardinality(kept) = RoomFor(Cardinality(found))
        /\ \E f \in Fresh(kept \ Reuses(kept)) :
             cache' = [p \in Path |-> CASE p \in Reuses(kept) -> cache[p]
                                        [] p \in kept \ Reuses(kept) -> f[p]
                                        [] p \notin kept -> NoId]
        /\ source' = [p \in Path |-> IF p \in kept THEN c.gen ELSE 0]
        /\ created' = {}
        /\ truncated' = cut
        /\ tombs' = tombs \cap c.paths
        /\ Bump
        /\ Requery(calls \ {c}, IF cut THEN "ready-truncated" ELSE "ready")
        /\ UNCHANGED <<modem, reserved, send, bus, manager>>

-----------------------------------------------------------------------------
(* What the bus delivers.                                                  *)

Delivered(type) == bus # <<>> /\ Head(bus).type = type /\ bus' = Tail(bus)

\* sms_added
SmsAdded ==
    /\ Delivered("added")
    /\ IF live /\ messaging
         THEN /\ tombs' = tombs \ {Head(bus).path}
              /\ Bump
              /\ QuerySms(pending, dirty, calls, state)
              /\ UNCHANGED <<cache, reserved, truncated, created, source>>
         ELSE UNCHANGED <<inventory, flight>>
    /\ UNCHANGED <<modem, send, manager>>

\* Mutant: no tombstone.
TombstonedNot(p) == tombs

\* The deletion is remembered while there is room.
Tombstoned(p) == IF Cardinality(tombs) < Limit THEN tombs \cup {p} ELSE tombs

\* sms_deleted
SmsDeleted ==
    /\ Delivered("deleted")
    /\ LET p == Head(bus).path
       IN  IF live /\ messaging
             THEN /\ tombs' = Tombstoned(p)
                  /\ cache' = [cache EXCEPT ![p] = NoId]
                  /\ source' = [source EXCEPT ![p] = 0]
                  /\ created' = created \ {p}
                  /\ IF p \in Cached THEN Bump ELSE UNCHANGED revision
                  /\ QuerySms(pending, dirty, calls, state)
                  /\ UNCHANGED <<reserved, truncated>>
             ELSE UNCHANGED <<inventory, flight>>
    /\ UNCHANGED <<modem, send, manager>>

\* libmm has the reply of List() and starts building proxies.
ListReplied ==
    /\ Delivered("listed")
    /\ calls' = calls \cup {[gen |-> Head(bus).gen, read |-> TRUE, paths |-> Head(bus).paths]}
    /\ UNCHANGED <<modem, inventory, pending, dirty, send, manager>>

\* The same for Create(), unless the call was cancelled meanwhile.
CreateReplied ==
    /\ Delivered("created")
    /\ send' = IF send.phase = "replied" /\ send.path = Head(bus).path
                 THEN [send EXCEPT !.phase = "building"] ELSE send
    /\ UNCHANGED <<modem, inventory, flight, manager>>

(***************************************************************************)
(* reconcile_messaging: everything of the old epoch is dropped, its calls  *)
(* are left to run out.  An SMS operation under way is cancelled.          *)
(***************************************************************************)
MessagingReconciled ==
    /\ Delivered("epoch")
    /\ LET present == Head(bus).present
           last == mgen = MaxEpoch
       IN  IF ~live THEN UNCHANGED <<modem, inventory, flight>>
           ELSE /\ cache' = Empty /\ source' = Nowhere /\ created' = {}
                /\ reserved' = {} /\ tombs' = {}
                /\ truncated' = FALSE
                /\ mgen' = IF last THEN mgen ELSE mgen + 1
                /\ messaging' = (present /\ ~last)
                /\ IF last THEN UNCHANGED revision ELSE Bump
                /\ pending' = messaging' /\ dirty' = FALSE
                /\ calls' = IF messaging'
                              THEN calls \cup {[NewCall EXCEPT !.gen = mgen']} ELSE calls
                /\ state' = CASE last -> "unavailable"
                              [] ~last /\ present -> "loading"
                              [] OTHER -> "absent"
                /\ UNCHANGED live
    /\ UNCHANGED <<send, manager>>

\* modem_mark_removed
ModemRemoved ==
    /\ live
    /\ live' = FALSE
    /\ cache' = Empty /\ source' = Nowhere /\ created' = {}
    /\ UNCHANGED <<messaging, mgen, reserved, tombs, state, truncated, revision, flight, send,
                   bus, manager>>

\* sms_properties_changed, on a cached message.
SmsPropertiesChanged ==
    /\ live /\ Cached # {}
    /\ Bump
    /\ UNCHANGED <<modem, cache, reserved, tombs, state, truncated, created, source, flight,
                   send, bus, manager>>

-----------------------------------------------------------------------------
(* The message that send_sms creates.                                      *)

\* method_send_sms: one at a time, by the modem's mutation lock.
SendSms(i) ==
    /\ live /\ messaging
    /\ send.phase = "idle"
    /\ i \in Id \ Used
    /\ reserved' = reserved \cup {i}
    /\ send' = [phase |-> "create", gen |-> mgen, id |-> i, path |-> NoPath]
    /\ UNCHANGED <<modem, cache, tombs, state, truncated, revision, created, source, flight,
                   bus, manager>>

\* Mutant: the identity stays reserved.
FreedLeaks == send' = Idle /\ UNCHANGED reserved

\* sms_operation_free, and the release of the identity in it.
Freed == send' = Idle /\ reserved' = reserved \ {send.id}

\* Create() failed, was cancelled, or libmm could not build the proxy.
CreateFails ==
    /\ send.phase \in {"create", "replied", "building"}
    /\ Freed
    /\ UNCHANGED <<modem, cache, tombs, state, truncated, revision, created, source, flight,
                   bus, manager>>

SendStale == ~live \/ ~messaging \/ send.gen # mgen

\* The tests of modem_admit_sms on the reserved identity.
Admissible == send.id \in reserved /\ (send.path \in Cached => send.id \notin CachedIds)

(***************************************************************************)
(* sms_create_ready and modem_admit_sms.  The message may be in the cache  *)
(* already, under an identity the list gave it: it takes the reserved one. *)
(***************************************************************************)
CreateReady ==
    /\ send.phase = "building"
    /\ \/ /\ SendStale \/ ~Admissible
          /\ Freed
          /\ UNCHANGED <<cache, truncated, revision, created, source>>
       \/ /\ ~SendStale /\ Admissible
          /\ send.path \notin Cached /\ Cardinality(Cached) >= Limit
          /\ truncated' = TRUE
          /\ Freed
          /\ UNCHANGED <<cache, revision, created, source>>
       \/ /\ ~SendStale /\ Admissible
          /\ send.path \in Cached \/ Cardinality(Cached) < Limit
          /\ cache' = [cache EXCEPT ![send.path] = send.id]
          /\ source' = [source EXCEPT ![send.path] = send.gen]
          /\ created' = created \cup {send.path}
          /\ reserved' = reserved \ {send.id}
          /\ Bump
          /\ send' = [send EXCEPT !.phase = "send"]
          /\ UNCHANGED truncated
    /\ UNCHANGED <<modem, tombs, state, flight, bus, manager>>

\* sms_send_ready, or the failure of the attestation before Send().
SendEnds(sent) ==
    /\ send.phase = "send"
    /\ Freed
    /\ IF sent /\ ~SendStale THEN QuerySms(pending, dirty, calls, state)
                             ELSE UNCHANGED <<flight, state>>
    /\ UNCHANGED <<modem, cache, tombs, truncated, revision, created, source, bus, manager>>

-----------------------------------------------------------------------------
ListSteps ==
    \E c \in calls :
        \/ ListRead(c) \/ ListStale(c)
        \/ \E kept \in SUBSET c.paths : ListReady(c, kept)
        \/ \E reply \in BOOLEAN : ListFails(c, reply)

SendSteps == CreateFails \/ CreateReady \/ \E sent \in BOOLEAN : SendEnds(sent)

Deliver ==
    SmsAdded \/ SmsDeleted \/ ListReplied \/ CreateReplied \/ MessagingReconciled

Next ==
    \/ \E p \in Path : MessageArrives(p) \/ MessageDeleted(p) \/ MessageCreated(p)
    \/ \E present \in BOOLEAN : EpochChanges(present)
    \/ ListSteps \/ SendSteps \/ Deliver
    \/ Refresh \/ ModemRemoved \/ SmsPropertiesChanged
    \/ \E i \in Id : SendSms(i)

Spec == Init /\ [][Next]_vars

(***************************************************************************)
(* D-Bus delivers, ModemManager answers (or libmm's timeout does), and the *)
(* 30-second timer of the bridge repeats the query.                        *)
(***************************************************************************)
FairSpec ==
    Spec /\ WF_vars(ListSteps) /\ WF_vars(SendSteps) /\ WF_vars(Deliver) /\ WF_vars(Refresh)

-----------------------------------------------------------------------------
TypeOK ==
    /\ live \in BOOLEAN /\ messaging \in BOOLEAN
    /\ mgen \in 0..MaxEpoch
    /\ cache \in [Path -> Id \cup {NoId}] /\ Cardinality(Cached) <= Limit
    /\ reserved \subseteq Id
    /\ tombs \subseteq Path /\ Cardinality(tombs) <= Limit
    /\ state \in {"absent", "loading", "ready", "ready-truncated", "unavailable"}
    /\ truncated \in BOOLEAN /\ pending \in BOOLEAN /\ dirty \in BOOLEAN
    /\ revision \in {0, 1}
    /\ calls \subseteq Call
    /\ send \in Send
    /\ bus \in Seq(Message) /\ Len(bus) <= MaxBus
    /\ interface \in BOOLEAN
    /\ store \subseteq Path /\ unborn \subseteq Path
    /\ errors \in 0..MaxErrors
    /\ created \subseteq Path
    /\ source \in [Path -> 0..MaxEpoch]

OnBus(type) == {i \in 1..Len(bus) : bus[i].type = type}

(***************************************************************************)
(* Two messages never share an identity, and no cached message has one     *)
(* that is reserved for a message being created.  An identity is reserved  *)
(* exactly while the send of the current epoch that drew it waits for its  *)
(* message to enter the cache: every way the send can end releases it, and *)
(* nothing else does.                                                      *)
(***************************************************************************)
IdsOwned ==
    /\ \A p, q \in Cached : p # q => cache[p] # cache[q]
    /\ CachedIds \cap reserved = {}
    /\ live => reserved = IF send.phase \in {"create", "replied", "building"} /\ ~SendStale
                            THEN {send.id} ELSE {}

(***************************************************************************)
(* What a list call or a Create() of an earlier epoch returns never enters *)
(* the cache of this one: after a change of SIM no message of the old SIM  *)
(* is shown.                                                               *)
(***************************************************************************)
CacheOfEpoch == \A p \in Cached : source[p] = mgen

(***************************************************************************)
(* A deleted message does not come back: once the Deleted signal is        *)
(* handled, a list that was read before the deletion does not put the      *)
(* message into the cache again, as long as there is room for tombstones.  *)
(* (Only a Create() that completes after the deletion may.)                *)
(***************************************************************************)
NoGhost ==
    Cardinality(Path) <= Limit =>
        \A p \in Cached \ (store \cup created) :
            \/ OnBus("epoch") # {}
            \/ \E i \in OnBus("deleted") : bus[i].path = p

(***************************************************************************)
(* When nothing is under way, a served inventory is the store: every       *)
(* message of ModemManager is in it unless it says it is truncated, and it *)
(* holds nothing else.  No signal handled during a query is lost.          *)
(***************************************************************************)
QuietMeansComplete ==
    live /\ messaging /\ Served /\ ~pending /\ bus = <<>>
        => /\ store \subseteq Cached \/ truncated
           /\ Cached \subseteq store \cup created

(***************************************************************************)
(* Whatever is lost, late or refused: once the messages stop changing the  *)
(* inventory is served and is the store.                                   *)
(***************************************************************************)
Converges ==
    <>[](live /\ messaging =>
           /\ Served
           /\ Cached \subseteq store
           /\ Cardinality(Cached) = Limit \/ Cached = store)
=============================================================================
