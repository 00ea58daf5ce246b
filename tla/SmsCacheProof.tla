--------------------------- MODULE SmsCacheProof ---------------------------
(***************************************************************************)
(* Proofs about the SMS inventory, for any finite set of message paths,    *)
(* any set of identities, any size of the cache and any number of epochs.  *)
(*                                                                         *)
(* The inventory is corrected by two streams that overtake each other: the *)
(* signals of ModemManager and the replies of list calls.  The invariant   *)
(* says what a reply that has not been applied yet may be wrong about      *)
(* (Settled, Current): whatever changed since ModemManager read the list   *)
(* is still on the bus, is a tombstone, or has made the query dirty.       *)
(***************************************************************************)
EXTENDS InventoryClient, FiniteSetTheorems, SequenceTheorems, TLAPS

Signal(type, p) == \E i \in OnBus(type) : bus[i].path = p

EpochAhead == OnBus("epoch") # {}

\* The list calls of this epoch: sent or being turned into proxies, and
\* answered but not delivered.
OutCalls == {c \in calls : c.gen = mgen}
OutReplies == {i \in OnBus("listed") : bus[i].gen = mgen}

\* At most one, and none unless a query is pending.
SingleFlight ==
    live /\ messaging =>
        /\ \A c, d \in OutCalls : c = d
        /\ \A i, j \in OutReplies : i = j
        /\ OutCalls = {} \/ OutReplies = {}
        /\ ~pending => OutCalls = {} /\ OutReplies = {}

\* A path is used once: it is announced before it is withdrawn, and a
\* tombstone or a Deleted signal is for a path that is gone for good.
Births ==
    /\ store \cap unborn = {}
    /\ \A p \in tombs : p \notin store \cup unborn
    /\ \A i \in OnBus("deleted") : bus[i].path \notin store \cup unborn
    /\ \A i \in OnBus("added") :
         /\ bus[i].path \notin unborn
         /\ \/ bus[i].path \in store
            \/ \E j \in OnBus("deleted") : i < j /\ bus[j].path = bus[i].path
            \/ \E j \in OnBus("epoch") : i < j

\* What the replies not applied yet say is there.
Listed ==
    {c.paths : c \in {c \in OutCalls : c.read}} \cup {bus[i].paths : i \in OutReplies}

\* With room for every tombstone, a message listed but gone is on record.
Settled ==
    live /\ messaging /\ ~EpochAhead /\ Cardinality(Path) <= Limit =>
        \A S \in Listed : \A p \in S : p \in store \cup tombs \/ Signal("deleted", p)

\* In any case a reply will be repeated or is right about everything whose
\* signal is not on the bus.
Current ==
    live /\ messaging /\ ~EpochAhead /\ ~dirty =>
        \A S \in Listed :
            /\ \A p \in S \ tombs : p \in store \/ Signal("deleted", p)
            /\ \A p \in store : p \in S \ tombs \/ Signal("added", p)

\* So is the inventory when no query is pending.
Complete ==
    live /\ messaging /\ ~EpochAhead /\ Served /\ ~pending =>
        /\ \A p \in store : p \in Cached \/ truncated \/ Signal("added", p)
        /\ \A p \in Cached : p \in store \cup created \/ Signal("deleted", p)

-----------------------------------------------------------------------------
(* Types.                                                                  *)

States == {"absent", "loading", "ready", "ready-truncated", "unavailable"}

ModemTyped == live \in BOOLEAN /\ messaging \in BOOLEAN /\ mgen \in 0..MaxEpoch

CacheTyped ==
    /\ cache \in [Path -> Id \cup {NoId}] /\ source \in [Path -> 0..MaxEpoch]
    /\ reserved \subseteq Id /\ created \subseteq Path
    /\ truncated \in BOOLEAN /\ revision \in {0, 1}

FlightTyped ==
    /\ pending \in BOOLEAN /\ dirty \in BOOLEAN /\ calls \subseteq Call /\ state \in States
    /\ dirty => pending

BusTyped == bus \in Seq(Message) /\ Len(bus) <= MaxBus

ManagerTyped ==
    /\ interface \in BOOLEAN /\ store \subseteq Path /\ unborn \subseteq Path
    /\ errors \in 0..MaxErrors

\* The cache and the tombstones never outgrow MAX_SMS_CACHE.
Bounded ==
    /\ tombs \subseteq Path
    /\ Cardinality(Cached) <= Limit /\ Cardinality(tombs) <= Limit

(***************************************************************************)
(* The first layer: the types, whose the identities are and of which epoch *)
(* everything is, one part per group of variables.                         *)
(***************************************************************************)
Core ==
    /\ ModemTyped /\ CacheTyped /\ Bounded
    /\ send \in Send /\ send.gen <= mgen
    /\ send.phase # "idle" => send.id \in Id
    /\ send.phase \in {"replied", "building", "send"} => send.path \in Path
    /\ Cached # {} => live /\ messaging
    /\ IdsOwned /\ CacheOfEpoch

Flight == FlightTyped /\ \A c \in calls : c.gen <= mgen

Wire == BusTyped /\ \A i \in OnBus("listed") : bus[i].gen <= mgen

Owned == Core /\ Flight /\ Wire /\ ManagerTyped

\* The first layer contains the type invariant.
LEMMA OwnedTyped == Owned => TypeOK
BY DEF Owned, Core, Flight, Wire, ModemTyped, CacheTyped, FlightTyped, BusTyped, ManagerTyped,
       Bounded, TypeOK, States

\* What a call has.
LEMMA CallFields ==
    ASSUME NEW c \in Call
    PROVE  /\ c.gen \in 0..MaxEpoch /\ c.gen \in Nat /\ c.read \in BOOLEAN
           /\ c.paths \in SUBSET Path
           /\ c = [gen |-> c.gen, read |-> c.read, paths |-> c.paths]
<1>1. c \in [gen : 0..MaxEpoch, read : BOOLEAN, paths : SUBSET Path]
  BY DEF Call
<1>2. c.gen \in 0..MaxEpoch /\ c.read \in BOOLEAN /\ c.paths \in SUBSET Path
  BY <1>1
<1>3. c.gen \in Nat
  BY <1>2, ConstantsAssumption
<1>4. c = [gen |-> c.gen, read |-> c.read, paths |-> c.paths]
  BY <1>1
<1> QED BY <1>2, <1>3, <1>4

\* query_sms and what a completion does last keep the calls typed, and send
\* a call of the current epoch only.
LEMMA QueryFlight ==
    ASSUME ModemTyped, UNCHANGED mgen,
           NEW p \in BOOLEAN, NEW d \in BOOLEAN, NEW others \in SUBSET Call,
           \A c \in others : c.gen <= mgen,
           NEW from \in States, d => p, QuerySms(p, d, others, from)
    PROVE  Flight'
<1>1. NewCall \in Call /\ NewCall.gen = mgen /\ mgen <= mgen
  BY ConstantsAssumption DEF NewCall, Call, ModemTyped
<1>2. calls' \subseteq others \cup {NewCall}
  BY DEF QuerySms
<1>3. FlightTyped'
  BY <1>1 DEF QuerySms, FlightTyped, States
<1> QED
  BY <1>1, <1>2, <1>3 DEF Flight

\* A completion repeats the query at most once, in the current epoch.
LEMMA RequeryFlight ==
    ASSUME ModemTyped, UNCHANGED mgen, NEW others \in SUBSET Call,
           \A c \in others : c.gen <= mgen,
           NEW now \in States, Requery(others, now)
    PROVE  Flight'
<1>1. CASE dirty
  BY <1>1, QueryFlight DEF Requery
<1>2. CASE ~dirty
  BY <1>2 DEF Requery, FlightTyped, Flight
<1> QED BY <1>1, <1>2

\* A query on the calls there are.
LEMMA RefreshFlight ==
    ASSUME ModemTyped, Flight, UNCHANGED mgen, QuerySms(pending, dirty, calls, state)
    PROVE  Flight'
BY QueryFlight DEF Flight, FlightTyped

\* Parts whose variables a step leaves alone.
LEMMA Framed ==
    /\ Core /\ UNCHANGED <<modem, inventory, send>> => Core'
    /\ Flight /\ UNCHANGED <<flight, state, mgen>> => Flight'
    /\ Wire /\ UNCHANGED <<bus, mgen>> => Wire'
    /\ ManagerTyped /\ UNCHANGED manager => ManagerTyped'
<1>1. Core /\ UNCHANGED <<modem, inventory, send>> => Core'
  BY DEF Core, modem, inventory, ModemTyped, CacheTyped, Bounded, Cached, IdsOwned,
         CachedIds, SendStale, CacheOfEpoch
<1>2. Flight /\ UNCHANGED <<flight, state, mgen>> => Flight'
  BY DEF Flight, flight, FlightTyped
<1>3. Wire /\ UNCHANGED <<bus, mgen>> => Wire'
  BY DEF Wire, BusTyped, OnBus
<1> QED
  BY <1>1, <1>2, <1>3 DEF ManagerTyped, manager

\* The bus after a message is sent or handled.
LEMMA BusSent ==
    ASSUME BusTyped, NEW m \in Message, Emit(m)
    PROVE  /\ BusTyped' /\ Len(bus) \in Nat /\ Len(bus') = Len(bus) + 1
           /\ \A i \in 1..Len(bus) : bus'[i] = bus[i]
           /\ bus'[Len(bus) + 1] = m
<1>1. bus \in Seq(Message) /\ Len(bus) \in Nat /\ MaxBus \in Nat
  BY LenProperties, ConstantsAssumption DEF BusTyped
<1>2. /\ bus' \in Seq(Message) /\ Len(bus') = Len(bus) + 1
      /\ \A i \in 1..Len(bus) : bus'[i] = bus[i]
      /\ bus'[Len(bus) + 1] = m
  BY <1>1, AppendProperties DEF Emit
<1> QED
  BY <1>1, <1>2 DEF BusTyped, Emit

\* The Added signal and the reply that Create() sends together.
LEMMA BusSentTwo ==
    ASSUME BusTyped, NEW a \in Message, NEW b \in Message, bus' = bus \o <<a, b>>,
           Len(bus) + 1 < MaxBus
    PROVE  /\ BusTyped' /\ Len(bus) \in Nat /\ Len(bus') = Len(bus) + 2
           /\ \A i \in 1..Len(bus) : bus'[i] = bus[i]
           /\ bus'[Len(bus) + 1] = a /\ bus'[Len(bus) + 2] = b
<1>1. bus \in Seq(Message) /\ Len(bus) \in Nat /\ MaxBus \in Nat
  BY LenProperties, ConstantsAssumption DEF BusTyped
<1>2. <<a, b>> \in Seq(Message) /\ Len(<<a, b>>) = 2 /\ <<a, b>>[1] = a /\ <<a, b>>[2] = b
  OBVIOUS
<1> DEFINE s == <<a, b>>
<1>3. s \in Seq(Message) /\ Len(s) = 2 /\ s[1] = a /\ s[2] = b /\ bus' = bus \o s
  BY <1>2
<1> HIDE DEF s
<1>4. bus' \in Seq(Message)
  BY <1>1, <1>3, ConcatProperties
<1>5. Len(bus') = Len(bus) + 2
  BY <1>1, <1>3, ConcatProperties
<1>6. \A i \in 1..(Len(bus) + Len(s)) :
        bus'[i] = IF i <= Len(bus) THEN bus[i] ELSE s[i - Len(bus)]
  BY <1>1, <1>3, ConcatProperties
<1>7. \A i \in 1..Len(bus) : bus'[i] = bus[i]
  BY <1>1, <1>3, <1>6
<1>8. bus'[Len(bus) + 1] = a /\ bus'[Len(bus) + 2] = b
  BY <1>1, <1>3, <1>6
<1>9. Len(bus') <= MaxBus
  BY <1>1, <1>5
<1> QED BY <1>1, <1>4, <1>5, <1>7, <1>8, <1>9 DEF BusTyped

\* The bridge handles the first message; the others keep their order.
LEMMA BusHandled ==
    ASSUME BusTyped, NEW type, Delivered(type)
    PROVE  /\ BusTyped' /\ Len(bus) \in Nat /\ Len(bus) > 0 /\ Len(bus') = Len(bus) - 1
           /\ \A i \in 1..Len(bus') : bus'[i] = bus[i + 1]
           /\ Head(bus) = bus[1] /\ bus[1].type = type /\ bus[1] \in Message
<1>1. bus \in Seq(Message) /\ bus # <<>> /\ bus' = Tail(bus) /\ Head(bus).type = type
  BY DEF BusTyped, Delivered
<1>2. Len(bus) \in Nat /\ Len(bus) > 0
  BY <1>1, LenProperties, EmptySeq
<1>3. /\ Head(bus) = bus[1] /\ Tail(bus) \in Seq(Message) /\ Len(Tail(bus)) = Len(bus) - 1
      /\ \A i \in 1..Len(Tail(bus)) : Tail(bus)[i] = bus[i + 1]
  BY <1>1, HeadTailProperties
<1>4. bus[1] \in Message
  BY <1>1, <1>2, ElementOfSeq
<1>5. Len(bus') <= MaxBus
  BY <1>1, <1>2, <1>3, ConstantsAssumption DEF BusTyped
<1> QED
  BY <1>1, <1>2, <1>3, <1>4, <1>5 DEF BusTyped


\* The messages of the bus, by type.
LEMMA MessageFields ==
    ASSUME NEW m \in Message
    PROVE  /\ m.type \in {"added", "deleted", "created", "listed", "epoch"}
           /\ m.type \in {"added", "deleted", "created"} => m.path \in Path
           /\ m.type = "listed" => m.gen \in 0..MaxEpoch /\ m.paths \in SUBSET Path
           /\ m.type = "epoch" => m.present \in BOOLEAN
BY DEF Message

\* What ModemManager sends is a message.
LEMMA Messages ==
    /\ \A p \in Path : /\ [type |-> "added", path |-> p] \in Message
                       /\ [type |-> "deleted", path |-> p] \in Message
                       /\ [type |-> "created", path |-> p] \in Message
    /\ \A g \in 0..MaxEpoch, S \in SUBSET Path :
         [type |-> "listed", gen |-> g, paths |-> S] \in Message
    /\ \A b \in BOOLEAN : [type |-> "epoch", present |-> b] \in Message
<1>1. \A t \in {"added", "deleted", "created"}, p \in Path :
        [type |-> t, path |-> p] \in [type : {"added", "deleted", "created"}, path : Path]
  OBVIOUS
<1>2. \A g \in 0..MaxEpoch, S \in SUBSET Path :
        [type |-> "listed", gen |-> g, paths |-> S]
          \in [type : {"listed"}, gen : 0..MaxEpoch, paths : SUBSET Path]
  OBVIOUS
<1>3. \A b \in BOOLEAN : [type |-> "epoch", present |-> b] \in [type : {"epoch"}, present : BOOLEAN]
  OBVIOUS
<1> QED
  BY <1>1, <1>2, <1>3 DEF Message

\* A message sent or handled keeps the wire.
LEMMA WireSent ==
    ASSUME Wire, UNCHANGED mgen, NEW m \in Message, Emit(m),
           m.type = "listed" => m.gen <= mgen
    PROVE  Wire'
<1>1. /\ BusTyped' /\ Len(bus) \in Nat /\ Len(bus') = Len(bus) + 1
      /\ \A i \in 1..Len(bus) : bus'[i] = bus[i]
      /\ bus'[Len(bus) + 1] = m
  BY BusSent DEF Wire
<1>2. ASSUME NEW i \in 1..Len(bus'), bus'[i].type = "listed"
      PROVE  bus'[i].gen <= mgen'
  <2>1. CASE i \in 1..Len(bus)
    BY <1>1, <1>2, <2>1 DEF Wire, OnBus
  <2>2. CASE i = Len(bus) + 1
    BY <1>1, <1>2, <2>2
  <2> QED BY <1>1, <2>1, <2>2
<1> QED
  BY <1>1, <1>2 DEF Wire, OnBus

\* Epochs only grow, so what stays on the bus is of this one or older.
LEMMA WireHandled ==
    ASSUME Wire, ModemTyped, ModemTyped', mgen' >= mgen, NEW type, Delivered(type)
    PROVE  Wire'
<1>1. /\ BusTyped' /\ Len(bus) \in Nat /\ Len(bus) > 0 /\ Len(bus') = Len(bus) - 1
      /\ \A i \in 1..Len(bus') : bus'[i] = bus[i + 1]
  BY BusHandled DEF Wire
<1>2. ASSUME NEW i \in 1..Len(bus'), bus'[i].type = "listed"
      PROVE  bus'[i].gen <= mgen'
  <2>1. i + 1 \in 1..Len(bus) /\ bus'[i] = bus[i + 1]
    BY <1>1
  <2>2. bus[i + 1] \in Message
    BY <1>1, <2>1, ElementOfSeq DEF Wire, BusTyped
  <2>3. bus[i + 1].gen \in 0..MaxEpoch
    BY <1>2, <2>1, <2>2, MessageFields
  <2>4. bus[i + 1].gen <= mgen
    BY <1>2, <2>1 DEF Wire, OnBus
  <2> QED
    BY <2>1, <2>3, <2>4, ConstantsAssumption DEF ModemTyped
<1> QED
  BY <1>1, <1>2 DEF Wire, OnBus

-----------------------------------------------------------------------------
(* The first layer: ModemManager.                                          *)

\* A new message of the modem: only the store and the bus change.
LEMMA ArrivesOwned == ASSUME Owned, NEW p \in Path, MessageArrives(p) PROVE Owned'
<1>1. Core' /\ Flight'
  BY Framed DEF MessageArrives, Owned, modem, inventory, flight
<1>2. Wire'
  <2> DEFINE m == [type |-> "added", path |-> p]
  <2>1. m \in Message /\ m.type # "listed"
    BY Messages
  <2>2. Emit(m) /\ Wire /\ UNCHANGED mgen
    BY DEF MessageArrives, Owned, modem
  <2> HIDE DEF m
  <2> QED BY <2>1, <2>2, WireSent
<1>3. ManagerTyped'
  BY DEF MessageArrives, Owned, ManagerTyped
<1> QED BY <1>1, <1>2, <1>3 DEF Owned

\* A deletion by any client: only the store and the bus change.
LEMMA DeletedOwned == ASSUME Owned, NEW p \in Path, MessageDeleted(p) PROVE Owned'
<1>1. Core' /\ Flight'
  BY Framed DEF MessageDeleted, Owned, modem, inventory, flight
<1>2. Wire'
  <2> DEFINE m == [type |-> "deleted", path |-> p]
  <2>1. m \in Message /\ m.type # "listed"
    BY Messages
  <2>2. Emit(m) /\ Wire /\ UNCHANGED mgen
    BY DEF MessageDeleted, Owned, modem
  <2> HIDE DEF m
  <2> QED BY <2>1, <2>2, WireSent
<1>3. ManagerTyped'
  BY DEF MessageDeleted, Owned, ManagerTyped
<1> QED BY <1>1, <1>2, <1>3 DEF Owned

\* Another SIM: the bridge learns of it through the bus.
LEMMA EpochOwned == ASSUME Owned, NEW present \in BOOLEAN, EpochChanges(present) PROVE Owned'
<1>1. Core' /\ Flight'
  BY Framed DEF EpochChanges, Owned, modem, inventory, flight
<1>2. Wire'
  <2> DEFINE m == [type |-> "epoch", present |-> present]
  <2>1. m \in Message /\ m.type # "listed"
    BY Messages
  <2>2. Emit(m) /\ Wire /\ UNCHANGED mgen
    BY DEF EpochChanges, Owned, modem
  <2> HIDE DEF m
  <2> QED BY <2>1, <2>2, WireSent
<1>3. ManagerTyped'
  BY DEF EpochChanges, Owned, ManagerTyped
<1> QED BY <1>1, <1>2, <1>3 DEF Owned

\* Calls are only taken away.
LEMMA FewerCalls ==
    ASSUME Flight, UNCHANGED <<pending, dirty, state, mgen>>, calls' \subseteq calls
    PROVE  Flight'
BY DEF Flight, FlightTyped

\* The reply carries the epoch of its call, which is not one to come.
LEMMA ListReadOwned == ASSUME Owned, NEW c, ListRead(c) PROVE Owned'
<1>1. Core' /\ ManagerTyped'
  BY Framed DEF ListRead, Owned, modem, inventory, manager
<1>2. Flight'
  BY FewerCalls DEF ListRead, Owned, modem, inventory
<1>3. c \in Call /\ c.gen <= mgen /\ store \subseteq Path
  BY DEF ListRead, Owned, Flight, FlightTyped, ManagerTyped
<1>4. c.gen \in 0..MaxEpoch
  BY <1>3 DEF Call
<1>5. Wire'
  <2> DEFINE m == [type |-> "listed", gen |-> c.gen, paths |-> store]
  <2>1. m \in Message
    BY <1>3, <1>4, Messages
  <2>2. m.gen = c.gen
    OBVIOUS
  <2>3. Emit(m) /\ Wire /\ UNCHANGED mgen
    BY DEF ListRead, Owned, modem
  <2> HIDE DEF m
  <2> QED BY <1>3, <2>1, <2>2, <2>3, WireSent
<1> QED BY <1>1, <1>2, <1>5 DEF Owned

\* A completion that is out of date only takes its call away.
LEMMA ListStaleOwned == ASSUME Owned, NEW c, ListStale(c) PROVE Owned'
<1>1. Core' /\ ManagerTyped' /\ Wire'
  BY Framed DEF ListStale, Owned, modem, inventory, manager
<1>2. Flight'
  BY FewerCalls DEF ListStale, Owned, modem, inventory
<1> QED BY <1>1, <1>2 DEF Owned

\* The timer touches nothing but the flight.
LEMMA RefreshOwned == ASSUME Owned, Refresh PROVE Owned'
<1>1. ManagerTyped' /\ Wire'
  BY Framed DEF Refresh, Owned, modem, inventory, manager
<1>2. Flight'
  BY RefreshFlight DEF Refresh, Owned, Core, modem
<1>3. Core'
  BY DEF Refresh, Owned, Core, modem, ModemTyped, CacheTyped, Bounded, Cached, IdsOwned,
         CachedIds, SendStale, CacheOfEpoch
<1> QED BY <1>1, <1>2, <1>3 DEF Owned

-----------------------------------------------------------------------------
(* The first layer: the cache.                                             *)

\* Sets of paths are finite, and a part of one is not larger.
LEMMA Sizes ==
    ASSUME NEW S \in SUBSET Path
    PROVE  /\ IsFiniteSet(S) /\ Cardinality(S) \in Nat
           /\ \A R \in SUBSET S : Cardinality(R) <= Cardinality(S) /\ Cardinality(R) \in Nat
           /\ \A p \in Path : Cardinality(S \cup {p}) <= Cardinality(S) + 1
                              /\ Cardinality(S \cup {p}) \in Nat
<1>1. IsFiniteSet(S)
  BY FS_Subset, ConstantsAssumption
<1>2. Cardinality(S) \in Nat
  BY <1>1, FS_CardinalityType
<1>3. \A R \in SUBSET S : Cardinality(R) <= Cardinality(S) /\ Cardinality(R) \in Nat
  BY <1>1, FS_Subset, FS_CardinalityType
<1>4. \A p \in Path : Cardinality(S \cup {p}) <= Cardinality(S) + 1
                      /\ Cardinality(S \cup {p}) \in Nat
  <2>1. ASSUME NEW p \in Path
        PROVE  Cardinality(S \cup {p}) = IF p \in S THEN Cardinality(S) ELSE Cardinality(S) + 1
    BY <1>1, FS_AddElement
  <2> QED BY <1>2, <2>1
<1> QED BY <1>1, <1>2, <1>3, <1>4

\* A step that leaves all but the revision alone.
LEMMA CoreFramed ==
    ASSUME Core, UNCHANGED <<modem, cache, reserved, tombs, truncated, created, source, send>>,
           revision' \in {0, 1}
    PROVE  Core'
BY DEF Core, modem, ModemTyped, CacheTyped, Bounded, Cached, IdsOwned,
       CachedIds, SendStale, CacheOfEpoch

\* The revision modulo 2 stays in its range.
LEMMA Bumped == ASSUME Core, Bump PROVE revision' \in {0, 1}
BY DEF Core, CacheTyped, Bump

\* The empty cache holds nothing.
LEMMA Emptied ==
    ASSUME cache' = Empty, source' = Nowhere
    PROVE  /\ cache' \in [Path -> Id \cup {NoId}] /\ source' \in [Path -> 0..MaxEpoch]
           /\ Cached' = {} /\ Cardinality(Cached') <= Limit
<1>1. Cached' = {}
  BY DEF Cached, Empty
<1>2. Cardinality(Cached') <= Limit
  BY <1>1, FS_EmptySet, ConstantsAssumption
<1> QED BY <1>1, <1>2, ConstantsAssumption DEF Empty, Nowhere

\* The cache is dropped: a list call failed or the modem was removed.
LEMMA CoreEmptied ==
    ASSUME Core, cache' = Empty, source' = Nowhere, created' = {},
           UNCHANGED <<messaging, mgen, reserved, tombs, truncated, send>>,
           live' \in BOOLEAN, live' => live, revision' \in {0, 1}
    PROVE  Core'
<1>1. /\ cache' \in [Path -> Id \cup {NoId}] /\ source' \in [Path -> 0..MaxEpoch]
      /\ Cached' = {} /\ Cardinality(Cached') <= Limit
  BY Emptied
<1>2. CachedIds' = {}
  BY <1>1 DEF CachedIds
<1>3. IdsOwned' /\ CacheOfEpoch'
  BY <1>1, <1>2 DEF IdsOwned, CacheOfEpoch, Core, SendStale
<1>4. ModemTyped' /\ CacheTyped' /\ Bounded'
  BY <1>1 DEF ModemTyped, CacheTyped, Bounded, Core
<1> QED
  BY <1>1, <1>3, <1>4 DEF Core

\* modem_mark_removed empties the cache of a modem that is gone.
LEMMA RemovedOwned == ASSUME Owned, ModemRemoved PROVE Owned'
<1>1. Flight' /\ Wire' /\ ManagerTyped'
  BY Framed DEF ModemRemoved, Owned, flight, manager
<1>2. Core'
  BY CoreEmptied DEF ModemRemoved, Owned, Core, CacheTyped
<1> QED BY <1>1, <1>2 DEF Owned

\* A failed list empties the cache; the reservation of a send stays.
LEMMA FailsOwned == ASSUME Owned, NEW c, NEW reply \in BOOLEAN, ListFails(c, reply) PROVE Owned'
<1>1. Wire'
  BY Framed DEF ListFails, Owned, modem
<1>2. ManagerTyped'
  BY ConstantsAssumption DEF ListFails, Owned, ManagerTyped
<1>3. revision' \in {0, 1}
  BY Bumped DEF ListFails, Owned
<1>4. Core'
  BY <1>3, CoreEmptied DEF ListFails, Owned, Core, ModemTyped, modem
<1>5. Flight'
  <2>1. calls \ {c} \in SUBSET Call /\ \A d \in calls \ {c} : d.gen <= mgen
    BY DEF Owned, Flight, FlightTyped
  <2>2. Requery(calls \ {c}, "unavailable") /\ UNCHANGED mgen /\ ModemTyped
    BY DEF ListFails, modem, Owned, Core
  <2>3. "unavailable" \in States
    BY DEF States
  <2> QED BY <2>1, <2>2, <2>3, RequeryFlight
<1> QED BY <1>1, <1>2, <1>4, <1>5 DEF Owned

\* A change of a message's properties moves the revision alone.
LEMMA PropertiesOwned == ASSUME Owned, SmsPropertiesChanged PROVE Owned'
<1>1. Flight' /\ Wire' /\ ManagerTyped'
  BY Framed DEF SmsPropertiesChanged, Owned, flight, manager, modem
<1>2. Core'
  BY CoreFramed, Bumped DEF SmsPropertiesChanged, Owned, modem
<1> QED BY <1>1, <1>2 DEF Owned

\* The signals.
LEMMA SmsAddedOwned == ASSUME Owned, SmsAdded PROVE Owned'
<1> USE DEF Owned
<1>1. ManagerTyped' /\ UNCHANGED <<live, messaging, mgen, send>> /\ ModemTyped /\ ModemTyped'
  BY Framed DEF SmsAdded, modem, Core, ModemTyped
<1>2. Wire'
  BY <1>1, WireHandled, ConstantsAssumption DEF SmsAdded, ModemTyped
<1>3. CASE live /\ messaging
  <2>1. Flight'
    BY <1>1, <1>3, RefreshFlight DEF SmsAdded
  <2>2. revision' \in {0, 1}
    BY <1>3, Bumped DEF SmsAdded
  <2>3. tombs' \subseteq tombs
    BY <1>3 DEF SmsAdded
  <2>4. Cardinality(tombs') <= Limit
    BY <2>3, Sizes, ConstantsAssumption DEF Core, Bounded
  <2>5. Bounded' /\ CacheTyped'
    BY <1>3, <2>2, <2>3, <2>4 DEF SmsAdded, Core, Bounded, CacheTyped, Cached
  <2>6. IdsOwned' /\ CacheOfEpoch' /\ Cached' = Cached
    BY <1>1, <1>3 DEF SmsAdded, Core, IdsOwned, CacheOfEpoch, Cached, CachedIds, SendStale
  <2>7. Core'
    BY <1>1, <2>5, <2>6 DEF Core
  <2> QED BY <1>1, <1>2, <2>1, <2>7
<1>4. CASE ~(live /\ messaging)
  BY <1>1, <1>2, <1>4, Framed DEF SmsAdded, inventory, flight, modem
<1> QED BY <1>3, <1>4


\* A Deleted signal takes one message out and adds one tombstone at most.
LEMMA SmsDeletedOwned == ASSUME Owned, SmsDeleted PROVE Owned'
<1> USE DEF Owned
<1>1. ManagerTyped' /\ UNCHANGED <<live, messaging, mgen, send>> /\ ModemTyped /\ ModemTyped'
  BY Framed DEF SmsDeleted, modem, Core, ModemTyped
<1>2. Wire'
  BY <1>1, WireHandled, ConstantsAssumption DEF SmsDeleted, ModemTyped
<1>3. CASE live /\ messaging
  <2> DEFINE p == Head(bus).path
  <2>1. Flight'
    BY <1>1, <1>3, RefreshFlight DEF SmsDeleted
  <2>2. Head(bus) = bus[1] /\ bus[1].type = "deleted" /\ bus[1] \in Message
    BY BusHandled DEF SmsDeleted, Wire
  <2>3. p \in Path
    BY <2>2, MessageFields
  <2>4. /\ tombs' = Tombstoned(p)
        /\ cache' = [cache EXCEPT ![p] = NoId] /\ source' = [source EXCEPT ![p] = 0]
        /\ created' = created \ {p} /\ UNCHANGED <<reserved, truncated>>
        /\ (Bump \/ UNCHANGED revision)
    BY <1>3 DEF SmsDeleted
  <2> HIDE DEF p
  <2>5. tombs' \subseteq Path /\ Cardinality(tombs') <= Limit
    <3>1. tombs \in SUBSET Path /\ Cardinality(tombs) <= Limit
      BY DEF Core, Bounded
    <3>2. /\ Cardinality(tombs) \in Nat /\ Cardinality(tombs \cup {p}) \in Nat
          /\ Cardinality(tombs \cup {p}) <= Cardinality(tombs) + 1
      BY <2>3, <3>1, Sizes
    <3>3. CASE Cardinality(tombs) < Limit
      BY <2>3, <2>4, <3>1, <3>2, <3>3, ConstantsAssumption DEF Tombstoned
    <3>4. CASE ~(Cardinality(tombs) < Limit)
      BY <2>4, <3>1, <3>4 DEF Tombstoned
    <3> QED BY <3>3, <3>4
  <2>6. revision' \in {0, 1}
    BY <2>4, Bumped DEF Core, CacheTyped
  <2>7. /\ cache' \in [Path -> Id \cup {NoId}] /\ source' \in [Path -> 0..MaxEpoch]
        /\ \A q \in Path : q # p => cache'[q] = cache[q] /\ source'[q] = source[q]
        /\ cache'[p] = NoId
    BY <2>3, <2>4, ConstantsAssumption DEF Core, CacheTyped
  <2>8. /\ Cached' \subseteq Cached
        /\ \A q \in Cached' : cache'[q] = cache[q] /\ source'[q] = source[q]
    BY <2>7 DEF Cached
  <2>9. Cardinality(Cached') <= Limit
    <3>1. Cached \in SUBSET Path
      BY DEF Cached
    <3> QED BY <2>8, <3>1, Sizes, ConstantsAssumption DEF Core, Bounded
  <2>10. CacheTyped' /\ Bounded'
    BY <2>4, <2>5, <2>6, <2>7, <2>9 DEF Core, CacheTyped, Bounded
  <2>11. CachedIds' \subseteq CachedIds
    BY <2>8 DEF CachedIds
  <2>12. IdsOwned'
    BY <1>1, <2>4, <2>8, <2>11 DEF Core, IdsOwned, SendStale
  <2>13. CacheOfEpoch'
    BY <1>1, <2>8 DEF Core, CacheOfEpoch
  <2>14. Core'
    BY <1>1, <1>3, <2>10, <2>12, <2>13 DEF Core
  <2> QED BY <1>1, <1>2, <2>1, <2>14
<1>4. CASE ~(live /\ messaging)
  BY <1>1, <1>2, <1>4, Framed DEF SmsDeleted, inventory, flight, modem
<1> QED BY <1>3, <1>4

\* A reply becomes a call of the epoch it was sent in.
LEMMA ListRepliedOwned == ASSUME Owned, ListReplied PROVE Owned'
<1> USE DEF Owned
<1>1. /\ Core' /\ ManagerTyped' /\ UNCHANGED <<mgen, state, pending, dirty>>
      /\ ModemTyped /\ ModemTyped'
  BY Framed DEF ListReplied, modem, inventory, manager, Core, ModemTyped
<1>2. Wire'
  BY <1>1, WireHandled, ConstantsAssumption DEF ListReplied, ModemTyped
<1>3. /\ Head(bus) = bus[1] /\ bus[1].type = "listed" /\ bus[1] \in Message
      /\ Len(bus) \in Nat /\ Len(bus) > 0
  BY BusHandled DEF ListReplied, Wire
<1>4. bus[1].gen \in 0..MaxEpoch /\ bus[1].paths \in SUBSET Path
  BY <1>3, MessageFields
<1>5. bus[1].gen <= mgen
  BY <1>3 DEF Wire, OnBus
<1> DEFINE c == [gen |-> bus[1].gen, read |-> TRUE, paths |-> bus[1].paths]
<1>6. c \in Call
  BY <1>4 DEF Call
<1>7. c.gen = bus[1].gen /\ calls' = calls \cup {c}
  BY <1>3 DEF ListReplied
<1> HIDE DEF c
<1>8. Flight'
  BY <1>1, <1>5, <1>6, <1>7 DEF Flight, FlightTyped
<1> QED BY <1>1, <1>2, <1>8

\* Only the phase of a send moves, among those that hold its identity.
LEMMA CoreAdvances ==
    ASSUME Core, UNCHANGED <<modem, inventory>>, send' \in Send,
           send'.gen = send.gen, send'.id = send.id, send'.path \in Path,
           send.phase \in {"create", "replied", "building"},
           send'.phase \in {"replied", "building"}
    PROVE  Core'
<1>1. ModemTyped' /\ CacheTyped' /\ Bounded' /\ CacheOfEpoch' /\ Cached' = Cached
  BY DEF Core, modem, inventory, ModemTyped, CacheTyped, Bounded, Cached, CacheOfEpoch
<1>2. IdsOwned'
  <2>1. CachedIds' = CachedIds /\ (SendStale' <=> SendStale) /\ UNCHANGED <<reserved, cache, live>>
    BY <1>1 DEF CachedIds, SendStale, modem, inventory
  <2> QED BY <1>1, <2>1 DEF Core, IdsOwned
<1> QED
  BY <1>1, <1>2 DEF Core, modem, inventory

\* Create() gives the send its path; its identity stays reserved.
LEMMA CreatedOwned == ASSUME Owned, NEW p \in Path, MessageCreated(p) PROVE Owned'
<1> USE DEF Owned
<1>1. Flight' /\ UNCHANGED mgen
  BY Framed DEF MessageCreated, modem, inventory, flight
<1>2. ManagerTyped'
  BY DEF MessageCreated, ManagerTyped
<1>3. Core'
  <2>1. /\ send' \in Send /\ send'.gen = send.gen /\ send'.id = send.id /\ send'.path = p
        /\ send'.phase = "replied"
    BY DEF MessageCreated, Core, Send
  <2> QED BY <2>1, CoreAdvances DEF MessageCreated
<1>4. Wire'
  <2> DEFINE a == [type |-> "added", path |-> p]
             b == [type |-> "created", path |-> p]
  <2>1. a \in Message /\ b \in Message /\ a.type # "listed" /\ b.type # "listed"
    BY Messages
  <2>2. bus' = bus \o <<a, b>> /\ Len(bus) + 1 < MaxBus
    BY DEF MessageCreated
  <2> HIDE DEF a, b
  <2>3. /\ BusTyped' /\ Len(bus) \in Nat /\ Len(bus') = Len(bus) + 2
        /\ \A i \in 1..Len(bus) : bus'[i] = bus[i]
        /\ bus'[Len(bus) + 1] = a /\ bus'[Len(bus) + 2] = b
    BY <2>1, <2>2, BusSentTwo DEF Wire
  <2>4. ASSUME NEW i \in 1..Len(bus'), bus'[i].type = "listed"
        PROVE  bus'[i].gen <= mgen'
    <3>1. i \in 1..Len(bus) \/ i = Len(bus) + 1 \/ i = Len(bus) + 2
      BY <2>3
    <3>2. i \in 1..Len(bus)
      BY <2>1, <2>3, <2>4, <3>1
    <3> QED BY <1>1, <2>3, <2>4, <3>2 DEF Wire, OnBus
  <2> QED
    BY <2>3, <2>4 DEF Wire, OnBus
<1> QED BY <1>1, <1>2, <1>3, <1>4

\* The reply of Create() moves the send it belongs to, or nothing.
LEMMA CreateRepliedOwned == ASSUME Owned, CreateReplied PROVE Owned'
<1> USE DEF Owned
<1>1. Flight' /\ ManagerTyped' /\ UNCHANGED mgen /\ ModemTyped /\ ModemTyped'
  BY Framed DEF CreateReplied, modem, inventory, flight, manager, Core, ModemTyped
<1>2. Wire'
  BY <1>1, WireHandled, ConstantsAssumption DEF CreateReplied, ModemTyped
<1>3. CASE UNCHANGED send
  BY <1>1, <1>2, <1>3, Framed DEF CreateReplied
<1>4. CASE send.phase = "replied" /\ send' = [send EXCEPT !.phase = "building"]
  <2>1. /\ send' \in Send /\ send'.gen = send.gen /\ send'.id = send.id
        /\ send'.path = send.path /\ send'.phase = "building"
    BY <1>4 DEF Core, Send
  <2>2. send.path \in Path
    BY <1>4 DEF Core
  <2>3. Core'
    BY <1>4, <2>1, <2>2, CoreAdvances DEF CreateReplied
  <2> QED BY <1>1, <1>2, <2>3
<1> QED BY <1>3, <1>4 DEF CreateReplied


\* A new epoch: what was reserved is released, and the send that reserved it
\* is of an epoch that is over.
LEMMA ReconciledOwned == ASSUME Owned, MessagingReconciled PROVE Owned'
<1> USE DEF Owned
<1>1. ManagerTyped' /\ UNCHANGED <<live, send>>
  BY Framed DEF MessagingReconciled, modem
<1>2. /\ Head(bus) = bus[1] /\ bus[1].type = "epoch" /\ bus[1] \in Message
      /\ Len(bus) \in Nat /\ Len(bus) > 0
  BY BusHandled DEF MessagingReconciled, Wire
<1>3. Head(bus).present \in BOOLEAN
  BY <1>2, MessageFields
<1>4. CASE ~live
  <2>1. Core' /\ Flight' /\ UNCHANGED mgen /\ ModemTyped /\ ModemTyped'
    BY <1>1, <1>4, Framed DEF MessagingReconciled, modem, inventory, Core
  <2>2. Wire'
    BY <2>1, WireHandled, ConstantsAssumption DEF MessagingReconciled, ModemTyped
  <2> QED BY <1>1, <2>1, <2>2
<1>5. CASE live
  <2> DEFINE present == Head(bus).present
             last == mgen = MaxEpoch
  <2>1. /\ cache' = Empty /\ source' = Nowhere /\ created' = {}
        /\ reserved' = {} /\ tombs' = {} /\ truncated' = FALSE
        /\ mgen' = IF last THEN mgen ELSE mgen + 1
        /\ messaging' = (present /\ ~last)
        /\ (UNCHANGED revision \/ Bump)
        /\ pending' = messaging' /\ dirty' = FALSE
        /\ calls' = IF messaging' THEN calls \cup {[NewCall EXCEPT !.gen = mgen']} ELSE calls
        /\ state' \in {"unavailable", "loading", "absent"}
    BY <1>5 DEF MessagingReconciled
  <2>2. /\ mgen \in 0..MaxEpoch /\ mgen' \in 0..MaxEpoch /\ mgen' >= mgen
        /\ messaging' \in BOOLEAN /\ (messaging' => mgen' = mgen + 1)
    <3>1. messaging' \in BOOLEAN /\ (messaging' => ~last)
      BY <1>3, <2>1
    <3>2. mgen \in Nat /\ mgen \in 0..MaxEpoch
      BY ConstantsAssumption DEF Core, ModemTyped
    <3>3. ~last => mgen' = mgen + 1
      BY <2>1
    <3>4. mgen' \in 0..MaxEpoch /\ mgen' >= mgen
      BY <2>1, <3>2, ConstantsAssumption
    <3> QED BY <3>1, <3>2, <3>3, <3>4
  <2> HIDE DEF present, last
  <2>3. ModemTyped /\ ModemTyped'
    BY <1>1, <2>2 DEF Core, ModemTyped
  <2>4. Wire'
    BY <2>2, <2>3, WireHandled DEF MessagingReconciled
  <2>5. Flight'
    <3> DEFINE c == [NewCall EXCEPT !.gen = mgen']
    <3>1. c \in Call /\ c.gen = mgen' /\ mgen' <= mgen'
      <4> DEFINE R == [gen : 0..MaxEpoch, read : {FALSE}, paths : {{}}]
      <4>1. NewCall \in R
        BY <2>2 DEF NewCall
      <4>2. ASSUME NEW n \in R, NEW g \in 0..MaxEpoch
            PROVE  [n EXCEPT !.gen = g] \in R /\ [n EXCEPT !.gen = g].gen = g
        OBVIOUS
      <4>3. c \in R /\ c.gen = mgen'
        BY <2>2, <4>1, <4>2
      <4>4. mgen' <= mgen'
        BY <2>2, ConstantsAssumption
      <4> QED BY <4>3, <4>4 DEF Call
    <3>2. calls' \subseteq calls \cup {c}
      BY <2>1
    <3> HIDE DEF c
    <3>3. \A d \in calls : d.gen \in Nat /\ d.gen <= mgen
      BY CallFields DEF Flight, FlightTyped
    <3>4. \A d \in calls' : d.gen <= mgen'
      BY <2>2, <3>1, <3>2, <3>3, ConstantsAssumption
    <3>5. FlightTyped'
      BY <2>1, <2>2, <3>1, <3>2 DEF Flight, FlightTyped, States
    <3> QED BY <3>4, <3>5 DEF Flight
  <2>6. /\ cache' \in [Path -> Id \cup {NoId}] /\ source' \in [Path -> 0..MaxEpoch]
        /\ Cached' = {} /\ Cardinality(Cached') <= Limit
    BY <2>1, Emptied
  <2>7. CacheTyped' /\ Bounded'
    BY <2>1, <2>6, Bumped, FS_EmptySet, ConstantsAssumption DEF CacheTyped, Bounded, Core
  <2>8. send'.gen <= mgen' /\ SendStale'
    <3>1. send.gen \in Nat /\ send.gen <= mgen
      BY ConstantsAssumption DEF Core, Send
    <3> QED BY <1>1, <2>2, <3>1, ConstantsAssumption DEF SendStale
  <2>9. IdsOwned' /\ CacheOfEpoch'
    BY <2>1, <2>6, <2>8 DEF IdsOwned, CacheOfEpoch, CachedIds
  <2>10. Core'
    BY <1>1, <2>3, <2>6, <2>7, <2>8, <2>9 DEF Core
  <2> QED BY <1>1, <2>4, <2>5, <2>10
<1> QED BY <1>4, <1>5 DEF Core, ModemTyped

\* A send ends: the identity it reserved, if it still does, is released.
LEMMA CoreFreed ==
    ASSUME Core, UNCHANGED <<modem, cache, tombs, created, source>>, Freed,
           send.phase # "idle", truncated' \in BOOLEAN, revision' \in {0, 1}
    PROVE  Core'
<1>1. /\ send' \in Send /\ send'.gen = 0 /\ send'.phase = "idle"
      /\ UNCHANGED <<live, messaging, mgen, cache, tombs, created, source>>
      /\ reserved' = reserved \ {send.id}
  BY ConstantsAssumption DEF Freed, Idle, Send, modem
<1>2. Cached' = Cached /\ CachedIds' = CachedIds /\ CacheOfEpoch'
  BY <1>1 DEF Core, Cached, CachedIds, CacheOfEpoch
<1>3. ModemTyped' /\ CacheTyped' /\ Bounded'
  BY <1>1, <1>2 DEF Core, ModemTyped, CacheTyped, Bounded
<1>4. live' => reserved' = {}
  <2>1. live => reserved \subseteq {send.id}
    BY DEF Core, IdsOwned
  <2> QED BY <1>1, <2>1
<1>5. IdsOwned'
  BY <1>1, <1>2, <1>4 DEF Core, IdsOwned
<1>6. send'.gen <= mgen'
  BY <1>1, ConstantsAssumption DEF Core, ModemTyped
<1> QED
  BY <1>1, <1>2, <1>3, <1>5, <1>6 DEF Core

\* A failed Create() releases the identity.
LEMMA CreateFailsOwned == ASSUME Owned, CreateFails PROVE Owned'
<1>1. Flight' /\ Wire' /\ ManagerTyped'
  BY Framed DEF CreateFails, Owned, flight, manager, modem
<1>2. Core'
  BY CoreFreed DEF CreateFails, Owned, Core, CacheTyped
<1> QED BY <1>1, <1>2 DEF Owned

\* The end of a send releases nothing the cache uses.
LEMMA SendEndsOwned == ASSUME Owned, NEW sent \in BOOLEAN, SendEnds(sent) PROVE Owned'
<1>1. Wire' /\ ManagerTyped' /\ UNCHANGED mgen
  BY Framed DEF SendEnds, Owned, manager, modem
<1>2. Flight'
  <2>1. CASE QuerySms(pending, dirty, calls, state)
    BY <1>1, <2>1, RefreshFlight DEF Owned, Core
  <2>2. CASE UNCHANGED <<flight, state>>
    BY <1>1, <2>2, Framed DEF Owned
  <2> QED BY <2>1, <2>2 DEF SendEnds
<1>3. Core'
  BY CoreFreed DEF SendEnds, Owned, Core, CacheTyped
<1> QED BY <1>1, <1>2, <1>3 DEF Owned

\* send_sms reserves an identity that no cached message has.
LEMMA SendSmsOwned == ASSUME Owned, NEW i \in Id, SendSms(i) PROVE Owned'
<1>1. Flight' /\ Wire' /\ ManagerTyped' /\ UNCHANGED <<live, messaging, mgen, cache, tombs, source>>
  BY Framed DEF SendSms, Owned, flight, manager, modem
<1>2. Core /\ live /\ messaging /\ i \notin CachedIds /\ reserved' = reserved \cup {i}
  BY DEF SendSms, Owned, Used
<1>3. /\ send' \in Send /\ send'.gen = mgen /\ send'.id = i /\ send'.phase = "create"
      /\ mgen <= mgen
  BY <1>2, ConstantsAssumption DEF SendSms, Send, Core, ModemTyped
<1>4. reserved = {}
  BY <1>2 DEF Core, IdsOwned, SendSms
<1>5. Cached' = Cached /\ CachedIds' = CachedIds /\ CacheOfEpoch'
  BY <1>1, <1>2 DEF Core, Cached, CachedIds, CacheOfEpoch
<1>6. ~SendStale'
  BY <1>1, <1>2, <1>3 DEF SendStale
<1>7. IdsOwned'
  BY <1>1, <1>2, <1>3, <1>4, <1>5, <1>6 DEF Core, IdsOwned
<1>8. ModemTyped' /\ CacheTyped' /\ Bounded'
  BY <1>1, <1>2, <1>5 DEF Core, ModemTyped, CacheTyped, Bounded, SendSms
<1>9. Core'
  BY <1>1, <1>2, <1>3, <1>5, <1>7, <1>8 DEF Core
<1> QED BY <1>1, <1>9 DEF Owned


\* modem_admit_sms puts the message of a send into the cache.
LEMMA CoreAdmitted ==
    ASSUME Core, ~SendStale, Admissible, send.phase = "building",
           send.path \in Cached \/ Cardinality(Cached) < Limit,
           cache' = [cache EXCEPT ![send.path] = send.id],
           source' = [source EXCEPT ![send.path] = send.gen],
           created' = created \cup {send.path}, reserved' = reserved \ {send.id},
           Bump, send' = [send EXCEPT !.phase = "send"],
           UNCHANGED <<modem, truncated, tombs>>
    PROVE  Core'
<1> DEFINE p == send.path
           i == send.id
<1>1. /\ p \in Path /\ i \in Id /\ i # NoId /\ live /\ messaging /\ send.gen = mgen
      /\ i \in reserved /\ mgen \in 0..MaxEpoch
  BY ConstantsAssumption DEF Core, SendStale, Admissible, ModemTyped
<1>2. /\ send' \in Send /\ send'.gen = send.gen /\ send'.id = i /\ send'.path = p
      /\ send'.phase = "send"
  BY DEF Core, Send
<1>3. UNCHANGED <<live, messaging, mgen, tombs, truncated>>
  BY DEF modem
<1>4. i \notin CachedIds
  BY <1>1 DEF Core, IdsOwned
<1>5. /\ cache' \in [Path -> Id \cup {NoId}] /\ source' \in [Path -> 0..MaxEpoch]
      /\ \A q \in Path : q # p => cache'[q] = cache[q] /\ source'[q] = source[q]
      /\ cache'[p] = i /\ source'[p] = mgen
  BY <1>1 DEF Core, CacheTyped
<1> HIDE DEF p, i
<1>6. Cached' = Cached \cup {p}
  BY <1>1, <1>5 DEF Cached
<1>7. Cardinality(Cached') <= Limit
  <2>1. Cached \in SUBSET Path /\ Cardinality(Cached) <= Limit
    BY DEF Cached, Core, Bounded
  <2>2. Cardinality(Cached) \in Nat /\ Cardinality(Cached') <= Cardinality(Cached) + 1
        /\ Cardinality(Cached') \in Nat
    BY <1>1, <1>6, <2>1, Sizes
  <2>3. CASE p \in Cached
    <3>1. Cached' = Cached
      BY <1>6, <2>3
    <3> QED BY <2>1, <3>1
  <2>4. CASE Cardinality(Cached) < Limit
    BY <2>2, <2>4, ConstantsAssumption
  <2> QED BY <2>3, <2>4 DEF p
<1>8. Bounded' /\ CacheTyped' /\ ModemTyped'
  BY <1>1, <1>3, <1>5, <1>7, Bumped DEF Core, Bounded, CacheTyped, ModemTyped, p
<1>9. reserved' = {}
  <2>1. reserved \subseteq {i}
    BY <1>1 DEF Core, IdsOwned, i
  <2> QED BY <2>1 DEF i
<1>10. \A q \in Cached : cache[q] # i
  BY <1>4 DEF CachedIds
<1>11. \A q, r \in Cached' : q # r => cache'[q] # cache'[r]
  <2> SUFFICES ASSUME NEW q \in Cached', NEW r \in Cached', q # r
               PROVE  cache'[q] # cache'[r]
    OBVIOUS
  <2>1. q \in Path /\ r \in Path
    BY DEF Cached
  <2>2. CASE q = p
    BY <1>5, <1>6, <1>10, <2>1, <2>2
  <2>3. CASE r = p
    BY <1>5, <1>6, <1>10, <2>1, <2>3
  <2>4. CASE q # p /\ r # p
    BY <1>5, <1>6, <2>1, <2>4 DEF Core, IdsOwned
  <2> QED BY <2>2, <2>3, <2>4
<1>12. IdsOwned'
  BY <1>2, <1>9, <1>11 DEF IdsOwned
<1>13. CacheOfEpoch'
  BY <1>3, <1>5, <1>6 DEF CacheOfEpoch, Core, Cached
<1>14. send'.gen <= mgen'
  BY <1>2, <1>3 DEF Core
<1> QED
  BY <1>1, <1>2, <1>3, <1>8, <1>12, <1>13, <1>14 DEF Core

\* Whether the message is admitted or not, its reservation ends.
LEMMA CreateReadyOwned == ASSUME Owned, CreateReady PROVE Owned'
<1>1. Flight' /\ Wire' /\ ManagerTyped' /\ UNCHANGED <<modem, tombs>>
  BY Framed DEF CreateReady, Owned, flight, manager, modem
<1>2. Core /\ truncated \in BOOLEAN /\ revision \in {0, 1} /\ send.phase = "building"
  BY DEF CreateReady, Owned, Core, CacheTyped
<1>3. CASE Freed /\ UNCHANGED <<cache, truncated, revision, created, source>>
  <2>1. Core'
    BY <1>1, <1>2, <1>3, CoreFreed
  <2> QED BY <1>1, <2>1 DEF Owned
<1>4. CASE Freed /\ truncated' = TRUE /\ UNCHANGED <<cache, revision, created, source>>
  <2>1. Core'
    BY <1>1, <1>2, <1>4, CoreFreed
  <2> QED BY <1>1, <2>1 DEF Owned
<1>5. CASE /\ ~SendStale /\ Admissible
           /\ send.path \in Cached \/ Cardinality(Cached) < Limit
           /\ cache' = [cache EXCEPT ![send.path] = send.id]
           /\ source' = [source EXCEPT ![send.path] = send.gen]
           /\ created' = created \cup {send.path}
           /\ reserved' = reserved \ {send.id}
           /\ Bump
           /\ send' = [send EXCEPT !.phase = "send"]
           /\ UNCHANGED truncated
  <2>1. Core'
    BY <1>1, <1>2, <1>5, CoreAdmitted
  <2> QED BY <1>1, <2>1 DEF Owned
<1> QED
  BY <1>3, <1>4, <1>5 DEF CreateReady

\* What sms_list_ready makes of the cache.
LEMMA ListedCache ==
    ASSUME Core, NEW kept \in SUBSET Path, NEW f \in Fresh(kept \ Reuses(kept)),
           cache' = [p \in Path |-> CASE p \in Reuses(kept) -> cache[p]
                                      [] p \in kept \ Reuses(kept) -> f[p]
                                      [] p \notin kept -> NoId]
    PROVE  /\ cache' \in [Path -> Id \cup {NoId}]
           /\ Cached' = kept
           /\ \A p \in kept \cap Cached : cache'[p] = cache[p]
           /\ \A p \in kept \ Cached : cache'[p] \in Id \ Used
           /\ \A p, q \in kept : p # q => cache'[p] # cache'[q]
           /\ CachedIds' \cap reserved = {}
<1> DEFINE new == kept \ Cached
<1>1. Reuses(kept) = kept \cap Cached /\ kept \ Reuses(kept) = new
  BY DEF Reuses
<1>2. f \in [new -> Id \ Used] /\ \A p, q \in new : p # q => f[p] # f[q]
  BY <1>1 DEF Fresh
<1>3. cache \in [Path -> Id \cup {NoId}]
  BY DEF Core, CacheTyped
<1>4. ASSUME NEW p \in Path
      PROVE  /\ p \in kept \cap Cached => cache'[p] = cache[p]
             /\ p \in new => cache'[p] = f[p]
             /\ p \notin kept => cache'[p] = NoId
             /\ DOMAIN cache' = Path
  BY <1>1
<1>5. \A p \in new : cache'[p] = f[p] /\ f[p] \in Id \ Used
  BY <1>2, <1>4
<1>6. \A p \in Path : cache'[p] \in Id \cup {NoId}
  BY <1>3, <1>4, <1>5
<1>7. cache' \in [Path -> Id \cup {NoId}]
  <2>1. cache' = [p \in Path |-> cache'[p]]
    OBVIOUS
  <2> QED BY <1>6, <2>1
<1>8. Cached' = kept
  BY <1>4, <1>5, ConstantsAssumption DEF Cached
<1>9. \A p \in Cached : cache[p] \in CachedIds /\ cache[p] \notin reserved
  BY DEF Core, IdsOwned, CachedIds
<1>10. \A p, q \in kept : p # q => cache'[p] # cache'[q]
  <2> SUFFICES ASSUME NEW p \in kept, NEW q \in kept, p # q
               PROVE  cache'[p] # cache'[q]
    OBVIOUS
  <2>1. CASE p \in new /\ q \in new
    BY <1>2, <1>5, <2>1
  <2>2. CASE p \in new /\ q \in Cached
    BY <1>4, <1>5, <1>9, <2>2 DEF Used
  <2>3. CASE p \in Cached /\ q \in new
    BY <1>4, <1>5, <1>9, <2>3 DEF Used
  <2>4. CASE p \in Cached /\ q \in Cached
    BY <1>4, <2>4 DEF Core, IdsOwned
  <2> QED BY <2>1, <2>2, <2>3, <2>4
<1>11. CachedIds' \cap reserved = {}
  <2>1. \A p \in kept : cache'[p] \notin reserved
    BY <1>4, <1>5, <1>9 DEF Used
  <2> QED BY <1>8, <2>1 DEF CachedIds
<1> QED
  BY <1>4, <1>5, <1>7, <1>8, <1>10, <1>11

\* What is kept of a list fits into the cache.
LEMMA KeptFits ==
    ASSUME NEW found \in SUBSET Path, NEW kept \in SUBSET found,
           Cardinality(kept) = RoomFor(Cardinality(found))
    PROVE  /\ Cardinality(kept) <= Limit
           /\ Cardinality(found) <= Limit => kept = found
<1>1. IsFiniteSet(found) /\ Cardinality(found) \in Nat
  BY Sizes
<1>2. Cardinality(kept) <= Limit
  BY <1>1, ConstantsAssumption DEF RoomFor
<1>3. ASSUME Cardinality(found) <= Limit PROVE kept = found
  <2>1. Cardinality(found) = Cardinality(kept)
    BY <1>1, <1>3, ConstantsAssumption DEF RoomFor
  <2> QED BY <1>1, <2>1, FS_Subset
<1> QED BY <1>2, <1>3

\* A list gives new messages identities that are neither used nor reserved.
LEMMA ListReadyOwned == ASSUME Owned, NEW c, NEW kept, ListReady(c, kept) PROVE Owned'
<1> USE DEF Owned
<1> DEFINE found == c.paths \ tombs
           cut == Cardinality(found) > Limit
<1>1. /\ c \in calls /\ live /\ messaging /\ c.gen = mgen
      /\ kept \subseteq found /\ Cardinality(kept) = RoomFor(Cardinality(found))
      /\ \E f \in Fresh(kept \ Reuses(kept)) :
           cache' = [p \in Path |-> CASE p \in Reuses(kept) -> cache[p]
                                      [] p \in kept \ Reuses(kept) -> f[p]
                                      [] p \notin kept -> NoId]
      /\ source' = [p \in Path |-> IF p \in kept THEN c.gen ELSE 0]
      /\ created' = {} /\ truncated' = cut /\ tombs' = tombs \cap c.paths
      /\ Bump
      /\ Requery(calls \ {c}, IF cut THEN "ready-truncated" ELSE "ready")
      /\ UNCHANGED <<modem, reserved, send, bus, manager>>
  BY DEF ListReady, ListCurrent
<1>2. UNCHANGED <<live, messaging, mgen>> /\ Wire' /\ ManagerTyped' /\ ModemTyped /\ ModemTyped'
  BY <1>1, Framed DEF modem, Core, ModemTyped
<1>3. found \in SUBSET Path /\ c \in Call /\ mgen \in 0..MaxEpoch
  BY <1>1, <1>2, CallFields DEF Flight, FlightTyped, ModemTyped
<1>4. Flight'
  <2>1. calls \ {c} \in SUBSET Call /\ \A d \in calls \ {c} : d.gen <= mgen
    BY DEF Owned, Flight, FlightTyped
  <2>2. (IF cut THEN "ready-truncated" ELSE "ready") \in States
    BY DEF States
  <2> QED BY <1>1, <1>2, <2>1, <2>2, RequeryFlight
<1>5. truncated' \in BOOLEAN
  BY <1>1
<1> HIDE DEF found, cut
<1>6. /\ cache' \in [Path -> Id \cup {NoId}] /\ Cached' = kept
      /\ \A p, q \in kept : p # q => cache'[p] # cache'[q]
      /\ CachedIds' \cap reserved = {}
  BY <1>1, <1>3, ListedCache
<1>7. Cardinality(Cached') <= Limit
  BY <1>1, <1>3, <1>6, KeptFits
<1>8. tombs' \subseteq tombs /\ Cardinality(tombs') <= Limit
  BY <1>1, Sizes, ConstantsAssumption DEF Core, Bounded
<1>9. source' \in [Path -> 0..MaxEpoch] /\ \A p \in kept : source'[p] = mgen
  BY <1>1, <1>3, ConstantsAssumption DEF found
<1>10. CacheTyped' /\ Bounded'
  BY <1>1, <1>5, <1>6, <1>7, <1>8, <1>9, Bumped DEF Core, CacheTyped, Bounded
<1>11. IdsOwned'
  BY <1>1, <1>2, <1>6 DEF IdsOwned, Core, SendStale
<1>12. CacheOfEpoch'
  BY <1>2, <1>6, <1>9 DEF CacheOfEpoch
<1>13. Core'
  BY <1>1, <1>2, <1>10, <1>11, <1>12 DEF Core
<1> QED BY <1>2, <1>4, <1>13

-----------------------------------------------------------------------------
(* The first layer is an invariant.                                        *)

\* A modem just admitted has an empty cache and its first call.
LEMMA InitOwned == Init => Owned
<1> SUFFICES ASSUME Init PROVE Owned
  OBVIOUS
<1>1. MaxEpoch \in Nat /\ MaxEpoch >= 1 /\ Limit \in Nat
  BY ConstantsAssumption
<1>2. ModemTyped
  BY <1>1 DEF Init, ModemTyped
<1>3. Cached = {}
  BY DEF Init, Cached, Empty
<1>4. CacheTyped
  <2>1. /\ cache = Empty /\ source = Nowhere /\ reserved = {} /\ created = {}
        /\ truncated = FALSE /\ revision \in {0, 1}
    BY DEF Init
  <2>2. Empty \in [Path -> Id \cup {NoId}] /\ Nowhere \in [Path -> 0..MaxEpoch]
    BY <1>1 DEF Empty, Nowhere
  <2> QED BY <2>1, <2>2 DEF CacheTyped
<1>5. Bounded
  BY <1>1, <1>3, FS_EmptySet DEF Init, Bounded
<1>6. send \in Send /\ send.gen = 0 /\ send.phase = "idle"
  BY <1>1 DEF Init, Idle, Send
<1>7. Core
  BY <1>1, <1>2, <1>3, <1>4, <1>5, <1>6
  DEF Core, IdsOwned, CacheOfEpoch, CachedIds, Init, ModemTyped
<1>8. Flight
  <2> DEFINE c == [gen |-> 1, read |-> FALSE, paths |-> {}]
  <2>1. c \in Call /\ c.gen = 1
    BY <1>1 DEF Call
  <2>2. calls \subseteq {c} /\ (calls # {} => mgen = 1)
    BY DEF Init
  <2> HIDE DEF c
  <2>3. FlightTyped
    BY <2>1, <2>2 DEF FlightTyped, Init, States
  <2> QED BY <1>1, <2>1, <2>2, <2>3 DEF Flight
<1>9. Wire
  BY <1>1, ConstantsAssumption DEF Wire, BusTyped, OnBus, Init
<1>10. ManagerTyped
  BY ConstantsAssumption DEF ManagerTyped, Init
<1> QED BY <1>7, <1>8, <1>9, <1>10 DEF Owned

\* Every step keeps the first layer.
LEMMA NextOwned == Owned /\ [Next]_vars => Owned'
<1> SUFFICES ASSUME Owned, [Next]_vars PROVE Owned'
  OBVIOUS
<1>1. CASE UNCHANGED vars
  BY <1>1, Framed DEF Owned, vars, modem, inventory, flight, manager
<1>2. ASSUME NEW p \in Path, MessageArrives(p) \/ MessageDeleted(p) \/ MessageCreated(p)
      PROVE  Owned'
  BY <1>2, ArrivesOwned, DeletedOwned, CreatedOwned
<1>3. ASSUME NEW present \in BOOLEAN, EpochChanges(present) PROVE Owned'
  BY <1>3, EpochOwned
<1>4. CASE ListSteps
  BY <1>4, ListReadOwned, ListStaleOwned, ListReadyOwned, FailsOwned DEF ListSteps
<1>5. CASE SendSteps
  BY <1>5, CreateFailsOwned, CreateReadyOwned, SendEndsOwned DEF SendSteps
<1>6. CASE Deliver
  BY <1>6, SmsAddedOwned, SmsDeletedOwned, ListRepliedOwned, CreateRepliedOwned, ReconciledOwned
  DEF Deliver
<1>7. CASE Refresh \/ ModemRemoved \/ SmsPropertiesChanged
  BY <1>7, RefreshOwned, RemovedOwned, PropertiesOwned
<1>8. ASSUME NEW i \in Id, SendSms(i) PROVE Owned'
  BY <1>8, SendSmsOwned
<1> QED
  BY <1>1, <1>2, <1>3, <1>4, <1>5, <1>6, <1>7, <1>8 DEF Next

\* The first layer is an invariant.
LEMMA AlwaysOwned == Spec => []Owned
BY InitOwned, NextOwned, PTL DEF Spec

(***************************************************************************)
(* Every variable keeps its type; the cache and the tombstones stay within *)
(* MAX_SMS_CACHE.                                                          *)
(***************************************************************************)
THEOREM TypeCorrect == Spec => []TypeOK
<1>1. Owned => TypeOK
  BY OwnedTyped
<1> QED BY <1>1, AlwaysOwned, PTL

(***************************************************************************)
(* No two messages share an identity, and an identity is reserved exactly  *)
(* while a send of this epoch waits for its message.                       *)
(***************************************************************************)
THEOREM IdentitiesOwned == Spec => []IdsOwned
<1>1. Owned => IdsOwned
  BY DEF Owned, Core
<1> QED BY <1>1, AlwaysOwned, PTL

(***************************************************************************)
(* Nothing a call of an earlier epoch returns is in the cache.             *)
(***************************************************************************)
THEOREM OneEpoch == Spec => []CacheOfEpoch
<1>1. Owned => CacheOfEpoch
  BY DEF Owned, Core
<1> QED BY <1>1, AlwaysOwned, PTL

-----------------------------------------------------------------------------
(* What a client that polls relies on.                                     *)

\* list_sms answers no more: the modem is gone, or the numbers of its
\* messaging epochs are used up.
Closed == ~live \/ (~messaging /\ mgen = MaxEpoch)

(***************************************************************************)
(* One step: a change of the inventory shows in the revision or is the     *)
(* end, and a message that stays keeps its identity unless its send has    *)
(* just admitted it.                                                       *)
(***************************************************************************)
View ==
    /\ cache' = cache \/ revision' # revision \/ Closed'
    /\ \A p \in (Cached \cap Cached') \ Admitted : cache'[p] = cache[p]

\* Nothing changed, or only by messages going away, and it shows.
LEMMA ViewShrinks ==
    ASSUME Owned, \A q \in Path : cache'[q] \in {cache[q], NoId},
           cache' = cache \/ revision' # revision \/ Closed'
    PROVE  View
BY DEF View, Cached

\* A bump is seen by a client that polls between two callbacks.
LEMMA BumpShows == ASSUME Owned, Bump PROVE revision' # revision
BY DEF Owned, Core, CacheTyped, Bump

\* Steps that leave the cache alone.
LEMMA ViewKept == ASSUME Owned, UNCHANGED cache PROVE View
BY ViewShrinks

\* A list keeps the identities of the messages it finds again.
LEMMA ListReadyView == ASSUME Owned, NEW c, NEW kept, ListReady(c, kept) PROVE View
<1>1. kept \in SUBSET Path /\ revision' # revision
  <2>1. c \in Call
    BY DEF ListReady, ListCurrent, Owned, Flight, FlightTyped
  <2> QED BY <2>1, CallFields, BumpShows DEF ListReady
<1>2. PICK f \in Fresh(kept \ Reuses(kept)) :
        cache' = [p \in Path |-> CASE p \in Reuses(kept) -> cache[p]
                                   [] p \in kept \ Reuses(kept) -> f[p]
                                   [] p \notin kept -> NoId]
  BY DEF ListReady
<1>3. Cached' = kept /\ \A p \in kept \cap Cached : cache'[p] = cache[p]
  BY <1>1, <1>2, ListedCache DEF Owned
<1> QED BY <1>1, <1>3 DEF View

\* A message admitted takes the reserved identity; the others keep theirs.
LEMMA CreateReadyView == ASSUME Owned, CreateReady PROVE View
<1>1. CASE UNCHANGED cache
  BY <1>1, ViewKept
<1>2. CASE /\ cache' = [cache EXCEPT ![send.path] = send.id] /\ Bump
           /\ send' = [send EXCEPT !.phase = "send"]
  <2>1. send \in Send /\ send.phase = "building" /\ cache \in [Path -> Id \cup {NoId}]
    BY DEF CreateReady, Owned, Core, CacheTyped
  <2>2. send'.phase = "send"
    BY <1>2, <2>1 DEF Send
  <2>3. Admitted = {send.path}
    BY <2>1, <2>2 DEF Admitted
  <2>4. \A q \in Path : q # send.path => cache'[q] = cache[q]
    BY <1>2, <2>1
  <2>5. revision' # revision
    BY <1>2, BumpShows
  <2> QED BY <2>3, <2>4, <2>5 DEF View, Cached
<1> QED BY <1>1, <1>2 DEF CreateReady

\* The cache is dropped.
LEMMA EmptiedView ==
    ASSUME Owned, cache' = Empty, revision' # revision \/ Closed' PROVE View
BY ViewShrinks DEF Empty

\* A new epoch counts as a change, unless there is no number left for it.
LEMMA ReconciledView == ASSUME Owned, MessagingReconciled PROVE View
<1>1. CASE ~live
  BY <1>1, ViewKept DEF MessagingReconciled, inventory
<1>2. CASE live
  <2>1. cache' = Empty
    BY <1>2 DEF MessagingReconciled
  <2>2. CASE mgen = MaxEpoch
    BY <1>2, <2>1, <2>2, EmptiedView DEF MessagingReconciled, Closed
  <2>3. CASE mgen # MaxEpoch
    BY <1>2, <2>1, <2>3, BumpShows, EmptiedView DEF MessagingReconciled
  <2> QED BY <2>2, <2>3
<1> QED BY <1>1, <1>2

\* A deletion bumps the revision if the message was in the cache.
LEMMA SmsDeletedView == ASSUME Owned, SmsDeleted PROVE View
<1> DEFINE p == Head(bus).path
<1>1. CASE ~(live /\ messaging)
  BY <1>1, ViewKept DEF SmsDeleted, inventory
<1>2. CASE live /\ messaging
  <2>1. cache' = [cache EXCEPT ![p] = NoId] /\ (p \in Cached => Bump)
    BY <1>2 DEF SmsDeleted
  <2>2. cache \in [Path -> Id \cup {NoId}]
    BY DEF Owned, Core, CacheTyped
  <2> HIDE DEF p
  <2>3. CASE p \in Cached
    BY <2>1, <2>2, <2>3, BumpShows, ViewShrinks
  <2>4. CASE p \notin Cached
    <3>1. cache' = cache
      BY <2>1, <2>2, <2>4 DEF Cached
    <3> QED BY <3>1, ViewKept
  <2> QED BY <2>3, <2>4
<1> QED BY <1>1, <1>2

\* Every step of the bridge.
LEMMA NextView == ASSUME Owned, Next PROVE View
<1>1. ASSUME NEW p \in Path, MessageArrives(p) \/ MessageDeleted(p) \/ MessageCreated(p)
      PROVE  View
  BY <1>1, ViewKept DEF MessageArrives, MessageDeleted, MessageCreated, inventory
<1>2. ASSUME NEW present \in BOOLEAN, EpochChanges(present) PROVE View
  BY <1>2, ViewKept DEF EpochChanges, inventory
<1>3. CASE ListSteps
  <2>1. PICK c \in calls : \/ ListRead(c) \/ ListStale(c)
                           \/ \E kept \in SUBSET c.paths : ListReady(c, kept)
                           \/ \E reply \in BOOLEAN : ListFails(c, reply)
    BY <1>3 DEF ListSteps
  <2>2. CASE ListRead(c) \/ ListStale(c)
    BY <2>2, ViewKept DEF ListRead, ListStale, inventory
  <2>3. ASSUME NEW reply \in BOOLEAN, ListFails(c, reply) PROVE View
    BY <2>3, EmptiedView, BumpShows DEF ListFails
  <2> QED BY <2>1, <2>2, <2>3, ListReadyView
<1>4. CASE SendSteps
  BY <1>4, ViewKept, CreateReadyView DEF SendSteps, CreateFails, SendEnds
<1>5. CASE Deliver
  <2>1. CASE SmsAdded \/ ListReplied \/ CreateReplied
    BY <2>1, ViewKept DEF SmsAdded, ListReplied, CreateReplied, inventory
  <2> QED BY <1>5, <2>1, SmsDeletedView, ReconciledView DEF Deliver
<1>6. CASE Refresh \/ SmsPropertiesChanged
  BY <1>6, ViewKept DEF Refresh, SmsPropertiesChanged
<1>7. CASE ModemRemoved
  BY <1>7, EmptiedView DEF ModemRemoved, Closed
<1>8. ASSUME NEW i \in Id, SendSms(i) PROVE View
  BY <1>8, ViewKept DEF SendSms
<1> QED
  BY <1>1, <1>2, <1>3, <1>4, <1>5, <1>6, <1>7, <1>8 DEF Next

\* What is closed stays closed.
LEMMA StaysClosed == ASSUME Next, Closed PROVE Closed'
<1>1. CASE UNCHANGED modem
  BY <1>1 DEF Closed, modem
<1>2. CASE MessagingReconciled
  BY <1>2 DEF MessagingReconciled, modem, Closed
<1>3. CASE ModemRemoved
  BY <1>3 DEF ModemRemoved, Closed
<1>4. ASSUME ListSteps PROVE UNCHANGED modem
  BY <1>4 DEF ListSteps, ListRead, ListStale, ListReady, ListFails
<1>5. ASSUME SendSteps PROVE UNCHANGED modem
  BY <1>5 DEF SendSteps, CreateFails, CreateReady, SendEnds
<1>6. ASSUME Deliver, ~MessagingReconciled PROVE UNCHANGED modem
  BY <1>6 DEF Deliver, SmsAdded, SmsDeleted, ListReplied, CreateReplied
<1>7. ASSUME NEW p \in Path, MessageArrives(p) \/ MessageDeleted(p) \/ MessageCreated(p)
      PROVE  UNCHANGED modem
  BY <1>7 DEF MessageArrives, MessageDeleted, MessageCreated
<1>8. ASSUME NEW present \in BOOLEAN, EpochChanges(present) PROVE UNCHANGED modem
  BY <1>8 DEF EpochChanges
<1>9. ASSUME Refresh \/ SmsPropertiesChanged \/ (\E i \in Id : SendSms(i))
      PROVE  UNCHANGED modem
  BY <1>9 DEF Refresh, SmsPropertiesChanged, SendSms
<1> QED
  BY <1>1, <1>2, <1>3, <1>4, <1>5, <1>6, <1>7, <1>8, <1>9 DEF Next

(***************************************************************************)
(* The client's history.  An inventory that differs from the reply of the  *)
(* same revision is one that is closed.                                    *)
(***************************************************************************)
History ==
    /\ seen \in Seen
    /\ ~seen.changed => cache = seen.cache \/ Closed
    /\ seen.stays \subseteq Cached
    /\ \A p \in seen.stays : cache[p] = seen.cache[p]

\* The client knows nothing.
LEMMA InitHistory == ClientInit => History
<1> SUFFICES ASSUME ClientInit PROVE History
  OBVIOUS
<1>1. Empty \in [Path -> Id \cup {NoId}]
  BY DEF Empty
<1> QED BY <1>1 DEF ClientInit, NothingSeen, History, Seen

\* A reply.
LEMMA ListSmsHistory == ASSUME Owned, ListSms PROVE History'
<1>1. cache \in [Path -> Id \cup {NoId}] /\ Cached \in SUBSET Path
  BY DEF Owned, Core, CacheTyped, Cached
<1>2. cache' = cache
  BY DEF ListSms, vars
<1> QED BY <1>1, <1>2 DEF ListSms, History, Seen, Cached

\* A step of the bridge.
LEMMA ObservedHistory == ASSUME Owned, Owned', History, Next, Observed PROVE History'
<1> DEFINE changed == seen.changed \/ revision' # revision
           stays == (seen.stays \cap Cached') \ Admitted
           kept == IF changed THEN stays ELSE Path
           reply == [p \in Path |-> IF p \in kept THEN seen.cache[p] ELSE NoId]
<1>1. seen' = [cache |-> reply, changed |-> changed, stays |-> stays]
  BY DEF Observed
<1>2. /\ seen \in Seen /\ seen.cache \in [Path -> Id \cup {NoId}]
      /\ seen.stays \in SUBSET Path
  BY DEF History, Seen
<1>3. reply \in [Path -> Id \cup {NoId}] /\ stays \in SUBSET Path /\ changed \in BOOLEAN
  BY <1>2
<1>4. \A p \in kept : p \in Path => reply[p] = seen.cache[p]
  OBVIOUS
<1>5. ~changed => reply = seen.cache
  BY <1>2
<1>6. stays \subseteq Cached' /\ \A p \in stays : cache'[p] = seen.cache[p]
  BY NextView DEF View, History
<1>7. \A p \in stays : reply[p] = seen.cache[p]
  BY <1>3, <1>4
<1>8. ~changed => cache' = reply \/ Closed'
  BY <1>5, NextView, StaysClosed DEF View, History
<1> HIDE DEF changed, stays, reply
<1>9. seen' \in Seen
  BY <1>1, <1>3 DEF Seen
<1> QED BY <1>1, <1>6, <1>7, <1>8, <1>9 DEF History

\* A client does not change the inventory, so the invariant carries over.
LEMMA ClientHistory == ClientSpec => [](Owned /\ History)
<1>1. ClientInit => Owned /\ History
  BY InitOwned, InitHistory DEF ClientInit
<1>2. Owned /\ History /\ [ClientNext]_<<vars, seen>> => (Owned /\ History)'
  <2> SUFFICES ASSUME Owned, History, [ClientNext]_<<vars, seen>>
               PROVE  (Owned /\ History)'
    OBVIOUS
  <2>1. [Next]_vars
    BY DEF ClientNext, ListSms
  <2>2. Owned'
    BY <2>1, NextOwned
  <2>3. CASE UNCHANGED <<vars, seen>>
    BY <2>2, <2>3 DEF vars, History, Closed, Cached
  <2>4. CASE ListSms
    BY <2>2, <2>4, ListSmsHistory
  <2>5. CASE Next /\ Observed
    BY <2>2, <2>5, ObservedHistory
  <2> QED BY <2>3, <2>4, <2>5 DEF ClientNext
<1> QED BY <1>1, <1>2, PTL DEF ClientSpec

(***************************************************************************)
(* Replies of list_sms with the same revision show the same messages under *)
(* the same identities, however many steps lie between them.               *)
(***************************************************************************)
THEOREM SameRevisionSameInventory == ClientSpec => []RevisionTells
<1>1. History => RevisionTells
  BY DEF History, RevisionTells, Answered, Closed
<1> QED BY <1>1, ClientHistory, PTL

(***************************************************************************)
(* An identity a client was shown names that message and no other for as   *)
(* long as the message stays and no send takes it over.                    *)
(***************************************************************************)
THEOREM IdentitiesStay == ClientSpec => []IdentityStays
<1>1. Owned /\ History => IdentityStays
  <2> SUFFICES ASSUME Owned, History, NEW p \in seen.stays, NEW q \in Cached
               PROVE  cache[q] = seen.cache[p] <=> q = p
    BY DEF IdentityStays
  <2>1. p \in Cached /\ cache[p] = seen.cache[p]
    BY DEF History
  <2>2. q # p => cache[q] # cache[p]
    BY <2>1 DEF Owned, Core, IdsOwned
  <2> QED BY <2>1, <2>2
<1> QED BY <1>1, ClientHistory, PTL

(***************************************************************************)
(* What a reply of list_sms told a client holds later on, however many     *)
(* callbacks run in between.                                               *)
(***************************************************************************)
THEOREM RepliesHold == ClientSpec => []ReplyHolds
<1>1. RevisionTells /\ IdentityStays => ReplyHolds
  BY DEF ReplyHolds
<1> QED BY <1>1, SameRevisionSameInventory, IdentitiesStay, PTL

-----------------------------------------------------------------------------
(* The second layer: what is on the bus.                                   *)

\* The bus keeps what it has and may have more behind it.
Extends ==
    /\ Len(bus) \in Nat /\ Len(bus') \in Nat /\ Len(bus') >= Len(bus)
    /\ \A i \in 1..Len(bus) : bus'[i] = bus[i]

New == {i \in 1..Len(bus') : i > Len(bus)}

\* Signals and epochs that were ahead of the bridge still are.
SignalsKept ==
    /\ \A p : Signal("added", p) => Signal("added", p)'
    /\ \A p : Signal("deleted", p) => Signal("deleted", p)'
    /\ EpochAhead => EpochAhead'

\* A step that sends nothing.
LEMMA Unsent == ASSUME Owned, UNCHANGED bus PROVE Extends /\ New = {}
<1>1. Len(bus) \in Nat
  BY LenProperties DEF Owned, Wire, BusTyped
<1> QED BY <1>1 DEF Extends, New

\* A message goes behind the others.
LEMMA Sent ==
    ASSUME Owned, NEW m \in Message, Emit(m)
    PROVE  Extends /\ New = {Len(bus) + 1} /\ bus'[Len(bus) + 1] = m
<1>1. /\ Len(bus) \in Nat /\ Len(bus') = Len(bus) + 1
      /\ \A i \in 1..Len(bus) : bus'[i] = bus[i]
      /\ bus'[Len(bus) + 1] = m
  BY BusSent DEF Owned, Wire
<1> QED BY <1>1 DEF Extends, New

\* What is sent takes nothing away.
LEMMA ExtendsKeeps == ASSUME Extends PROVE SignalsKept
<1>1. \A i \in 1..Len(bus) : i \in 1..Len(bus') /\ bus'[i] = bus[i]
  BY DEF Extends
<1>2. \A t : OnBus(t) \subseteq OnBus(t)' /\ \A i \in OnBus(t) : bus'[i] = bus[i]
  BY <1>1 DEF OnBus
<1>3. \A t, p : Signal(t, p) => Signal(t, p)'
  BY <1>2 DEF Signal
<1>4. EpochAhead => EpochAhead'
  BY <1>2 DEF EpochAhead
<1> QED BY <1>3, <1>4 DEF SignalsKept

\* No new reply, and the calls that were under way.
LEMMA ExtendsFlight ==
    ASSUME Extends, \A i \in New : bus'[i].type # "listed", UNCHANGED mgen
    PROVE  /\ OutReplies' = OutReplies
           /\ \A i \in OutReplies : bus'[i] = bus[i]
<1>1. \A i \in 1..Len(bus') : i \in 1..Len(bus) \/ i \in New
  BY DEF Extends, New
<1>2. \A i \in 1..Len(bus) : i \in 1..Len(bus') /\ bus'[i] = bus[i]
  BY DEF Extends
<1> QED
  BY <1>1, <1>2 DEF OutReplies, OnBus

\* What the bridge handles is gone, the rest moves up.
LEMMA Handled ==
    ASSUME Owned, NEW type, Delivered(type)
    PROVE  /\ bus[1].type = type /\ Head(bus) = bus[1] /\ bus[1] \in Message /\ 1 \in OnBus(type)
           /\ \A t, i : i \in OnBus(t)' <=> i \in Nat /\ i > 0 /\ i + 1 \in OnBus(t)
           /\ \A t : \A i \in OnBus(t)' : bus'[i] = bus[i + 1]
           /\ \A t : \A i \in OnBus(t) : i \in Nat /\ i > 0
           /\ \A t : \A i \in OnBus(t) : i > 1 => i - 1 \in OnBus(t)' /\ bus'[i - 1] = bus[i]
           /\ \A t, p : Signal(t, p) => Signal(t, p)' \/ (t = type /\ bus[1].path = p)
           /\ EpochAhead => EpochAhead' \/ type = "epoch"
<1>1. /\ Len(bus) \in Nat /\ Len(bus) > 0 /\ Len(bus') = Len(bus) - 1
      /\ \A i \in 1..Len(bus') : bus'[i] = bus[i + 1]
      /\ Head(bus) = bus[1] /\ bus[1].type = type /\ bus[1] \in Message
  BY BusHandled DEF Owned, Wire
<1>2. \A t, i : i \in OnBus(t)' <=> i \in Nat /\ i > 0 /\ i + 1 \in OnBus(t)
  BY <1>1 DEF OnBus
<1>3. \A t : \A i \in OnBus(t)' : bus'[i] = bus[i + 1]
  BY <1>1 DEF OnBus
<1>4. \A t : \A i \in OnBus(t) : i \in Nat /\ i > 0 /\ bus[i].type = t
  BY <1>1 DEF OnBus
<1>5. \A t : \A i \in OnBus(t) : i > 1 => i - 1 \in OnBus(t)' /\ bus'[i - 1] = bus[i]
  BY <1>1 DEF OnBus
<1>6. \A t : \A i \in OnBus(t) : i = 1 \/ i > 1
  BY <1>4
<1>7. ASSUME NEW t, NEW p, Signal(t, p)
      PROVE  Signal(t, p)' \/ (t = type /\ bus[1].path = p)
  <2>1. PICK i \in OnBus(t) : bus[i].path = p
    BY <1>7 DEF Signal
  <2>2. CASE i = 1
    BY <1>1, <1>4, <2>1, <2>2
  <2>3. CASE i > 1
    <3>1. i - 1 \in OnBus(t)' /\ bus'[i - 1] = bus[i]
      BY <1>5, <2>3
    <3> QED BY <2>1, <3>1 DEF Signal
  <2> QED BY <1>6, <2>2, <2>3
<1>8. ASSUME EpochAhead PROVE EpochAhead' \/ type = "epoch"
  <2>1. PICK i \in OnBus("epoch") : TRUE
    BY <1>8 DEF EpochAhead
  <2>2. CASE i = 1
    BY <1>1, <1>4, <2>2
  <2>3. CASE i > 1
    BY <1>5, <2>3 DEF EpochAhead
  <2> QED BY <1>6, <2>2, <2>3
<1>9. 1 \in OnBus(type)
  BY <1>1 DEF OnBus
<1> QED BY <1>1, <1>2, <1>3, <1>4, <1>5, <1>7, <1>8, <1>9

\* The replies that stay on the bus were on it.
LEMMA HandledFlight ==
    ASSUME Owned, NEW type, Delivered(type), UNCHANGED mgen
    PROVE  \A i \in OutReplies' : i \in Nat /\ i + 1 \in OutReplies /\ bus'[i] = bus[i + 1]
<1>1. \A i \in OnBus("listed")' : i \in Nat /\ i + 1 \in OnBus("listed") /\ bus'[i] = bus[i + 1]
  BY Handled
<1> QED BY <1>1 DEF OutReplies

-----------------------------------------------------------------------------
(* The second layer: one list call at a time.                              *)

\* A single reply on the bus stays single.
LEMMA HandledFewer ==
    ASSUME Owned, NEW type, Delivered(type), UNCHANGED mgen, \A i, j \in OutReplies : i = j
    PROVE  /\ \A i, j \in OutReplies' : i = j
           /\ \A i \in OutReplies' : \E j \in OutReplies : bus'[i].paths = bus[j].paths
           /\ OutReplies = {} => OutReplies' = {}
<1>1. \A i \in OutReplies' : i \in Nat /\ i + 1 \in OutReplies /\ bus'[i] = bus[i + 1]
  BY HandledFlight
<1>2. ASSUME NEW i \in OutReplies', NEW j \in OutReplies' PROVE i = j
  <2>1. i \in Nat /\ j \in Nat /\ i + 1 = j + 1
    BY <1>1, <1>2
  <2> QED BY <2>1
<1> QED BY <1>1, <1>2

\* Nothing on the bus or among the calls is of concern.
LEMMA FlightKept ==
    ASSUME Extends, \A i \in New : bus'[i].type # "listed",
           UNCHANGED <<mgen, calls, pending>>, live' /\ messaging' => live /\ messaging,
           SingleFlight
    PROVE  SingleFlight' /\ \A S \in Listed' : S \in Listed
<1>1. /\ OutReplies' = OutReplies
      /\ \A i \in OutReplies : bus'[i] = bus[i]
  BY ExtendsFlight
<1>2. OutCalls' = OutCalls
  BY DEF OutCalls
<1>3. SingleFlight'
  BY <1>1, <1>2 DEF SingleFlight
<1>4. Listed' = Listed
  BY <1>1, <1>2 DEF Listed
<1> QED BY <1>3, <1>4

\* query_sms, on the calls there are: a query while one is pending makes it
\* dirty, and any other finds nothing under way.
LEMMA QueryKept ==
    ASSUME Owned, SingleFlight, live, messaging, UNCHANGED mgen,
           QuerySms(pending, dirty, calls, state),
           \A i, j \in OutReplies' : i = j,
           \A i \in OutReplies' : \E j \in OutReplies : bus'[i].paths = bus[j].paths,
           OutReplies = {} => OutReplies' = {}
    PROVE  /\ SingleFlight' /\ pending'
           /\ \A S \in Listed' : S \in Listed
           /\ dirty' \/ Listed' = {}
<1>1. CASE pending
  <2>1. pending' /\ dirty' /\ calls' = calls
    BY <1>1 DEF QuerySms
  <2>2. OutCalls' = OutCalls
    BY <2>1 DEF OutCalls
  <2>3. SingleFlight'
    BY <2>1, <2>2 DEF SingleFlight
  <2>4. \A S \in Listed' : S \in Listed
    BY <2>2 DEF Listed
  <2> QED BY <2>1, <2>3, <2>4
<1>2. CASE ~pending
  <2>1. pending' /\ calls' = calls \cup {NewCall} /\ OutCalls = {} /\ OutReplies' = {}
    BY <1>2 DEF QuerySms, SingleFlight
  <2>2. OutCalls' = {NewCall} /\ ~NewCall.read
    BY <2>1 DEF OutCalls, NewCall
  <2>3. Listed' = {}
    BY <2>1, <2>2 DEF Listed
  <2>4. SingleFlight'
    BY <2>1, <2>2 DEF SingleFlight
  <2> QED BY <2>1, <2>3, <2>4
<1> QED BY <1>1, <1>2

\* The same where the bus is left alone.
LEMMA RefreshKept ==
    ASSUME Owned, SingleFlight, live, messaging, UNCHANGED <<mgen, bus>>,
           QuerySms(pending, dirty, calls, state)
    PROVE  /\ SingleFlight' /\ pending'
           /\ \A S \in Listed' : S \in Listed
           /\ dirty' \/ Listed' = {}
<1>1. OutReplies' = OutReplies /\ \A i, j \in OutReplies : i = j
  BY DEF OutReplies, OnBus, SingleFlight
<1>2. \A i \in OutReplies' : \E j \in OutReplies : bus'[i].paths = bus[j].paths
  BY <1>1
<1> QED BY <1>1, <1>2, QueryKept

\* The completion of the call of this epoch: nothing else is under way.
LEMMA CompletionKept ==
    ASSUME Owned, SingleFlight, NEW c, ListCurrent(c), UNCHANGED <<mgen, bus>>,
           NEW now, Requery(calls \ {c}, now)
    PROVE  /\ SingleFlight' /\ Listed' = {} /\ (dirty => pending')
           /\ ~dirty => ~pending' /\ state' = now
<1>1. c \in OutCalls /\ OutReplies' = OutReplies /\ live /\ messaging
  BY DEF ListCurrent, OutCalls, OutReplies, OnBus
<1>2. OutReplies' = {} /\ \A d \in OutCalls : d = c
  BY <1>1 DEF SingleFlight
<1>3. CASE dirty
  <2>1. pending' /\ calls' = (calls \ {c}) \cup {NewCall}
    BY <1>3 DEF Requery, QuerySms
  <2>2. OutCalls' = {NewCall} /\ ~NewCall.read
    BY <1>2, <2>1 DEF OutCalls, NewCall
  <2>3. Listed' = {} /\ SingleFlight'
    BY <1>2, <2>1, <2>2 DEF Listed, SingleFlight
  <2> QED BY <1>3, <2>1, <2>3
<1>4. CASE ~dirty
  <2>1. ~pending' /\ calls' = calls \ {c} /\ state' = now
    BY <1>4 DEF Requery
  <2>2. OutCalls' = {}
    BY <1>2, <2>1 DEF OutCalls
  <2>3. Listed' = {} /\ SingleFlight'
    BY <1>2, <2>1, <2>2 DEF Listed, SingleFlight
  <2> QED BY <1>4, <2>1, <2>3
<1> QED BY <1>3, <1>4

\* ModemManager reads its store for a call.
LEMMA ListReadKept ==
    ASSUME Owned, SingleFlight, NEW c, ListRead(c)
    PROVE  SingleFlight' /\ \A S \in Listed' : S \in Listed \/ S = store'
<1> DEFINE m == [type |-> "listed", gen |-> c.gen, paths |-> store]
           k == Len(bus) + 1
<1>1. /\ c \in calls /\ c \in Call /\ store \subseteq Path /\ calls' = calls \ {c}
      /\ Emit(m) /\ UNCHANGED <<live, messaging, mgen, pending, store>>
  BY DEF ListRead, Owned, Flight, FlightTyped, ManagerTyped, modem, manager
<1>2. m \in Message /\ m.type = "listed" /\ m.gen = c.gen /\ m.paths = store
  BY <1>1, CallFields, Messages
<1> HIDE DEF m
<1>3. Extends /\ New = {k} /\ bus'[k] = m
  BY <1>1, <1>2, Sent
<1>4. \A i \in 1..Len(bus') : i \in 1..Len(bus) \/ i = k
  BY <1>3 DEF Extends, New
<1>5. \A i \in 1..Len(bus) : i \in 1..Len(bus') /\ bus'[i] = bus[i]
  BY <1>3 DEF Extends
<1>6. k \in 1..Len(bus')
  BY <1>3 DEF New
<1> HIDE DEF k
<1>7. CASE c.gen = mgen
  <2>1. c \in OutCalls
    BY <1>1, <1>7 DEF OutCalls
  <2>2. live /\ messaging => OutReplies = {} /\ (\A d \in OutCalls : d = c) /\ pending
    BY <2>1 DEF SingleFlight
  <2>3. OutCalls' = OutCalls \ {c}
    BY <1>1 DEF OutCalls
  <2>4. \A i \in OutReplies' : i \in OutReplies \/ i = k
    BY <1>1, <1>4, <1>5 DEF OutReplies, OnBus
  <2>5. SingleFlight'
    BY <1>1, <2>2, <2>3, <2>4 DEF SingleFlight
  <2>6. \A i \in OutReplies : bus'[i] = bus[i]
    BY <1>5 DEF OutReplies, OnBus
  <2>7. \A S \in Listed' : S \in Listed \/ S = store'
    BY <1>1, <1>2, <1>3, <2>3, <2>4, <2>6 DEF Listed
  <2> QED BY <2>5, <2>7
<1>8. CASE c.gen # mgen
  <2>1. OutCalls' = OutCalls
    BY <1>1, <1>8 DEF OutCalls
  <2>2. OutReplies' = OutReplies
    BY <1>1, <1>2, <1>3, <1>4, <1>5, <1>6, <1>8 DEF OutReplies, OnBus
  <2>3. \A i \in OutReplies : bus'[i] = bus[i]
    BY <1>5 DEF OutReplies, OnBus
  <2>4. SingleFlight'
    BY <1>1, <2>1, <2>2 DEF SingleFlight
  <2>5. Listed' = Listed
    BY <2>1, <2>2, <2>3 DEF Listed
  <2> QED BY <2>4, <2>5
<1> QED BY <1>7, <1>8

\* A call of an old epoch ends.
LEMMA ListStaleKept ==
    ASSUME Owned, SingleFlight, NEW c, ListStale(c)
    PROVE  SingleFlight' /\ \A S \in Listed' : S \in Listed
<1>1. /\ calls' \subseteq calls /\ UNCHANGED <<live, messaging, mgen, pending, bus>>
  BY DEF ListStale, modem
<1>2. OutCalls' \subseteq OutCalls /\ OutReplies' = OutReplies
  BY <1>1 DEF OutCalls, OutReplies, OnBus
<1> QED BY <1>1, <1>2 DEF SingleFlight, Listed

\* A reply becomes a call that is read.
LEMMA ListRepliedKept ==
    ASSUME Owned, SingleFlight, ListReplied, live, messaging
    PROVE  SingleFlight' /\ \A S \in Listed' : S \in Listed
<1> DEFINE c == [gen |-> bus[1].gen, read |-> TRUE, paths |-> bus[1].paths]
<1>1. Delivered("listed") /\ UNCHANGED <<live, messaging, mgen, pending>>
  BY DEF ListReplied, modem
<1>2. Head(bus) = bus[1] /\ 1 \in OnBus("listed")
  BY <1>1, Handled
<1>3. calls' = calls \cup {c}
  BY <1>2 DEF ListReplied
<1>4. c.gen = bus[1].gen /\ c.paths = bus[1].paths
  OBVIOUS
<1> HIDE DEF c
<1>5. /\ \A i, j \in OutReplies' : i = j
      /\ \A i \in OutReplies' : i \in Nat /\ i + 1 \in OutReplies /\ bus'[i] = bus[i + 1]
      /\ OutReplies = {} => OutReplies' = {}
  BY <1>1, HandledFewer, HandledFlight DEF SingleFlight
<1>6. CASE bus[1].gen = mgen
  <2>1. 1 \in OutReplies
    BY <1>2, <1>6 DEF OutReplies
  <2>2. OutCalls = {} /\ pending /\ \A i \in OutReplies : i = 1
    BY <2>1 DEF SingleFlight
  <2>3. OutReplies' = {}
    <3> SUFFICES ASSUME NEW i \in OutReplies' PROVE FALSE
      OBVIOUS
    <3>1. i \in Nat /\ i + 1 = 1
      BY <1>5, <2>2
    <3>2. i \in OnBus("listed")'
      BY DEF OutReplies
    <3>3. i > 0
      BY <1>1, <3>2, Handled
    <3> QED BY <3>1, <3>3
  <2>4. OutCalls' \subseteq {c}
    BY <1>1, <1>3, <2>2 DEF OutCalls
  <2>5. SingleFlight'
    BY <1>1, <2>2, <2>3, <2>4 DEF SingleFlight
  <2>6. \A S \in Listed' : S = bus[1].paths
    BY <1>4, <2>3, <2>4 DEF Listed
  <2>7. bus[1].paths \in Listed
    BY <2>1 DEF Listed
  <2> QED BY <2>5, <2>6, <2>7
<1>7. CASE bus[1].gen # mgen
  <2>1. OutCalls' = OutCalls
    BY <1>1, <1>3, <1>4, <1>7 DEF OutCalls
  <2>2. SingleFlight'
    BY <1>1, <1>5, <2>1 DEF SingleFlight
  <2>3. \A S \in Listed' : S \in Listed
    BY <1>5, <2>1 DEF Listed
  <2> QED BY <2>2, <2>3
<1> QED BY <1>6, <1>7

\* The reply of Create() is not one of List().
LEMMA CreateRepliedKept ==
    ASSUME Owned, SingleFlight, CreateReplied, live, messaging
    PROVE  SingleFlight' /\ \A S \in Listed' : S \in Listed
<1>1. Delivered("created") /\ UNCHANGED <<live, messaging, mgen, pending, calls>>
  BY DEF CreateReplied, modem, flight
<1>2. /\ \A i, j \in OutReplies' : i = j
      /\ \A i \in OutReplies' : \E j \in OutReplies : bus'[i].paths = bus[j].paths
      /\ OutReplies = {} => OutReplies' = {}
  BY <1>1, HandledFewer DEF SingleFlight
<1>3. OutCalls' = OutCalls
  BY <1>1 DEF OutCalls
<1> QED BY <1>1, <1>2, <1>3 DEF SingleFlight, Listed

\* A new epoch has one call, which is not read.
LEMMA ReconciledKept ==
    ASSUME Owned, MessagingReconciled, live, messaging'
    PROVE  SingleFlight' /\ Listed' = {}
<1> DEFINE c == [NewCall EXCEPT !.gen = mgen']
<1>1. /\ Delivered("epoch") /\ pending' = messaging' /\ calls' = calls \cup {c}
      /\ mgen' = IF mgen = MaxEpoch THEN mgen ELSE mgen + 1
      /\ messaging' = (Head(bus).present /\ mgen # MaxEpoch)
  BY DEF MessagingReconciled
<1>2. mgen' = mgen + 1 /\ mgen \in Nat /\ pending'
  <2>1. pending' /\ mgen # MaxEpoch
    BY <1>1
  <2>2. mgen \in Nat
    BY ConstantsAssumption DEF Owned, Core, ModemTyped
  <2>3. mgen' = mgen + 1
    BY <1>1, <2>1
  <2> QED BY <2>1, <2>2, <2>3
<1>3. ~c.read
  BY DEF NewCall
<1> HIDE DEF c
<1>4. \A d \in calls : d.gen # mgen'
  <2>1. \A d \in calls : d.gen \in Nat /\ d.gen <= mgen
    BY CallFields DEF Owned, Flight, FlightTyped
  <2> QED BY <1>2, <2>1
<1>5. OutCalls' \subseteq {c}
  BY <1>1, <1>4 DEF OutCalls
<1>6. OutReplies' = {}
  <2>1. \A i \in OnBus("listed")' : i + 1 \in OnBus("listed") /\ bus'[i] = bus[i + 1]
    BY <1>1, Handled
  <2>2. ASSUME NEW i \in OnBus("listed") PROVE bus[i].gen # mgen'
    <3>1. bus[i] \in Message /\ bus[i].type = "listed" /\ bus[i].gen <= mgen
      BY ElementOfSeq DEF Owned, Wire, BusTyped, OnBus
    <3>2. bus[i].gen \in 0..MaxEpoch
      BY <3>1, MessageFields
    <3> QED BY <1>2, <3>1, <3>2, ConstantsAssumption
  <2> QED BY <2>1, <2>2 DEF OutReplies
<1>7. SingleFlight'
  BY <1>2, <1>5, <1>6 DEF SingleFlight
<1>8. Listed' = {}
  BY <1>3, <1>5, <1>6 DEF Listed
<1> QED BY <1>7, <1>8

-----------------------------------------------------------------------------
(* The second layer: births and deaths of paths.                           *)

\* ModemManager changes its store and says so behind what it said before.
LEMMA BirthsGrow ==
    ASSUME Births, Extends, tombs' \subseteq tombs, unborn' \subseteq unborn,
           store' \cap unborn' = {}, store' \cup unborn' \subseteq store \cup unborn,
           \A i \in New :
             /\ bus'[i].type = "deleted" => bus'[i].path \notin store' \cup unborn'
             /\ bus'[i].type = "added" => bus'[i].path \in store',
           \A p \in store \ store' :
             \E j \in New : \/ bus'[j].type = "deleted" /\ bus'[j].path = p
                            \/ bus'[j].type = "epoch"
    PROVE  Births'
<1>1. \A i \in 1..Len(bus') : i \in 1..Len(bus) \/ i \in New
  BY DEF Extends, New
<1>2. \A i \in 1..Len(bus) : i \in 1..Len(bus') /\ bus'[i] = bus[i]
  BY DEF Extends
<1>3. \A j \in New : j \in 1..Len(bus') /\ \A i \in 1..Len(bus) : i < j
  BY DEF Extends, New
<1>4. \A t : \A i \in OnBus(t) : i \in 1..Len(bus) /\ i \in OnBus(t)' /\ bus'[i] = bus[i]
  BY <1>2 DEF OnBus
<1>5. \A t : \A i \in OnBus(t)' : i \in OnBus(t) \/ (i \in New /\ bus'[i].type = t)
  BY <1>1, <1>2 DEF OnBus
<1>6. \A i \in OnBus("deleted")' : bus'[i].path \notin store' \cup unborn'
  BY <1>4, <1>5 DEF Births
<1>7. ASSUME NEW i \in OnBus("added")'
      PROVE  /\ bus'[i].path \notin unborn'
             /\ \/ bus'[i].path \in store'
                \/ \E j \in OnBus("deleted")' : i < j /\ bus'[j].path = bus'[i].path
                \/ \E j \in OnBus("epoch")' : i < j
  <2>1. CASE i \in New
    BY <1>5, <2>1 DEF OnBus
  <2>2. CASE i \in OnBus("added")
    <3>1. bus'[i] = bus[i] /\ bus[i].path \notin unborn' /\ i \in 1..Len(bus)
      BY <1>4, <2>2 DEF Births
    <3>2. CASE bus[i].path \in store \ store'
      <4>1. PICK j \in New : \/ bus'[j].type = "deleted" /\ bus'[j].path = bus[i].path
                             \/ bus'[j].type = "epoch"
        BY <3>2
      <4>2. i < j /\ j \in 1..Len(bus')
        BY <1>3, <3>1
      <4> QED BY <3>1, <4>1, <4>2 DEF OnBus
    <3>3. CASE bus[i].path \in store'
      BY <3>1, <3>3
    <3>4. CASE bus[i].path \notin store
      BY <1>4, <2>2, <3>1, <3>4 DEF Births
    <3> QED BY <3>2, <3>3, <3>4
  <2> QED BY <1>5, <2>1, <2>2
<1>8. \A p \in tombs' : p \notin store' \cup unborn'
  BY DEF Births
<1> QED
  BY <1>6, <1>7, <1>8 DEF Births

\* The bridge handles a message; a Deleted signal may become a tombstone.
LEMMA BirthsHandled ==
    ASSUME Owned, Births, NEW type, Delivered(type), UNCHANGED <<store, unborn>>,
           \A p \in tombs' : p \in tombs \/ (type = "deleted" /\ p = Head(bus).path)
    PROVE  Births'
<1>1. /\ Head(bus) = bus[1] /\ 1 \in OnBus(type)
      /\ \A t : \A i \in OnBus(t)' :
           i \in Nat /\ i > 0 /\ i + 1 \in OnBus(t) /\ bus'[i] = bus[i + 1]
      /\ \A t : \A i \in OnBus(t) : i \in Nat
      /\ \A t : \A i \in OnBus(t) : i > 1 => i - 1 \in OnBus(t)' /\ bus'[i - 1] = bus[i]
  BY Handled
<1>2. \A p \in tombs' : p \notin store' \cup unborn'
  BY <1>1 DEF Births
<1>3. \A i \in OnBus("deleted")' : bus'[i].path \notin store' \cup unborn'
  BY <1>1 DEF Births
<1>4. ASSUME NEW i \in OnBus("added")'
      PROVE  /\ bus'[i].path \notin unborn'
             /\ \/ bus'[i].path \in store'
                \/ \E j \in OnBus("deleted")' : i < j /\ bus'[j].path = bus'[i].path
                \/ \E j \in OnBus("epoch")' : i < j
  <2>1. i \in Nat /\ i > 0 /\ i + 1 \in OnBus("added") /\ bus'[i] = bus[i + 1]
    BY <1>1
  <2>2. bus[i + 1].path \notin unborn
    BY <2>1 DEF Births
  <2>3. CASE bus[i + 1].path \in store
    BY <2>1, <2>2, <2>3
  <2>4. ASSUME NEW j \in OnBus("deleted"), i + 1 < j, bus[j].path = bus[i + 1].path
        PROVE  \E k \in OnBus("deleted")' : i < k /\ bus'[k].path = bus'[i].path
    <3>1. j \in Nat /\ j > 1 /\ i < j - 1
      BY <1>1, <2>1, <2>4
    <3>2. j - 1 \in OnBus("deleted")' /\ bus'[j - 1] = bus[j]
      BY <1>1, <3>1
    <3> QED BY <2>1, <2>4, <3>1, <3>2
  <2>5. ASSUME NEW j \in OnBus("epoch"), i + 1 < j
        PROVE  \E k \in OnBus("epoch")' : i < k
    <3>1. j \in Nat /\ j > 1 /\ i < j - 1
      BY <1>1, <2>1, <2>5
    <3>2. j - 1 \in OnBus("epoch")'
      BY <1>1, <3>1
    <3> QED BY <3>1, <3>2
  <2>6. \/ bus[i + 1].path \in store
        \/ \E j \in OnBus("deleted") : i + 1 < j /\ bus[j].path = bus[i + 1].path
        \/ \E j \in OnBus("epoch") : i + 1 < j
    BY <2>1 DEF Births
  <2> QED BY <2>1, <2>2, <2>3, <2>4, <2>5, <2>6
<1> QED
  BY <1>2, <1>3, <1>4 DEF Births

\* Nothing changes but that tombstones may be dropped.
LEMMA BirthsKept ==
    ASSUME Owned, Births, tombs' \subseteq tombs, UNCHANGED <<store, unborn, bus>>
    PROVE  Births'
BY Unsent, BirthsGrow DEF Births

-----------------------------------------------------------------------------
(* The second layer as a whole.                                            *)

Second == SingleFlight /\ Births /\ Settled /\ Current /\ Complete /\ NoGhost

(***************************************************************************)
(* A step in which the bridge learns nothing: what changes in the store is *)
(* announced behind the rest, a list is read from the store as it is, and  *)
(* only a message that a send created enters the cache.                    *)
(***************************************************************************)
LEMMA Steady ==
    ASSUME Second, SingleFlight', Births', SignalsKept,
           \A S \in Listed' : S \in Listed \/ S = store',
           live' /\ messaging' => live /\ messaging,
           \A p \in store' \ store : Signal("added", p)',
           \A p \in store \ store' : Signal("deleted", p)' \/ EpochAhead',
           UNCHANGED tombs, Cached \subseteq Cached',
           \A p \in Cached' : p \in Cached \/ p \in created',
           created \subseteq created', truncated => truncated',
           ~pending' /\ Served' => ~pending /\ Served,
           dirty => dirty' \/ Listed' = {}
    PROVE  Second'
<1>1. Settled'
  BY DEF Second, Settled, SignalsKept
<1>2. Current'
  BY DEF Second, Current, SignalsKept, Births
<1>3. Complete'
  BY DEF Second, Complete, SignalsKept
<1>4. NoGhost'
  <2> SUFFICES ASSUME Cardinality(Path) <= Limit,
                      NEW p \in Cached' \ (store' \cup created')
               PROVE  EpochAhead' \/ Signal("deleted", p)'
    BY DEF NoGhost, EpochAhead, Signal
  <2>1. p \in Cached \ created
    OBVIOUS
  <2>2. CASE p \in store
    BY <2>2
  <2>3. CASE p \notin store
    <3>1. EpochAhead \/ Signal("deleted", p)
      BY <2>1, <2>3 DEF Second, NoGhost, EpochAhead, Signal
    <3> QED BY <3>1 DEF SignalsKept
  <2> QED BY <2>2, <2>3
<1> QED BY <1>1, <1>2, <1>3, <1>4 DEF Second

\* Without a modem or without messaging nothing is promised.
LEMMA Silent ==
    ASSUME Births', Cached' = {}, ~(live' /\ messaging')
    PROVE  Second'
BY DEF Second, SingleFlight, Settled, Current, Complete, NoGhost


\* What ModemManager does leaves the bridge alone.
LEMMA Apart ==
    ASSUME UNCHANGED <<modem, inventory, pending, dirty>>
    PROVE  /\ UNCHANGED <<live, messaging, mgen, tombs, created, truncated, pending, dirty>>
           /\ Cached' = Cached /\ (Served' <=> Served)
BY DEF modem, inventory, Cached, Served

\* A new message is announced behind every list that misses it.
LEMMA ArrivesSecond == ASSUME Owned, Second, NEW p \in Path, MessageArrives(p) PROVE Second'
<1> DEFINE m == [type |-> "added", path |-> p]
<1>1. m \in Message /\ m.type = "added" /\ m.path = p
  BY Messages
<1>2. /\ Emit(m) /\ p \in unborn /\ store' = store \cup {p} /\ unborn' = unborn \ {p}
      /\ UNCHANGED calls
      /\ UNCHANGED <<live, messaging, mgen, tombs, created, truncated, pending, dirty>>
      /\ Cached' = Cached /\ (Served' <=> Served)
  BY Apart DEF MessageArrives, flight
<1> HIDE DEF m
<1>3. Extends /\ New = {Len(bus) + 1} /\ bus'[Len(bus) + 1] = m
  BY <1>1, <1>2, Sent
<1>4. SingleFlight' /\ \A S \in Listed' : S \in Listed
  BY <1>1, <1>2, <1>3, FlightKept DEF Second
<1>5. Births'
  <2>1. store \cap unborn = {}
    BY DEF Second, Births
  <2> QED BY <1>1, <1>2, <1>3, <2>1, BirthsGrow DEF Second
<1>6. Signal("added", p)'
  BY <1>1, <1>3 DEF Signal, OnBus, New
<1>7. SignalsKept
  BY <1>3, ExtendsKeeps
<1> QED BY <1>2, <1>4, <1>5, <1>6, <1>7, Steady

\* A deletion is announced behind every list that has the message.
LEMMA DeletedSecond == ASSUME Owned, Second, NEW p \in Path, MessageDeleted(p) PROVE Second'
<1> DEFINE m == [type |-> "deleted", path |-> p]
<1>1. m \in Message /\ m.type = "deleted" /\ m.path = p
  BY Messages
<1>2. /\ Emit(m) /\ p \in store /\ store' = store \ {p} /\ UNCHANGED <<unborn, calls>>
      /\ UNCHANGED <<live, messaging, mgen, tombs, created, truncated, pending, dirty>>
      /\ Cached' = Cached /\ (Served' <=> Served)
  BY Apart DEF MessageDeleted, flight
<1> HIDE DEF m
<1>3. Extends /\ New = {Len(bus) + 1} /\ bus'[Len(bus) + 1] = m
  BY <1>1, <1>2, Sent
<1>4. SingleFlight' /\ \A S \in Listed' : S \in Listed
  BY <1>1, <1>2, <1>3, FlightKept DEF Second
<1>5. Births'
  <2>1. store \cap unborn = {}
    BY DEF Second, Births
  <2> QED BY <1>1, <1>2, <1>3, <2>1, BirthsGrow DEF Second
<1>6. Signal("deleted", p)'
  BY <1>1, <1>3 DEF Signal, OnBus, New
<1>7. SignalsKept
  BY <1>3, ExtendsKeeps
<1> QED BY <1>2, <1>4, <1>5, <1>6, <1>7, Steady

\* With an epoch ahead nothing is promised of the old one.
LEMMA EpochSecond ==
    ASSUME Owned, Second, NEW present \in BOOLEAN, EpochChanges(present) PROVE Second'
<1> DEFINE m == [type |-> "epoch", present |-> present]
<1>1. m \in Message /\ m.type = "epoch"
  BY Messages
<1>2. /\ Emit(m) /\ store' = {} /\ UNCHANGED <<unborn, calls>>
      /\ UNCHANGED <<live, messaging, mgen, tombs, created, truncated, pending, dirty>>
      /\ Cached' = Cached /\ (Served' <=> Served)
  BY Apart DEF EpochChanges, flight
<1> HIDE DEF m
<1>3. Extends /\ New = {Len(bus) + 1} /\ bus'[Len(bus) + 1] = m
  BY <1>1, <1>2, Sent
<1>4. SingleFlight' /\ \A S \in Listed' : S \in Listed
  BY <1>1, <1>2, <1>3, FlightKept DEF Second
<1>5. Births'
  BY <1>1, <1>2, <1>3, BirthsGrow DEF Second
<1>6. EpochAhead'
  BY <1>1, <1>3 DEF EpochAhead, OnBus, New
<1>7. SignalsKept
  BY <1>3, ExtendsKeeps
<1> QED BY <1>2, <1>4, <1>5, <1>6, <1>7, Steady

\* The message of a send is announced like any other.
LEMMA CreatedSecond == ASSUME Owned, Second, NEW p \in Path, MessageCreated(p) PROVE Second'
<1> DEFINE a == [type |-> "added", path |-> p]
           b == [type |-> "created", path |-> p]
<1>1. /\ a \in Message /\ a.type = "added" /\ a.path = p
      /\ b \in Message /\ b.type = "created"
  BY Messages
<1>2. /\ bus' = bus \o <<a, b>> /\ Len(bus) + 1 < MaxBus
      /\ p \in unborn /\ store' = store \cup {p} /\ unborn' = unborn \ {p} /\ UNCHANGED calls
      /\ UNCHANGED <<live, messaging, mgen, tombs, created, truncated, pending, dirty>>
      /\ Cached' = Cached /\ (Served' <=> Served)
  BY Apart DEF MessageCreated, flight
<1> HIDE DEF a, b
<1>3. /\ Extends /\ New = {Len(bus) + 1, Len(bus) + 2}
      /\ bus'[Len(bus) + 1] = a /\ bus'[Len(bus) + 2] = b
  <2>1. /\ Len(bus) \in Nat /\ Len(bus') = Len(bus) + 2
        /\ \A i \in 1..Len(bus) : bus'[i] = bus[i]
        /\ bus'[Len(bus) + 1] = a /\ bus'[Len(bus) + 2] = b
    BY <1>1, <1>2, BusSentTwo DEF Owned, Wire
  <2> QED BY <2>1 DEF Extends, New
<1>4. SingleFlight' /\ \A S \in Listed' : S \in Listed
  BY <1>1, <1>2, <1>3, FlightKept DEF Second
<1>5. Births'
  <2>1. store \cap unborn = {}
    BY DEF Second, Births
  <2> QED BY <1>1, <1>2, <1>3, <2>1, BirthsGrow DEF Second
<1>6. Signal("added", p)'
  BY <1>1, <1>3 DEF Signal, OnBus, New
<1>7. SignalsKept
  BY <1>3, ExtendsKeeps
<1> QED BY <1>2, <1>4, <1>5, <1>6, <1>7, Steady

\* A list just read is the store, and no tombstone is in it.
LEMMA ListReadSecond == ASSUME Owned, Second, NEW c, ListRead(c) PROVE Second'
<1> DEFINE m == [type |-> "listed", gen |-> c.gen, paths |-> store]
<1>1. m \in Message /\ m.type = "listed"
  <2>1. c \in Call /\ store \subseteq Path
    BY DEF ListRead, Owned, Flight, FlightTyped, ManagerTyped
  <2> QED BY <2>1, CallFields, Messages
<1>2. /\ Emit(m) /\ UNCHANGED <<store, unborn>>
      /\ UNCHANGED <<live, messaging, mgen, tombs, created, truncated, pending, dirty>>
      /\ Cached' = Cached /\ (Served' <=> Served)
  BY Apart DEF ListRead, manager
<1> HIDE DEF m
<1>3. Extends /\ New = {Len(bus) + 1} /\ bus'[Len(bus) + 1] = m
  BY <1>1, <1>2, Sent
<1>4. SingleFlight' /\ \A S \in Listed' : S \in Listed \/ S = store'
  BY ListReadKept DEF Second
<1>5. Births'
  <2>1. store \cap unborn = {}
    BY DEF Second, Births
  <2> QED BY <1>1, <1>2, <1>3, <2>1, BirthsGrow DEF Second
<1>7. SignalsKept
  BY <1>3, ExtendsKeeps
<1> QED BY <1>2, <1>4, <1>5, <1>7, Steady

\* Steps of the bridge that neither handle a message nor list anything.
LEMMA Idles ==
    ASSUME Owned, Second, UNCHANGED <<bus, modem, manager, tombs>>,
           SingleFlight', \A S \in Listed' : S \in Listed,
           Cached \subseteq Cached', \A p \in Cached' : p \in Cached \/ p \in created',
           created \subseteq created', truncated => truncated',
           ~pending' /\ Served' => ~pending /\ Served,
           dirty => dirty' \/ Listed' = {}
    PROVE  Second'
<1>1. UNCHANGED <<store, unborn, live, messaging>> /\ tombs' \subseteq tombs
  BY DEF modem, manager
<1>2. SignalsKept
  BY Unsent, ExtendsKeeps
<1>3. Births'
  BY <1>1, BirthsKept DEF Second
<1> QED BY <1>1, <1>2, <1>3, Steady

\* The same where the calls are left alone too.
LEMMA IdlesKept ==
    ASSUME Owned, SingleFlight, UNCHANGED <<bus, modem, flight>>
    PROVE  SingleFlight' /\ \A S \in Listed' : S \in Listed
<1>1. Extends /\ New = {}
  BY Unsent
<1> QED BY <1>1, FlightKept DEF modem, flight

\* A call of an old epoch says nothing of this one.
LEMMA ListStaleSecond == ASSUME Owned, Second, NEW c, ListStale(c) PROVE Second'
<1>1. SingleFlight' /\ \A S \in Listed' : S \in Listed
  BY ListStaleKept DEF Second
<1>2. /\ UNCHANGED <<tombs, created, truncated, pending, dirty>>
      /\ Cached' = Cached /\ (Served' <=> Served)
  BY Apart DEF ListStale
<1> QED BY <1>1, <1>2, Idles DEF ListStale

\* A query on its own: the timer, or a send that succeeded.
LEMMA QuerySecond ==
    ASSUME Owned, Second, live, messaging, QuerySms(pending, dirty, calls, state),
           UNCHANGED <<bus, modem, manager, tombs, cache, created, truncated>>
    PROVE  Second'
<1>1. /\ SingleFlight' /\ pending' /\ \A S \in Listed' : S \in Listed
      /\ dirty' \/ Listed' = {}
  BY RefreshKept DEF Second, modem
<1>2. Cached' = Cached
  BY DEF Cached
<1> QED BY <1>1, <1>2, Idles

\* Steps that touch neither the flight nor the cache.
LEMMA FrameSecond ==
    ASSUME Owned, Second,
           UNCHANGED <<bus, modem, manager, flight, tombs, cache, created, truncated, state>>
    PROVE  Second'
<1>1. SingleFlight' /\ \A S \in Listed' : S \in Listed
  BY IdlesKept DEF Second
<1>2. Cached' = Cached /\ (Served' <=> Served)
  BY DEF Cached, Served
<1>3. UNCHANGED <<pending, dirty>>
  BY DEF flight
<1> QED BY <1>1, <1>2, <1>3, Idles

\* A message admitted by a send is on record as created.
LEMMA CreateReadySecond == ASSUME Owned, Second, CreateReady PROVE Second'
<1>1. UNCHANGED <<bus, modem, manager, flight, tombs, state>>
  BY DEF CreateReady
<1>2. SingleFlight' /\ \A S \in Listed' : S \in Listed
  BY <1>1, IdlesKept DEF Second
<1>3. (Served' <=> Served) /\ UNCHANGED <<pending, dirty>>
  BY <1>1 DEF Served, flight
<1>4. CASE UNCHANGED <<cache, created>> /\ (truncated => truncated')
  <2>1. Cached' = Cached
    BY <1>4 DEF Cached
  <2> QED BY <1>1, <1>2, <1>3, <1>4, <2>1, Idles
<1>5. CASE /\ cache' = [cache EXCEPT ![send.path] = send.id]
           /\ created' = created \cup {send.path} /\ UNCHANGED truncated
  <2>1. send.path \in Path /\ send.id # NoId /\ cache \in [Path -> Id \cup {NoId}]
    BY ConstantsAssumption DEF CreateReady, Owned, Core, CacheTyped
  <2>2. Cached' = Cached \cup {send.path}
    BY <1>5, <2>1 DEF Cached
  <2> QED BY <1>1, <1>2, <1>3, <1>5, <2>2, Idles
<1> QED BY <1>4, <1>5 DEF CreateReady

\* A removed modem has no inventory.
LEMMA RemovedSecond == ASSUME Owned, Second, ModemRemoved PROVE Second'
<1>1. ~live' /\ Cached' = {} /\ Births'
  BY BirthsKept, Emptied DEF ModemRemoved, Second, manager
<1> QED BY <1>1, Silent


\* A list call failed: nothing is served, or the query is repeated.
LEMMA FailsSecond ==
    ASSUME Owned, Second, NEW c, NEW reply \in BOOLEAN, ListFails(c, reply) PROVE Second'
<1>1. /\ ListCurrent(c) /\ Requery(calls \ {c}, "unavailable") /\ cache' = Empty
      /\ source' = Nowhere /\ UNCHANGED <<bus, tombs, store, unborn, mgen>>
  BY DEF ListFails, modem
<1>2. /\ SingleFlight' /\ Listed' = {} /\ (dirty => pending')
      /\ ~dirty => state' = "unavailable"
  BY <1>1, CompletionKept DEF Second
<1>3. Births' /\ Cached' = {}
  BY <1>1, BirthsKept, Emptied DEF Second
<1>4. Complete' /\ Settled' /\ Current'
  BY <1>2 DEF Complete, Settled, Current, Served
<1>5. NoGhost'
  BY <1>3 DEF NoGhost
<1> QED BY <1>2, <1>3, <1>4, <1>5 DEF Second

(***************************************************************************)
(* A list is applied.  Unless the query is dirty, and so repeated, the     *)
(* list is right about everything that is not announced on the bus         *)
(* (Current); with room for tombstones it is right about the dead anyway   *)
(* (Settled).                                                              *)
(***************************************************************************)
LEMMA ListReadySecond == ASSUME Owned, Second, NEW c, NEW kept, ListReady(c, kept) PROVE Second'
<1> DEFINE found == c.paths \ tombs
           cut == Cardinality(found) > Limit
<1>1. /\ ListCurrent(c) /\ c.read
      /\ kept \subseteq found /\ Cardinality(kept) = RoomFor(Cardinality(found))
      /\ \E f \in Fresh(kept \ Reuses(kept)) :
           cache' = [p \in Path |-> CASE p \in Reuses(kept) -> cache[p]
                                      [] p \in kept \ Reuses(kept) -> f[p]
                                      [] p \notin kept -> NoId]
      /\ created' = {} /\ truncated' = cut /\ tombs' = tombs \cap c.paths
      /\ Requery(calls \ {c}, IF cut THEN "ready-truncated" ELSE "ready")
      /\ UNCHANGED <<bus, store, unborn, live, messaging, mgen>>
  BY DEF ListReady, modem, manager
<1>2. /\ SingleFlight' /\ Listed' = {} /\ (dirty => pending')
  BY <1>1, CompletionKept DEF Second
<1>3. found \in SUBSET Path
  BY <1>1, CallFields DEF Owned, Flight, FlightTyped, ListCurrent
<1>4. c.paths \in Listed /\ live /\ messaging
  BY <1>1 DEF Listed, OutCalls, ListCurrent
<1>5. cut \/ kept = found
  <2>1. Cardinality(found) \in Nat /\ Limit \in Nat
    BY <1>3, Sizes, ConstantsAssumption
  <2>2. Cardinality(found) <= Limit => kept = found
    BY <1>1, <1>3, KeptFits
  <2> QED BY <2>1, <2>2
<1>6. truncated' <=> cut
  BY <1>1
<1> HIDE DEF cut
<1>7. Cached' = kept
  BY <1>1, <1>3, ListedCache DEF Owned
<1>8. Births'
  BY <1>1, BirthsKept DEF Second
<1>9. \A t, p : Signal(t, p)' <=> Signal(t, p)
  BY <1>1 DEF Signal, OnBus
<1>10. EpochAhead' <=> EpochAhead
  BY <1>1 DEF EpochAhead, OnBus
<1>11. Settled' /\ Current'
  BY <1>2 DEF Settled, Current
<1>12. Complete'
  <2> SUFFICES ASSUME ~EpochAhead', ~pending'
               PROVE  /\ \A p \in store' : p \in Cached' \/ truncated' \/ Signal("added", p)'
                      /\ \A p \in Cached' : p \in store' \cup created' \/ Signal("deleted", p)'
    BY DEF Complete
  <2>1. /\ \A p \in found : p \in store \/ Signal("deleted", p)
        /\ \A p \in store : p \in found \/ Signal("added", p)
    BY <1>2, <1>4, <1>10 DEF Second, Current
  <2> QED BY <1>1, <1>5, <1>6, <1>7, <1>9, <2>1
<1>13. NoGhost'
  <2> SUFFICES ASSUME Cardinality(Path) <= Limit,
                      NEW p \in Cached' \ (store' \cup created'), ~EpochAhead'
               PROVE  Signal("deleted", p)'
    BY DEF NoGhost, EpochAhead, Signal
  <2>1. p \in c.paths /\ p \notin tombs /\ p \notin store
    BY <1>1, <1>7
  <2>2. p \in store \cup tombs \/ Signal("deleted", p)
    BY <1>4, <1>10, <2>1 DEF Second, Settled
  <2> QED BY <1>9, <2>1, <2>2
<1> QED BY <1>2, <1>8, <1>11, <1>12, <1>13 DEF Second

\* A cache that is empty, and the modem or its messaging gone.
LEMMA HandledSilent ==
    ASSUME Owned, Second, ~(live /\ messaging), NEW type, Delivered(type),
           UNCHANGED <<live, messaging, cache, tombs, store, unborn>>
    PROVE  Second'
<1>1. Cached' = {}
  BY DEF Owned, Core, Cached
<1>2. Births'
  BY BirthsHandled DEF Second
<1> QED BY <1>1, <1>2, Silent

\* libmm has the reply: it says what it said on the bus.
LEMMA ListRepliedSecond == ASSUME Owned, Second, ListReplied PROVE Second'
<1>1. /\ Delivered("listed") /\ UNCHANGED <<store, unborn, cache>>
      /\ UNCHANGED <<live, messaging, mgen, tombs, created, truncated, pending, dirty>>
      /\ Cached' = Cached /\ (Served' <=> Served)
  BY Apart DEF ListReplied, manager, inventory
<1>2. CASE ~(live /\ messaging)
  BY <1>1, <1>2, HandledSilent
<1>3. CASE live /\ messaging
  <2>1. SingleFlight' /\ \A S \in Listed' : S \in Listed
    BY <1>3, ListRepliedKept DEF Second
  <2>2. Births'
    BY <1>1, BirthsHandled DEF Second
  <2>3. SignalsKept
    BY <1>1, Handled DEF SignalsKept
  <2> QED BY <1>1, <2>1, <2>2, <2>3, Steady
<1> QED BY <1>2, <1>3

\* The reply of Create() is no signal.
LEMMA CreateRepliedSecond == ASSUME Owned, Second, CreateReplied PROVE Second'
<1>1. /\ Delivered("created") /\ UNCHANGED <<store, unborn, cache>>
      /\ UNCHANGED <<live, messaging, mgen, tombs, created, truncated, pending, dirty>>
      /\ Cached' = Cached /\ (Served' <=> Served)
  BY Apart DEF CreateReplied, manager, inventory, flight
<1>2. CASE ~(live /\ messaging)
  BY <1>1, <1>2, HandledSilent
<1>3. CASE live /\ messaging
  <2>1. SingleFlight' /\ \A S \in Listed' : S \in Listed
    BY <1>3, CreateRepliedKept DEF Second
  <2>2. Births'
    BY <1>1, BirthsHandled DEF Second
  <2>3. SignalsKept
    BY <1>1, Handled DEF SignalsKept
  <2> QED BY <1>1, <2>1, <2>2, <2>3, Steady
<1> QED BY <1>2, <1>3

(***************************************************************************)
(* An Added signal makes the query dirty or starts one.  It may revoke a   *)
(* tombstone, but only of a message that is there, that a later Deleted    *)
(* signal withdraws, or that the epoch ahead makes irrelevant.             *)
(***************************************************************************)
LEMMA SmsAddedSecond == ASSUME Owned, Second, SmsAdded PROVE Second'
<1>1. Delivered("added") /\ UNCHANGED <<live, messaging, mgen, store, unborn, cache, created>>
  BY DEF SmsAdded, modem, manager, inventory
<1>2. CASE ~(live /\ messaging)
  BY <1>1, <1>2, HandledSilent DEF SmsAdded, inventory
<1>3. CASE live /\ messaging
  <2> PICK q : q = Head(bus).path
    OBVIOUS
  <2>1. tombs' = tombs \ {q} /\ QuerySms(pending, dirty, calls, state)
    BY <1>3 DEF SmsAdded
  <2>2. /\ \A i, j \in OutReplies' : i = j
        /\ \A i \in OutReplies' : \E j \in OutReplies : bus'[i].paths = bus[j].paths
        /\ OutReplies = {} => OutReplies' = {}
    BY <1>1, <1>3, HandledFewer DEF Second, SingleFlight
  <2>3. /\ SingleFlight' /\ pending' /\ (\A S \in Listed' : S \in Listed)
        /\ dirty' \/ Listed' = {}
    BY <1>1, <1>3, <2>1, <2>2, QueryKept DEF Second
  <2>4. Births'
    BY <1>1, <2>1, BirthsHandled DEF Second
  <2>5. /\ Head(bus) = bus[1] /\ 1 \in OnBus("added")
        /\ \A t : \A i \in OnBus(t) : i > 1 => i - 1 \in OnBus(t)' /\ bus'[i - 1] = bus[i]
        /\ \A p : Signal("deleted", p) => Signal("deleted", p)'
        /\ EpochAhead => EpochAhead'
    BY <1>1, Handled
  <2>6. q \in store \/ Signal("deleted", q)' \/ EpochAhead'
    <3>1. \/ q \in store
          \/ \E j \in OnBus("deleted") : 1 < j /\ bus[j].path = q
          \/ \E j \in OnBus("epoch") : 1 < j
      BY <2>5 DEF Second, Births
    <3>2. ASSUME NEW j \in OnBus("deleted"), 1 < j, bus[j].path = q
          PROVE  Signal("deleted", q)'
      <4>1. bus[j].path = q => Signal("deleted", q)
        BY DEF Signal
      <4> QED BY <2>5, <3>2, <4>1
    <3>3. ASSUME NEW j \in OnBus("epoch") PROVE EpochAhead'
      BY <2>5 DEF EpochAhead
    <3> QED BY <3>1, <3>2, <3>3
  <2>7. Settled'
    <3> SUFFICES ASSUME ~EpochAhead', Cardinality(Path) <= Limit,
                        NEW S \in Listed', NEW p \in S
                 PROVE  p \in store' \cup tombs' \/ Signal("deleted", p)'
      BY DEF Settled
    <3>1. p \in store \cup tombs \/ Signal("deleted", p)
      BY <1>3, <2>3, <2>5 DEF Second, Settled
    <3> QED BY <1>1, <2>1, <2>5, <2>6, <3>1
  <2>8. Current' /\ Complete'
    BY <2>3 DEF Current, Complete
  <2>9. NoGhost'
    <3> SUFFICES ASSUME Cardinality(Path) <= Limit,
                        NEW p \in Cached' \ (store' \cup created')
                 PROVE  EpochAhead' \/ Signal("deleted", p)'
      BY DEF NoGhost, EpochAhead, Signal
    <3>1. p \in Cached \ (store \cup created)
      BY <1>1 DEF Cached
    <3>2. EpochAhead \/ Signal("deleted", p)
      BY <3>1 DEF Second, NoGhost, EpochAhead, Signal
    <3> QED BY <2>5, <3>2
  <2> QED BY <2>3, <2>4, <2>7, <2>8, <2>9 DEF Second
<1> QED BY <1>2, <1>3

(***************************************************************************)
(* A Deleted signal makes the query dirty or starts one, and leaves a      *)
(* tombstone when there is room: with room for every path there always is. *)
(***************************************************************************)
LEMMA SmsDeletedSecond == ASSUME Owned, Second, SmsDeleted PROVE Second'
<1>1. Delivered("deleted") /\ UNCHANGED <<live, messaging, mgen, store, unborn>>
  BY DEF SmsDeleted, modem, manager
<1>2. CASE ~(live /\ messaging)
  BY <1>1, <1>2, HandledSilent DEF SmsDeleted, inventory
<1>3. CASE live /\ messaging
  <2> DEFINE q == Head(bus).path
  <2>1. /\ tombs' = Tombstoned(q) /\ QuerySms(pending, dirty, calls, state)
        /\ cache' = [cache EXCEPT ![q] = NoId] /\ created' = created \ {q}
    BY <1>3 DEF SmsDeleted
  <2>2. /\ \A i, j \in OutReplies' : i = j
        /\ \A i \in OutReplies' : \E j \in OutReplies : bus'[i].paths = bus[j].paths
        /\ OutReplies = {} => OutReplies' = {}
    BY <1>1, <1>3, HandledFewer DEF Second, SingleFlight
  <2>3. /\ SingleFlight' /\ pending' /\ (\A S \in Listed' : S \in Listed)
        /\ dirty' \/ Listed' = {}
    BY <1>1, <1>3, <2>1, <2>2, QueryKept DEF Second
  <2>4. Births'
    BY <1>1, <2>1, BirthsHandled DEF Second, Tombstoned
  <2>5. /\ Head(bus) = bus[1] /\ bus[1] \in Message /\ bus[1].type = "deleted"
        /\ \A p : Signal("deleted", p) => Signal("deleted", p)' \/ p = bus[1].path
        /\ EpochAhead => EpochAhead'
    BY <1>1, Handled
  <2>6. q \in Path /\ cache \in [Path -> Id \cup {NoId}]
    BY <2>5, MessageFields DEF Owned, Core, CacheTyped
  <2>7. ASSUME Cardinality(Path) <= Limit PROVE q \in tombs' /\ tombs \subseteq tombs'
    <3>1. tombs \in SUBSET Path /\ IsFiniteSet(Path) /\ Limit \in Nat
      BY ConstantsAssumption DEF Owned, Core, Bounded
    <3>2. Cardinality(tombs) \in Nat /\ Cardinality(tombs) <= Cardinality(Path)
          /\ Cardinality(Path) \in Nat
      BY <3>1, FS_Subset, FS_CardinalityType
    <3>3. CASE Cardinality(tombs) < Limit
      BY <2>1, <3>3 DEF Tombstoned
    <3>4. CASE ~(Cardinality(tombs) < Limit)
      <4>1. Cardinality(Path) = Cardinality(tombs)
        BY <2>7, <3>1, <3>2, <3>4
      <4>2. Path = tombs
        BY <3>1, <4>1, FS_Subset
      <4> QED BY <2>1, <2>6, <3>4, <4>2 DEF Tombstoned
    <3> QED BY <3>3, <3>4
  <2>8. Cached' = Cached \ {q}
    BY <2>1, <2>6 DEF Cached
  <2>9. \A p : Signal("deleted", p) => Signal("deleted", p)' \/ p = q
    BY <2>5
  <2> HIDE DEF q
  <2>10. Settled'
    <3> SUFFICES ASSUME ~EpochAhead', Cardinality(Path) <= Limit,
                        NEW S \in Listed', NEW p \in S
                 PROVE  p \in store' \cup tombs' \/ Signal("deleted", p)'
      BY DEF Settled
    <3>1. p \in store \cup tombs \/ Signal("deleted", p)
      BY <1>3, <2>3, <2>5 DEF Second, Settled
    <3> QED BY <1>1, <2>7, <2>9, <3>1
  <2>11. Current' /\ Complete'
    BY <2>3 DEF Current, Complete
  <2>12. NoGhost'
    <3> SUFFICES ASSUME Cardinality(Path) <= Limit,
                        NEW p \in Cached' \ (store' \cup created')
                 PROVE  EpochAhead' \/ Signal("deleted", p)'
      BY DEF NoGhost, EpochAhead, Signal
    <3>1. p \in Cached \ (store \cup created) /\ p # q
      BY <1>1, <2>1, <2>8
    <3>2. EpochAhead \/ Signal("deleted", p)
      BY <3>1 DEF Second, NoGhost, EpochAhead, Signal
    <3> QED BY <2>5, <2>9, <3>1, <3>2
  <2> QED BY <2>3, <2>4, <2>10, <2>11, <2>12 DEF Second
<1> QED BY <1>2, <1>3

\* A new epoch starts from an empty cache, without tombstones.
LEMMA ReconciledSecond == ASSUME Owned, Second, MessagingReconciled PROVE Second'
<1>1. Delivered("epoch") /\ UNCHANGED <<live, store, unborn>>
  BY DEF MessagingReconciled, manager, modem
<1>2. CASE ~live
  BY <1>1, <1>2, HandledSilent DEF MessagingReconciled, inventory, modem
<1>3. CASE live
  <2>1. /\ cache' = Empty /\ source' = Nowhere /\ tombs' = {}
        /\ state' \in {"unavailable", "loading", "absent"}
    BY <1>3 DEF MessagingReconciled
  <2>2. Births' /\ Cached' = {} /\ ~Served'
    BY <1>1, <2>1, BirthsHandled, Emptied DEF Second, Served
  <2>3. CASE ~messaging'
    BY <2>2, <2>3, Silent
  <2>4. CASE messaging'
    <3>1. SingleFlight' /\ Listed' = {}
      BY <1>3, <2>4, ReconciledKept
    <3> QED BY <2>2, <3>1 DEF Second, Settled, Current, Complete, NoGhost
  <2> QED BY <2>3, <2>4
<1> QED BY <1>2, <1>3

\* The end of a send may start a query.
LEMMA SendEndsSecond == ASSUME Owned, Second, NEW sent \in BOOLEAN, SendEnds(sent) PROVE Second'
<1>1. CASE sent /\ ~SendStale
  BY <1>1, QuerySecond DEF SendEnds, SendStale
<1>2. CASE ~(sent /\ ~SendStale)
  BY <1>2, FrameSecond DEF SendEnds
<1> QED BY <1>1, <1>2

\* At first nothing is served and nothing is listed.
LEMMA InitSecond == Init => Second
<1> SUFFICES ASSUME Init PROVE Second
  OBVIOUS
<1>1. Len(bus) = 0 /\ \A t : OnBus(t) = {}
  BY DEF Init, OnBus
<1>2. OutReplies = {} /\ ~pending => calls = {}
  BY <1>1 DEF Init, OutReplies
<1>3. \A c, d \in calls : c = d
  BY DEF Init
<1>4. \A c \in calls : ~c.read
  BY DEF Init
<1>5. OutCalls \subseteq calls /\ OutReplies = {}
  BY <1>1 DEF OutCalls, OutReplies
<1>6. SingleFlight
  BY <1>2, <1>3, <1>5 DEF SingleFlight
<1>7. Listed = {}
  BY <1>4, <1>5 DEF Listed
<1>8. Births
  BY <1>1 DEF Births, Init
<1>9. Cached = {}
  BY DEF Init, Cached, Empty
<1>10. ~Served
  BY DEF Init, Served
<1> QED
  BY <1>6, <1>7, <1>8, <1>9, <1>10 DEF Second, Settled, Current, Complete, NoGhost

\* Every step keeps the second layer.
LEMMA NextSecond == Owned /\ Second /\ [Next]_vars => Second'
<1> SUFFICES ASSUME Owned, Second, [Next]_vars PROVE Second'
  OBVIOUS
<1>1. CASE UNCHANGED vars
  BY <1>1, FrameSecond DEF vars, modem, manager, flight
<1>2. ASSUME NEW p \in Path, MessageArrives(p) \/ MessageDeleted(p) \/ MessageCreated(p)
      PROVE  Second'
  BY <1>2, ArrivesSecond, DeletedSecond, CreatedSecond
<1>3. ASSUME NEW present \in BOOLEAN, EpochChanges(present) PROVE Second'
  BY <1>3, EpochSecond
<1>4. CASE ListSteps
  BY <1>4, ListReadSecond, ListStaleSecond, ListReadySecond, FailsSecond DEF ListSteps
<1>5. CASE SendSteps
  <2>1. CASE CreateFails
    BY <2>1, FrameSecond DEF CreateFails
  <2> QED BY <1>5, <2>1, CreateReadySecond, SendEndsSecond DEF SendSteps
<1>6. CASE Deliver
  BY <1>6, SmsAddedSecond, SmsDeletedSecond, ListRepliedSecond, CreateRepliedSecond,
     ReconciledSecond DEF Deliver
<1>7. CASE Refresh
  BY <1>7, QuerySecond DEF Refresh
<1>8. CASE ModemRemoved
  BY <1>8, RemovedSecond
<1>9. CASE SmsPropertiesChanged
  BY <1>9, FrameSecond DEF SmsPropertiesChanged
<1>10. ASSUME NEW i \in Id, SendSms(i) PROVE Second'
  BY <1>10, FrameSecond DEF SendSms
<1> QED
  BY <1>1, <1>2, <1>3, <1>4, <1>5, <1>6, <1>7, <1>8, <1>9, <1>10 DEF Next

\* The second layer is an invariant.
LEMMA AlwaysSecond == Spec => []Second
BY InitSecond, NextSecond, AlwaysOwned, PTL DEF Spec

(***************************************************************************)
(* A deleted message does not come back, as long as there is room for a    *)
(* tombstone of every path: a list read before the deletion and applied    *)
(* after its signal leaves it out.                                         *)
(***************************************************************************)
THEOREM NoGhosts == Spec => []NoGhost
<1>1. Second => NoGhost
  BY DEF Second
<1> QED BY <1>1, AlwaysSecond, PTL

(***************************************************************************)
(* When nothing is under way, a served inventory is the store: no signal   *)
(* handled while a query was pending is lost.                              *)
(***************************************************************************)
THEOREM QuietComplete == Spec => []QuietMeansComplete
<1>1. Owned /\ Second => QuietMeansComplete
  <2> SUFFICES ASSUME Owned, Second, live, messaging, Served, ~pending, bus = <<>>
               PROVE  /\ store \subseteq Cached \/ truncated
                      /\ Cached \subseteq store \cup created
    BY DEF QuietMeansComplete
  <2>1. \A t : OnBus(t) = {}
    BY DEF OnBus
  <2>2. ~EpochAhead /\ \A t, p : ~Signal(t, p)
    BY <2>1 DEF EpochAhead, Signal
  <2> QED BY <2>2 DEF Second, Complete
<1> QED BY <1>1, AlwaysOwned, AlwaysSecond, PTL
=============================================================================
