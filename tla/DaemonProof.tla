---------------------------- MODULE DaemonProof ----------------------------
(***************************************************************************)
(* Proofs about the daemon, for any objects of ModemManager, any limits    *)
(* and delays and any number of faults: it is never deaf, and what its     *)
(* registry shows is what ModemManager has.                                *)
(*                                                                         *)
(* For the first only how the attempts to reach ModemManager and ubusd     *)
(* hand over to each other matters (Inv).  The second (Stocked) is about   *)
(* the table: each function on it keeps it good, and reconcile_all, a loop *)
(* over ModemManager's objects, by induction over its rounds.              *)
(***************************************************************************)
EXTENDS Daemon, SequenceTheorems, FiniteSetTheorems, WellFoundedInduction, TLAPS

\* A connection and a manager are always of the last attempt, and a bus call
\* is under way whenever one is awaited.
Attempts ==
    /\ serial \in Nat \ {0}
    /\ connection \in {0, serial}
    /\ manager # 0 => manager = serial /\ connection = serial
    /\ closed => connection # 0
    /\ pending => serial \in busCalls /\ connection = 0

\* Somebody will act: on a connection without a manager its call or its
\* closed signal, and without a connection the retry timer or a bus call.
Awake ==
    /\ manager = 0 /\ connection # 0 => closed \/ serial \in managerCalls
    /\ connection = 0 => retry \/ pending

\* The same of ubus.
Reachable ==
    /\ connected => watch
    /\ connected /\ link = "up" => initialized /\ ids = Published
    /\ connected /\ ~reconnect => delay = InitialDelay

Inv ==
    /\ Attempts /\ Reachable
    /\ phase # "stopped" => Awake
    /\ phase = "running" => connected \/ reconnect
    /\ phase \in {"starting", "running", "stopped"}
    /\ phase = "starting" => ~connected

\* The invariant is what NeverDeaf asks for.
LEMMA InvIsAwake == Inv => NeverDeaf
BY DEF Inv, Attempts, Awake, Reachable, NeverDeaf

\* bridge_start has its first call under way.
LEMMA InitInv == Init => Inv
<1> SUFFICES ASSUME Init PROVE Inv
  OBVIOUS
<1>1. Attempts /\ Awake
  BY DEF Init, Bridge!Init, Attempts, Awake
<1>2. Reachable /\ ~connected
  BY DEF Init, Ubus!New, Reachable
<1> QED BY <1>1, <1>2 DEF Inv, Init

-----------------------------------------------------------------------------
(* The bridge.                                                             *)

BridgeInv == Attempts /\ Awake

\* What happens to the registry and to ModemManager touches no attempt.
LEMMA AttemptKept == BridgeInv /\ UNCHANGED Bridge!attempt => BridgeInv'
BY DEF Bridge!attempt, BridgeInv, Attempts, Awake

\* Answers of g_bus_get and mm_manager_new: of this attempt or of another.
LEMMA CallsAwake == ASSUME BridgeInv, Bridge!Calls PROVE BridgeInv'
<1>1. ASSUME NEW s \in busCalls, NEW ok \in BOOLEAN, Bridge!BusReady(s, ok) PROVE BridgeInv'
  <2>1. CASE s # serial
    BY <1>1, <2>1 DEF Bridge!BusReady, BridgeInv, Attempts, Awake
  <2>2. CASE s = serial /\ ok
    BY <1>1, <2>2 DEF Bridge!BusReady, BridgeInv, Attempts, Awake
  <2>3. CASE s = serial /\ ~ok
    BY <1>1, <2>3 DEF Bridge!BusReady, BridgeInv, Attempts, Awake
  <2> QED BY <2>1, <2>2, <2>3
<1>2. ASSUME NEW s \in managerCalls, NEW ok \in BOOLEAN, NEW order, NEW unlucky,
             Bridge!ManagerReady(s, ok, order, unlucky)
      PROVE  BridgeInv'
  <2>1. CASE ~Bridge!Awaited(s) /\ UNCHANGED <<serial, connection, closed, retry, manager>>
    BY <1>2, <2>1 DEF Bridge!ManagerReady, Bridge!Awaited, BridgeInv, Attempts, Awake
  <2>2. CASE /\ Bridge!Awaited(s) /\ manager' = s
             /\ UNCHANGED <<serial, connection, closed, retry>>
    BY <1>2, <2>2 DEF Bridge!ManagerReady, Bridge!Awaited, BridgeInv, Attempts, Awake
  <2>3. CASE /\ Bridge!Awaited(s) /\ serial' = serial + 1 /\ retry' = TRUE
             /\ Bridge!ClearManagerConnection
    BY <1>2, <2>3
    DEF Bridge!ManagerReady, Bridge!Awaited, Bridge!ClearManagerConnection, BridgeInv,
        Attempts, Awake
  <2> QED BY <1>2, <2>1, <2>2, <2>3 DEF Bridge!ManagerReady
<1> QED
  BY <1>1, <1>2 DEF Bridge!Calls

\* The retry timer hands over to a bus call, or to whoever is at work.
LEMMA RetryAwake == ASSUME BridgeInv, Bridge!RetryFires PROVE BridgeInv'
<1>1. CASE manager = 0 /\ connection = 0 /\ ~pending
  BY <1>1 DEF Bridge!RetryFires, Bridge!BridgeConnect, BridgeInv, Attempts, Awake
<1>2. CASE ~(manager = 0 /\ connection = 0 /\ ~pending)
  BY <1>2 DEF Bridge!RetryFires, Bridge!BridgeConnect, BridgeInv, Attempts, Awake
<1> QED BY <1>1, <1>2

\* The bus closes the connection, and the bridge learns of it.
LEMMA ClosesAwake ==
    ASSUME BridgeInv, Bridge!ConnectionCloses \/ Bridge!ConnectionClosed PROVE BridgeInv'
<1>1. CASE Bridge!ConnectionCloses
  BY <1>1 DEF Bridge!ConnectionCloses, BridgeInv, Attempts, Awake
<1>2. CASE Bridge!ConnectionClosed
  BY <1>2 DEF Bridge!ConnectionClosed, Bridge!ClearManagerConnection, BridgeInv, Attempts, Awake
<1> QED BY <1>1, <1>2

\* No step of the bridge leaves it with nothing to wait for.
LEMMA BridgeAwake == ASSUME BridgeInv, Bridge!BridgeNext PROVE BridgeInv'
<1>1. CASE Bridge!DetailCalls
  BY <1>1, AttemptKept DEF Bridge!DetailCalls, Bridge!DetailReady
<1>2. CASE Bridge!Changes
  BY <1>2, AttemptKept
  DEF Bridge!Changes, Bridge!ObjectChanges, Bridge!DetailChanges, Bridge!ObjectRemoved,
      Bridge!OwnerLost, Bridge!OwnerFound
<1>3. CASE Bridge!Timer
  BY <1>3, AttemptKept DEF Bridge!Timer, Bridge!ReconcileTimer
<1> QED
  BY <1>1, <1>2, <1>3, CallsAwake, RetryAwake, ClosesAwake DEF Bridge!BridgeNext

-----------------------------------------------------------------------------
(* ubus.                                                                   *)

\* connect_ubus ends with a connection or with the timer armed.
LEMMA ConnectReaches ==
    ASSUME Reachable, Ubus!ConnectUbus PROVE Reachable' /\ (connected' \/ reconnect')
<1>1. CASE Ubus!Refused
  BY <1>1 DEF Ubus!Refused, Reachable
<1>2. ASSUME NEW known \in SUBSET Published, NEW lost \in BOOLEAN, Ubus!NotPublished(known, lost)
      PROVE  Reachable' /\ (connected' \/ reconnect')
  BY <1>2 DEF Ubus!NotPublished, Reachable
<1>3. ASSUME NEW known \in SUBSET Published, NEW lost \in BOOLEAN, Ubus!Connects(known, lost)
      PROVE  Reachable' /\ (connected' \/ reconnect')
  BY <1>3 DEF Ubus!Connects, Ubus!AllPublished, Reachable
<1> QED BY <1>1, <1>2, <1>3 DEF Ubus!ConnectUbus

\* So does every step after it.
LEMMA UbusReaches ==
    ASSUME Reachable, connected \/ reconnect, Ubus!UbusNext
    PROVE  Reachable' /\ (connected' \/ reconnect')
<1>1. CASE Ubus!ReconnectFires
  BY <1>1, ConnectReaches DEF Ubus!ReconnectFires
<1>2. CASE Ubus!LinkDies
  BY <1>2 DEF Ubus!LinkDies, Reachable
<1>3. CASE Ubus!FdReady
  BY <1>3 DEF Ubus!FdReady, Reachable
<1> QED BY <1>1, <1>2, <1>3 DEF Ubus!UbusNext

-----------------------------------------------------------------------------
(* The daemon.                                                             *)

\* A step of one side leaves the other as it was.
LEMMA BridgeFramed == UNCHANGED bridgeVars => UNCHANGED Bridge!attempt
BY DEF bridgeVars, Bridge!attempt

\* The other way round.
LEMMA UbusFramed ==
    Reachable /\ UNCHANGED ubusVars => Reachable' /\ UNCHANGED <<connected, reconnect>>
BY DEF ubusVars, Reachable

\* Every step of the main loop, and the stop, keeps the invariant.
LEMMA NextInv == Inv /\ [Next]_vars => Inv'
<1> SUFFICES ASSUME Inv, [Next]_vars PROVE Inv'
  OBVIOUS
<1>1. CASE UNCHANGED vars
  BY <1>1 DEF vars, bridgeVars, ubusVars, Inv, Attempts, Awake, Reachable
<1>2. CASE Start
  <2>1. BridgeInv'
    BY <1>2, AttemptKept, BridgeFramed DEF Start, Inv, BridgeInv
  <2>2. Reachable' /\ (connected' \/ reconnect')
    BY <1>2, ConnectReaches DEF Start, Ubus!Start, Inv
  <2> QED BY <1>2, <2>1, <2>2 DEF Start, Inv, BridgeInv
<1>3. CASE Run /\ Bridge!BridgeNext /\ UNCHANGED ubusVars
  <2>1. BridgeInv'
    BY <1>3, BridgeAwake DEF Run, Inv, BridgeInv
  <2>2. Reachable' /\ (connected' \/ reconnect')
    BY <1>3, UbusFramed DEF Run, Inv
  <2> QED BY <1>3, <2>1, <2>2 DEF Run, Inv, BridgeInv
<1>4. CASE Run /\ Ubus!UbusNext /\ UNCHANGED bridgeVars
  <2>1. BridgeInv'
    BY <1>4, AttemptKept, BridgeFramed DEF Run, Inv, BridgeInv
  <2>2. Reachable' /\ (connected' \/ reconnect')
    BY <1>4, UbusReaches DEF Run, Inv
  <2> QED BY <1>4, <2>1, <2>2 DEF Run, Inv, BridgeInv
<1>5. CASE Quit
  <2>1. Attempts'
    BY <1>5 DEF Quit, Bridge!Stop, Bridge!ClearManagerConnection, Inv, Attempts
  <2>2. Reachable'
    BY <1>5 DEF Quit, Ubus!Stop, Reachable
  <2> QED BY <1>5, <2>1, <2>2 DEF Quit, Inv
<1> QED
  BY <1>1, <1>2, <1>3, <1>4, <1>5 DEF Next, Run

(***************************************************************************)
(* A running daemon always has something that will bring it back: of       *)
(* ModemManager a call it will accept, a closed signal to come or the      *)
(* retry, of ubus a watched socket or the reconnection.                    *)
(***************************************************************************)
THEOREM AlwaysAwake == Spec => []NeverDeaf
<1>1. Spec => []Inv
  BY InitInv, NextInv, PTL DEF Spec
<1> QED BY <1>1, InvIsAwake, PTL

-----------------------------------------------------------------------------
(* The registry.                                                           *)

\* Induction: a non-empty set of numbers has a least element.
LEMMA LeastOf ==
    ASSUME NEW T, T \subseteq Nat, T # {}
    PROVE  \E n \in T : \A m \in T : ~(m < n)
<1> DEFINE R == OpToRel(<, Nat)
<1>1. IsWellFoundedOn(R, Nat)
  BY NatLessThanWellFounded
<1>2. \E x \in T : \A y \in T : ~ (<<y, x>> \in R)
  <2> HIDE DEF R
  <2> QED BY <1>1, WFMin
<1> QED BY <1>2 DEF OpToRel

\* A loop of N rounds of reconcile_object has its intermediate tables: the
\* recursive function of reconcile_all exists.
LEMMA WalkExists ==
    ASSUME NEW r, NEW w, NEW order, NEW unlucky, NEW N \in Nat
    PROVE  \E h : h = [n \in 0..N |->
                IF n = 0 THEN r ELSE Bridge!Reconcile(h[n - 1], w, order[n], unlucky)]
<1> DEFINE F(h, n) == IF n = 0 THEN r ELSE Bridge!Reconcile(h[n - 1], w, order[n], unlucky)
<1> DEFINE Has(k) == \E h : h = [n \in 0..k |-> F(h, n)]
<1> DEFINE T == {k \in Nat : ~Has(k)}
<1>1. ASSUME T # {} PROVE FALSE
  <2>1. PICK k \in T : \A m \in T : ~(m < k)
    <3> HIDE DEF T
    <3>1. T \subseteq Nat BY DEF T
    <3> QED BY <1>1, <3>1, LeastOf
  <2>2. k # 0
    <3> DEFINE h == [n \in 0..0 |-> r]
    <3>1. h = [n \in 0..0 |-> F(h, n)]
      OBVIOUS
    <3>2. Has(0) BY <3>1
    <3> QED BY <3>2
  <2>3. Has(k - 1)
    <3> HIDE DEF Has
    <3>1. k \in Nat /\ k - 1 \in Nat /\ k - 1 < k
      BY <2>2
    <3>2. k - 1 \notin T
      <4> HIDE DEF T
      <4> QED BY <2>1, <3>1
    <3> QED BY <3>1, <3>2
  <2>4. PICK h : h = [n \in 0..(k - 1) |-> F(h, n)]
    BY <2>3
  <2> DEFINE g == [n \in 0..k |-> IF n = k THEN F(h, k) ELSE h[n]]
  <2>5. g = [n \in 0..k |-> F(g, n)]
    <3>1. ASSUME NEW n \in 0..k PROVE g[n] = F(g, n)
      <4>1. CASE n = k
        BY <4>1, <2>2
      <4>2. CASE n # k
        <5>1. h[n] = F(h, n)
          <6> HIDE DEF F
          <6>1. n \in 0..(k-1) BY <4>2
          <6> QED BY <6>1, <2>4
        <5>2. n # 0 => g[n - 1] = h[n - 1]
          BY <4>2
        <5> QED BY <5>1, <5>2, <4>2
      <4> QED BY <4>1, <4>2
    <3> HIDE DEF F
    <3> QED BY <3>1
  <2>6. Has(k)
    <3> HIDE DEF F, g
    <3> QED BY <2>5
  <2> QED BY <2>6
<1>2. Has(N)
  BY <1>1
<1> QED BY <1>2

\* reconcile_all is the last of them.
LEMMA Loop ==
    ASSUME NEW r, NEW w, NEW order, NEW unlucky, Len(order) \in Nat
    PROVE  \E h : /\ h = [n \in 0..Len(order) |->
                        IF n = 0 THEN r ELSE Bridge!Reconcile(h[n - 1], w, order[n], unlucky)]
                  /\ Bridge!ReconcileAll(r, w, order, unlucky) =
                        IF w.owner THEN h[Len(order)] ELSE r
<1> DEFINE h == CHOOSE h : h = [n \in 0..Len(order) |->
                        IF n = 0 THEN r ELSE Bridge!Reconcile(h[n - 1], w, order[n], unlucky)]
<1>1. h = [n \in 0..Len(order) |->
                        IF n = 0 THEN r ELSE Bridge!Reconcile(h[n - 1], w, order[n], unlucky)]
   BY WalkExists
<1>2. Bridge!ReconcileAll(r, w, order, unlucky) = IF w.owner THEN h[Len(order)] ELSE r
   BY DEF Bridge!ReconcileAll
<1> HIDE DEF h
<1> QED BY <1>1, <1>2

\* The registry counts as FiniteSets does.
LEMMA Sizes == ASSUME NEW S PROVE Bridge!Cardinality(S) = Cardinality(S)
BY DEF Bridge!Cardinality, Cardinality

Admitted(r) == Bridge!Admitted(r)

Registry ==
    [modem : [Path -> 0..MaxGeneration], next : 0..MaxGeneration,
     cache : [Bridge!Generation -> [Bridge!Detail -> Bridge!Cache]]]

World ==
    [owner : BOOLEAN, view : [Path -> {"absent", "other", "exact"}],
     detail : [Path -> [Bridge!Detail -> Bridge!Version]]]

\* Generations are used once and the table has room for what is in it.
Fits(r) ==
    /\ r \in Registry
    /\ \A p \in Path : r.modem[p] <= r.next
    /\ \A p, q \in Admitted(r) : r.modem[p] = r.modem[q] => p = q
    /\ Cardinality(Admitted(r)) <= MaxModems

\* A cache has the version v, or will ask for it again.
Right(c, v) ==
    IF c.pending THEN c.dirty \/ c.asked = v ELSE c.state = "unavailable" \/ c.value = v

\* The modems in the table are in ModemManager, with the details they have
\* there.
Exact(r, w) == \A p \in Admitted(r) : w.view[p] = "exact"

Fresh(r, w) ==
    \A p \in Admitted(r), d \in Bridge!Detail : Right(r.cache[r.modem[p]][d], w.detail[p][d])

Good(r, w) == Fits(r) /\ Exact(r, w) /\ Fresh(r, w)

\* q has modems of r only, and they are as in r.
Within(q, r) ==
    \A p \in Admitted(q) :
        p \in Admitted(r) /\ q.modem[p] = r.modem[p]
        /\ q.cache[q.modem[p]] = r.cache[r.modem[p]]

\* The fields of a table.
LEMMA Fields ==
    ASSUME NEW r \in Registry
    PROVE  /\ r.modem \in [Path -> 0..MaxGeneration] /\ r.next \in 0..MaxGeneration
           /\ r.next \in Nat
           /\ r.cache \in [Bridge!Generation -> [Bridge!Detail -> Bridge!Cache]]
           /\ \A p \in Path : r.modem[p] \in Nat /\ r.modem[p] \in 0..MaxGeneration
           /\ \A p \in Admitted(r) : p \in Path /\ r.modem[p] \in Bridge!Generation
<1>1. MaxGeneration \in Nat
  BY DaemonAssumption
<1> QED
  BY <1>1 DEF Registry, Admitted, Bridge!Admitted, Bridge!Generation

\* remove_path and clear_modems touch no modem that stays.
LEMMA KeepWithin ==
    ASSUME NEW r, Fits(r), NEW S \in SUBSET Path
    PROVE  LET q == Bridge!Keep(r, S)
           IN  Fits(q) /\ Within(q, r) /\ Admitted(q) = Admitted(r) \cap S
<1> DEFINE m == [p \in Path |-> IF p \in S THEN r.modem[p] ELSE 0]
           c == Bridge!Unref(r.cache, {r.modem[p] : p \in S})
           q == Bridge!Keep(r, S)
<1>0. r \in Registry
  BY DEF Fits
<1>1. q = [r EXCEPT !.modem = m, !.cache = c]
  BY DEF Bridge!Keep
<1>2. q.modem = m /\ q.cache = c /\ q.next = r.next
  <2> HIDE DEF m, c, q
  <2> QED BY <1>0, <1>1 DEF Registry
<1>3. m \in [Path -> 0..MaxGeneration]
  BY <1>0, Fields, DaemonAssumption
<1>4. Bridge!Unused \in [Bridge!Detail -> Bridge!Cache]
  BY DEF Bridge!Unused, Bridge!NewCache, Bridge!Cache, Bridge!Version
<1>5. c \in [Bridge!Generation -> [Bridge!Detail -> Bridge!Cache]]
  BY <1>0, <1>4, Fields DEF Bridge!Unref
<1>6. q \in Registry
  <2> HIDE DEF m, c, q
  <2> QED BY <1>0, <1>1, <1>3, <1>5 DEF Registry
<1>7. Admitted(q) = Admitted(r) \cap S
  BY <1>2 DEF Admitted, Bridge!Admitted
<1>8. \A p \in Admitted(q) : p \in S /\ p \in Path /\ q.modem[p] = r.modem[p]
  BY <1>2, <1>7 DEF Admitted, Bridge!Admitted
<1>9. \A p \in Admitted(q) : q.cache[q.modem[p]] = r.cache[r.modem[p]]
  <2>1. SUFFICES ASSUME NEW p \in Admitted(q) PROVE q.cache[q.modem[p]] = r.cache[r.modem[p]]
    OBVIOUS
  <2>2. r.modem[p] \in Bridge!Generation /\ r.modem[p] \in {r.modem[x] : x \in S}
    BY <1>0, <1>7, <1>8, Fields
  <2> QED BY <1>2, <1>8, <2>2 DEF Bridge!Unref
<1>10. Cardinality(Admitted(q)) <= MaxModems
  <2>1. IsFiniteSet(Admitted(r)) /\ Admitted(q) \subseteq Admitted(r)
    BY <1>7, FS_Subset, DaemonAssumption DEF Admitted, Bridge!Admitted
  <2>2. /\ Cardinality(Admitted(q)) <= Cardinality(Admitted(r))
        /\ Cardinality(Admitted(q)) \in Nat /\ Cardinality(Admitted(r)) \in Nat
    BY <2>1, FS_Subset, FS_CardinalityType
  <2> QED BY <2>2, DaemonAssumption DEF Fits
<1>11. \A p \in Path : q.modem[p] <= q.next
  BY <1>0, <1>2, Fields DEF Fits
<1> HIDE DEF q
<1>12. Within(q, r)
  BY <1>7, <1>8, <1>9 DEF Within
<1>13. Fits(q)
  BY <1>6, <1>7, <1>8, <1>10, <1>11 DEF Fits
<1> QED BY <1>7, <1>12, <1>13 DEF q

\* What is right of modems stays right of fewer.
LEMMA WithinGood ==
    ASSUME NEW q, NEW r, NEW w, Within(q, r), Fits(q), Exact(r, w), Fresh(r, w)
    PROVE  Good(q, w)
<1>1. Exact(q, w)
  BY DEF Within, Exact
<1>2. Fresh(q, w)
  BY DEF Within, Fresh
<1> QED BY <1>1, <1>2 DEF Good

\* query_sim and query_bearers leave a cache that will have the version.
LEMMA QueriedRight ==
    ASSUME NEW c \in Bridge!Cache, NEW d \in Bridge!Detail, NEW v \in Bridge!Version
    PROVE  Bridge!Queried(c, d, v) \in Bridge!Cache /\ Right(Bridge!Queried(c, d, v), v)
<1>1. CASE c.pending
  BY <1>1 DEF Bridge!Queried, Bridge!Cache, Right
<1>2. CASE ~c.pending /\ d = "sim" /\ v = 0
  BY <1>2 DEF Bridge!Queried, Bridge!Cache, Right, Bridge!Version
<1>3. CASE ~c.pending /\ ~(d = "sim" /\ v = 0)
  BY <1>3 DEF Bridge!Queried, Bridge!Cache, Right
<1> QED BY <1>1, <1>2, <1>3

\* A new modem gets a generation that no other has, and its own caches.
LEMMA AdmitGood ==
    ASSUME NEW r, NEW w \in World, Good(r, w), NEW p \in Path, r.modem[p] = 0,
           w.view[p] = "exact", Cardinality(Admitted(r)) < MaxModems, r.next # MaxGeneration
    PROVE  Good(Bridge!Admit(r, w, p), w)
<1> DEFINE g == r.next + 1
           n == [d \in Bridge!Detail |-> Bridge!Queried(Bridge!NewCache, d, w.detail[p][d])]
           q == Bridge!Admit(r, w, p)
<1>0. r \in Registry /\ MaxGeneration \in Nat
  BY DaemonAssumption DEF Good, Fits
<1>1. g \in Bridge!Generation /\ g \in 0..MaxGeneration /\ g \in Nat
  BY <1>0, Fields DEF Bridge!Generation
<1>2. /\ q = [r EXCEPT !.modem[p] = g, !.next = g, !.cache[g] = n]
  BY DEF Bridge!Admit
<1>3. /\ q.modem = [r.modem EXCEPT ![p] = g] /\ q.next = g
      /\ q.cache = [r.cache EXCEPT ![g] = n]
  <2> HIDE DEF g, n, q
  <2> QED BY <1>0, <1>2 DEF Registry
<1>4. ASSUME NEW d \in Bridge!Detail
      PROVE  n[d] \in Bridge!Cache /\ Right(n[d], w.detail[p][d])
  <2>1. Bridge!NewCache \in Bridge!Cache
    BY DEF Bridge!NewCache, Bridge!Cache, Bridge!Version
  <2>2. w.detail[p][d] \in Bridge!Version
    BY DEF World
  <2> QED BY <2>1, <2>2, QueriedRight
<1>5. n \in [Bridge!Detail -> Bridge!Cache]
  <2>1. n = [d \in Bridge!Detail |-> n[d]]
    OBVIOUS
  <2> HIDE DEF n
  <2> QED BY <1>4, <2>1
<1> HIDE DEF n, q
<1>6. q \in Registry
  <2>1. q.modem \in [Path -> 0..MaxGeneration]
    BY <1>0, <1>1, <1>3, Fields
  <2>2. q.cache \in [Bridge!Generation -> [Bridge!Detail -> Bridge!Cache]]
    BY <1>0, <1>1, <1>3, <1>5, Fields
  <2> HIDE DEF g
  <2> QED BY <1>0, <1>1, <1>2, <1>3, <2>1, <2>2 DEF Registry
<1>7. q.modem[p] = g /\ \A x \in Path : x # p => q.modem[x] = r.modem[x]
  BY <1>0, <1>3, Fields
<1>8. Admitted(q) = Admitted(r) \cup {p}
  BY <1>0, <1>7, Fields DEF Admitted, Bridge!Admitted
<1>9. \A x \in Admitted(r) : x # p /\ x \in Path /\ r.modem[x] \in Nat /\ r.modem[x] < g
  BY <1>0, Fields DEF Admitted, Bridge!Admitted, Good, Fits
<1>10. /\ q.cache[g] = n
       /\ \A x \in Admitted(r) : q.cache[q.modem[x]] = r.cache[r.modem[x]]
  <2>1. q.cache[g] = n
    BY <1>0, <1>1, <1>3, Fields
  <2>2. ASSUME NEW x \in Admitted(r) PROVE q.cache[q.modem[x]] = r.cache[r.modem[x]]
    <3>1. q.modem[x] = r.modem[x] /\ r.modem[x] # g /\ r.modem[x] \in Bridge!Generation
      BY <1>0, <1>1, <1>7, <1>9, Fields
    <3> QED BY <1>0, <1>3, <3>1, Fields
  <2> QED BY <2>1, <2>2
<1>11. Cardinality(Admitted(q)) <= MaxModems
  <2>1. IsFiniteSet(Admitted(r)) /\ p \notin Admitted(r)
    BY FS_Subset, DaemonAssumption DEF Admitted, Bridge!Admitted
  <2>2. Cardinality(Admitted(q)) = Cardinality(Admitted(r)) + 1 /\ Cardinality(Admitted(r)) \in Nat
    BY <1>8, <2>1, FS_AddElement, FS_CardinalityType
  <2> QED BY <2>2, DaemonAssumption
<1>12. \A x, y \in Admitted(q) : q.modem[x] = q.modem[y] => x = y
  BY <1>7, <1>8, <1>9 DEF Good, Fits
<1>13. \A x \in Path : q.modem[x] <= q.next
  <2>1. ASSUME NEW x \in Path PROVE q.modem[x] <= q.next
    <3>1. r.modem[x] <= r.next /\ r.modem[x] \in Nat /\ r.next \in Nat
      BY <1>0, Fields DEF Good, Fits
    <3> QED BY <1>3, <1>7, <3>1
  <2> QED BY <2>1
<1>14. Fits(q)
  BY <1>6, <1>11, <1>12, <1>13 DEF Fits
<1>15. Exact(q, w)
  BY <1>8 DEF Exact, Good
<1>16. Fresh(q, w)
  <2>1. SUFFICES ASSUME NEW x \in Admitted(q), NEW d \in Bridge!Detail
                 PROVE  Right(q.cache[q.modem[x]][d], w.detail[x][d])
    BY DEF Fresh
  <2>2. CASE x = p
    BY <1>4, <1>7, <1>10, <2>2
  <2>3. CASE x # p
    BY <1>8, <1>10, <2>3 DEF Fresh, Good
  <2> QED BY <2>2, <2>3
<1> QED BY <1>14, <1>15, <1>16 DEF Good, q

\* reconcile_object keeps the table good, whatever the object is.
LEMMA ReconcileGood ==
    ASSUME NEW r, NEW w \in World, Good(r, w), NEW p \in Path, NEW unlucky
    PROVE  Good(Bridge!Reconcile(r, w, p, unlucky), w)
<1>1. CASE w.view[p] # "exact"
  <2>1. Bridge!Reconcile(r, w, p, unlucky) = Bridge!Keep(r, Path \ {p})
    BY <1>1 DEF Bridge!Reconcile, Bridge!Removed
  <2> QED BY <2>1, KeepWithin, WithinGood DEF Good
<1>2. CASE w.view[p] = "exact" /\ Bridge!Reconcile(r, w, p, unlucky) = r
  BY <1>2
<1>3. CASE /\ w.view[p] = "exact" /\ r.modem[p] = 0 /\ ~(Cardinality(Admitted(r)) >= MaxModems)
           /\ r.next # MaxGeneration /\ Bridge!Reconcile(r, w, p, unlucky) = Bridge!Admit(r, w, p)
  <2>1. Cardinality(Admitted(r)) \in Nat
    BY FS_Subset, FS_CardinalityType, DaemonAssumption DEF Admitted, Bridge!Admitted
  <2>2. Cardinality(Admitted(r)) < MaxModems
    BY <1>3, <2>1, DaemonAssumption
  <2> QED BY <1>3, <2>2, AdmitGood
<1> QED
  BY <1>1, <1>2, <1>3, Sizes DEF Bridge!Reconcile, Admitted
\* So does reconcile_all: no round of it is the first to fail.
LEMMA ReconcileAllGood ==
    ASSUME NEW r, NEW w \in World, Good(r, w), NEW order \in Bridge!Orders(w), NEW unlucky
    PROVE  Good(Bridge!ReconcileAll(r, w, order, unlucky), w)
<1> DEFINE S == {p \in Path : w.view[p] # "absent"}
           N == Cardinality(S)
<1>1. N \in Nat
  BY FS_Subset, FS_CardinalityType, DaemonAssumption
<1>2. order \in [1..N -> Path]
  BY Sizes DEF Bridge!Orders, Bridge!SetToSeqs
<1> HIDE DEF N
<1>3. Len(order) = N
  BY <1>1, <1>2
<1>4. PICK h : /\ h = [n \in 0..Len(order) |->
                     IF n = 0 THEN r ELSE Bridge!Reconcile(h[n - 1], w, order[n], unlucky)]
               /\ Bridge!ReconcileAll(r, w, order, unlucky) =
                     IF w.owner THEN h[Len(order)] ELSE r
  <2>1. Len(order) \in Nat
    BY <1>1, <1>3
  <2> QED BY <2>1, Loop
<1> DEFINE T == {n \in Nat : n <= N /\ ~Good(h[n], w)}
<1>5. ASSUME T # {} PROVE FALSE
  <2>1. PICK n \in T : \A m \in T : ~(m < n)
    <3>1. T \subseteq Nat
      OBVIOUS
    <3> HIDE DEF T
    <3> QED BY <1>5, <3>1, LeastOf
  <2>2. n \in 0..N /\ ~Good(h[n], w)
    BY <1>1, <2>1
  <2>3. n # 0
    BY <1>1, <1>3, <1>4, <2>2
  <2>4. Good(h[n - 1], w)
    <3>1. n - 1 \in Nat /\ n - 1 < n /\ n - 1 <= N
      BY <1>1, <2>2, <2>3
    <3>2. n - 1 \notin T
      <4> HIDE DEF T
      <4> QED BY <2>1, <3>1
    <3> QED BY <3>1, <3>2
  <2>5. h[n] = Bridge!Reconcile(h[n - 1], w, order[n], unlucky)
    BY <1>3, <1>4, <2>2, <2>3
  <2>6. order[n] \in Path
    BY <1>1, <1>2, <2>2, <2>3
  <2> QED BY <2>2, <2>4, <2>5, <2>6, ReconcileGood
<1>6. Good(h[N], w)
  BY <1>1, <1>5
<1> QED BY <1>3, <1>4, <1>6

-----------------------------------------------------------------------------

\* An empty table is good in any world.
LEMMA EmptyGood ==
    ASSUME NEW r, NEW w, Fits(r), Admitted(r) = {}
    PROVE  Good(r, w)
BY DEF Good, Exact, Fresh

\* clear_modems leaves a good one.
LEMMA ClearedGood ==
    ASSUME NEW r, NEW w, Fits(r)
    PROVE  Good(Bridge!Cleared(r), w) /\ Admitted(Bridge!Cleared(r)) = {}
<1>1. Fits(Bridge!Cleared(r)) /\ Admitted(Bridge!Cleared(r)) = {}
  BY KeepWithin DEF Bridge!Cleared
<1> QED BY <1>1, EmptyGood

\* A cache of an admitted modem may be replaced by one that is right.
LEMMA CacheGood ==
    ASSUME NEW r, NEW w, Fits(r), Exact(r, w),
           NEW p \in Admitted(r), NEW d \in Bridge!Detail, NEW c \in Bridge!Cache,
           Right(c, w.detail[p][d]),
           \A x \in Admitted(r), e \in Bridge!Detail :
               <<x, e>> # <<p, d>> => Right(r.cache[r.modem[x]][e], w.detail[x][e])
    PROVE  Good([r EXCEPT !.cache[r.modem[p]][d] = c], w)
<1> DEFINE g == r.modem[p]
           q == [r EXCEPT !.cache[g][d] = c]
<1>0. r \in Registry /\ g \in Bridge!Generation /\ p \in Path
  BY Fields DEF Fits
<1>1. q.modem = r.modem /\ q.next = r.next /\ q.cache = [r.cache EXCEPT ![g][d] = c]
  <2> HIDE DEF g
  <2> QED BY <1>0 DEF Registry
<1>2. q.cache \in [Bridge!Generation -> [Bridge!Detail -> Bridge!Cache]]
  <2> HIDE DEF g, q
  <2> QED BY <1>0, <1>1, Fields
<1>3. q \in Registry
  <2> HIDE DEF g
  <2> QED BY <1>0, <1>1, <1>2 DEF Registry
<1>4. \A x \in Bridge!Generation, e \in Bridge!Detail :
        q.cache[x][e] = IF x = g /\ e = d THEN c ELSE r.cache[x][e]
  <2> HIDE DEF g, q
  <2> QED BY <1>0, <1>1, Fields
<1> HIDE DEF q
<1>5. Admitted(q) = Admitted(r)
  BY <1>1 DEF Admitted, Bridge!Admitted
<1>6. Fits(q) /\ Exact(q, w)
  BY <1>1, <1>3, <1>5 DEF Fits, Exact
<1>7. Fresh(q, w)
  <2>1. SUFFICES ASSUME NEW x \in Admitted(r), NEW e \in Bridge!Detail
                 PROVE  Right(q.cache[r.modem[x]][e], w.detail[x][e])
    BY <1>1, <1>5 DEF Fresh
  <2>2. r.modem[x] \in Bridge!Generation /\ (r.modem[x] = g => x = p)
    BY <1>0, Fields DEF Fits
  <2>3. CASE x = p /\ e = d
    BY <1>4, <2>2, <2>3
  <2>4. CASE ~(x = p /\ e = d)
    <3>1. q.cache[r.modem[x]][e] = r.cache[r.modem[x]][e]
      BY <1>4, <2>2, <2>4
    <3> QED BY <2>4, <3>1
  <2> QED BY <2>3, <2>4
<1> QED BY <1>6, <1>7 DEF Good, q

-----------------------------------------------------------------------------
(* The registry in the daemon.                                             *)

\* What is in the table is there because a manager is attached to a running
\* ModemManager, whose objects are gone when it is.
Stocked ==
    /\ world \in World
    /\ \A p \in Path : ~world.owner => world.view[p] = "absent"
    /\ Good(registry, world)
    /\ Admitted(registry) # {} => manager # 0 /\ world.owner /\ phase # "stopped"

\* The invariant is what the two properties ask for.
LEMMA StockedIsCurrent == Inv /\ Stocked => InventoryCurrent /\ DetailsSettle
<1> SUFFICES ASSUME Inv, Stocked PROVE InventoryCurrent /\ DetailsSettle
  OBVIOUS
<1>1. Admitted(registry) = {p \in Path : registry.modem[p] # 0}
  BY DEF Admitted, Bridge!Admitted
<1>2. InventoryCurrent
  BY <1>1 DEF Inv, Attempts, Stocked, Good, Fits, Exact, InventoryCurrent
<1>3. DetailsSettle
  BY <1>1 DEF Stocked, Good, Fresh, Right, Bridge!Detail, DetailsSettle
<1> QED BY <1>2, <1>3

\* The bridge starts with an empty table.
LEMMA InitStocked == Init => Stocked
<1> SUFFICES ASSUME Init PROVE Stocked
  OBVIOUS
<1>1. world \in World /\ \A p \in Path : ~world.owner => world.view[p] = "absent"
  BY DEF Init, Bridge!Init, World, Bridge!Version
<1>2. registry \in Registry /\ Admitted(registry) = {} /\ registry.next = 0
  BY DaemonAssumption
  DEF Init, Bridge!Init, Registry, Admitted, Bridge!Admitted, Bridge!NewCache, Bridge!Cache,
      Bridge!Version
<1>3. \A p \in Path : registry.modem[p] <= registry.next
  BY DEF Init, Bridge!Init
<1>4. Fits(registry)
  BY <1>2, <1>3, FS_EmptySet, DaemonAssumption DEF Fits
<1> QED BY <1>1, <1>2, <1>4, EmptyGood DEF Stocked

\* A step that leaves the table and ModemManager alone.
LEMMA StockedKept ==
    ASSUME Stocked, UNCHANGED <<world, registry>>, manager # 0 => manager' # 0,
           phase # "stopped" => phase' # "stopped"
    PROVE  Stocked'
BY DEF Stocked

\* A step that empties the table.
LEMMA StockedCleared ==
    ASSUME Stocked, UNCHANGED world, registry' = Bridge!Cleared(registry) PROVE Stocked'
<1>1. Good(registry', world) /\ Admitted(registry') = {}
  BY ClearedGood DEF Stocked, Good
<1> QED BY <1>1 DEF Stocked

\* A handler that runs with a manager attached may leave any good table.
LEMMA HandlerStocked ==
    ASSUME Stocked, world' \in World,
           \A p \in Path : ~world'.owner => world'.view[p] = "absent",
           NEW r, Bridge!Handled(r), Good(r, world'), world'.owner \/ Admitted(r) = {},
           UNCHANGED <<manager, phase>>, phase = "running"
    PROVE  Stocked'
<1>1. CASE manager # 0
  BY <1>1 DEF Bridge!Handled, Stocked
<1>2. CASE manager = 0
  <2>1. registry' = registry /\ Admitted(registry) = {}
    BY <1>2 DEF Bridge!Handled, Stocked
  <2>2. Good(registry, world')
    BY <2>1, EmptyGood DEF Stocked, Good
  <2> QED BY <2>1, <2>2 DEF Stocked
<1> QED BY <1>1, <1>2

\* ModemManager after one of its objects changes.
LEMMA ViewChanged ==
    ASSUME NEW w \in World, NEW p \in Path, NEW v \in {"absent", "other", "exact"},
           NEW u, u = [w EXCEPT !.view[p] = v]
    PROVE  /\ u \in World /\ u.owner = w.owner /\ u.detail = w.detail /\ u.view[p] = v
           /\ \A q \in Path : q # p => u.view[q] = w.view[q]
BY DEF World

\* An object appears or changes what it is.
LEMMA ObjectStocked ==
    ASSUME Stocked, NEW p \in Path, NEW v \in {"other", "exact"}, NEW unlucky,
           Bridge!ObjectChanges(p, v, unlucky), UNCHANGED phase, phase = "running"
    PROVE  Stocked'
<1>1. /\ world' = [world EXCEPT !.view[p] = v] /\ world.owner /\ world.view[p] # v
      /\ Bridge!Handled(Bridge!Reconcile(registry, world', p, unlucky))
      /\ UNCHANGED <<manager, phase>>
  BY DEF Bridge!ObjectChanges, Bridge!attempt
<1>2. /\ world' \in World /\ world'.owner /\ world'.detail = world.detail /\ world'.view[p] = v
      /\ \A q \in Path : q # p => world'.view[q] = world.view[q]
  BY <1>1, ViewChanged DEF Stocked
<1>3. Fits(registry) /\ Exact(registry, world) /\ Fresh(registry, world')
  BY <1>2 DEF Stocked, Good, Fresh
<1>4. Good(Bridge!Reconcile(registry, world', p, unlucky), world')
  <2>1. CASE v = "exact"
    <3>1. p \notin Admitted(registry)
      BY <1>1, <1>3, <2>1 DEF Exact
    <3>2. Exact(registry, world')
      BY <1>2, <1>3, <3>1 DEF Exact, Admitted, Bridge!Admitted
    <3> QED BY <1>2, <1>3, <3>2, ReconcileGood DEF Good
  <2>2. CASE v # "exact"
    <3> DEFINE r == Bridge!Keep(registry, Path \ {p})
    <3>1. Bridge!Reconcile(registry, world', p, unlucky) = r
      BY <1>2, <2>2 DEF Bridge!Reconcile, Bridge!Removed
    <3>2. Fits(r) /\ Within(r, registry) /\ Admitted(r) = Admitted(registry) \cap (Path \ {p})
      BY <1>3, KeepWithin
    <3> HIDE DEF r
    <3>3. Exact(r, world')
      BY <1>2, <1>3, <3>2 DEF Exact
    <3>4. Fresh(r, world')
      BY <1>3, <3>2 DEF Fresh, Within
    <3> QED BY <3>1, <3>2, <3>3, <3>4 DEF Good
  <2> QED BY <2>1, <2>2
<1> QED BY <1>1, <1>2, <1>4, HandlerStocked

\* An object goes.
LEMMA RemovedStocked ==
    ASSUME Stocked, NEW p \in Path, Bridge!ObjectRemoved(p), UNCHANGED phase, phase = "running"
    PROVE  Stocked'
<1> DEFINE r == Bridge!Keep(registry, Path \ {p})
<1>1. /\ world' = [world EXCEPT !.view[p] = "absent"] /\ Bridge!Handled(r)
      /\ UNCHANGED <<manager, phase>> /\ world.view[p] # "absent"
  BY DEF Bridge!ObjectRemoved, Bridge!Removed, Bridge!attempt
<1>2. /\ world' \in World /\ world'.owner = world.owner /\ world'.detail = world.detail
      /\ \A q \in Path : q # p => world'.view[q] = world.view[q]
  BY <1>1, ViewChanged DEF Stocked
<1>3. Fits(r) /\ Within(r, registry) /\ Admitted(r) = Admitted(registry) \cap (Path \ {p})
  BY KeepWithin DEF Stocked, Good
<1> HIDE DEF r
<1>4. Good(r, world')
  <2>1. Exact(r, world')
    BY <1>2, <1>3 DEF Exact, Stocked, Good
  <2>2. Fresh(r, world')
    BY <1>2, <1>3 DEF Fresh, Within, Stocked, Good
  <2> QED BY <1>3, <2>1, <2>2 DEF Good
<1>5. world'.owner
  BY <1>1, <1>2 DEF Stocked
<1> QED BY <1>1, <1>2, <1>4, <1>5, HandlerStocked

\* A detail of an object changes: the query for it follows in the same step.
LEMMA DetailStocked ==
    ASSUME Stocked, NEW p \in Path, NEW d \in Bridge!Detail, NEW unlucky,
           Bridge!DetailChanges(p, d, unlucky), UNCHANGED phase, phase = "running"
    PROVE  Stocked'
<1> DEFINE r == Bridge!Reconcile(registry, world', p, unlucky)
           g == r.modem[p]
           q == IF g = 0 THEN r
                ELSE [r EXCEPT !.cache[g][d] = Bridge!Queried(@, d, world'.detail[p][d])]
<1>1. /\ world' = [world EXCEPT !.detail[p][d] = 1 - @] /\ Bridge!Handled(q)
      /\ UNCHANGED <<manager, phase>> /\ world.view[p] # "absent"
  BY DEF Bridge!DetailChanges, Bridge!attempt
<1>2. /\ world' \in World /\ world'.owner = world.owner /\ world'.view = world.view
      /\ \A x \in Path, e \in Bridge!Detail :
           <<x, e>> # <<p, d>> => world'.detail[x][e] = world.detail[x][e]
  <2>1. world \in World /\ 1 - world.detail[p][d] \in Bridge!Version
    BY DEF Stocked, World, Bridge!Version
  <2> QED BY <1>1, <2>1 DEF World
<1>3. Good(registry, world)
  BY DEF Stocked
<1>4. world.owner
  BY <1>1 DEF Stocked
<1>5. \A x \in Admitted(registry), e \in Bridge!Detail :
        <<x, e>> # <<p, d>> => Right(registry.cache[registry.modem[x]][e], world'.detail[x][e])
  BY <1>2, <1>3 DEF Good, Fresh, Admitted, Bridge!Admitted
<1>6. Exact(registry, world')
  BY <1>2, <1>3 DEF Good, Exact
<1>7. /\ Fits(r) /\ Exact(r, world')
      /\ \A x \in Admitted(r), e \in Bridge!Detail :
           <<x, e>> # <<p, d>> => Right(r.cache[r.modem[x]][e], world'.detail[x][e])
  <2>1. CASE p \in Admitted(registry)
    <3>1. r = registry
      BY <1>6, <2>1 DEF Exact, Bridge!Reconcile, Admitted, Bridge!Admitted
    <3> HIDE DEF r
    <3> QED BY <1>3, <1>5, <1>6, <3>1 DEF Good
  <2>2. CASE p \notin Admitted(registry)
    <3>1. Fresh(registry, world')
      BY <1>5, <2>2 DEF Fresh
    <3>2. Good(r, world')
      BY <1>2, <1>3, <1>6, <3>1, ReconcileGood DEF Good
    <3> HIDE DEF r
    <3> QED BY <3>2 DEF Good, Fresh
  <2> QED BY <2>1, <2>2
<1> HIDE DEF r
<1>8. Good(q, world')
  <2>1. CASE g = 0
    <3>1. p \notin Admitted(r)
      BY <2>1 DEF Admitted, Bridge!Admitted
    <3>2. Fresh(r, world')
      BY <1>7, <3>1 DEF Fresh
    <3> QED BY <1>7, <2>1, <3>2 DEF Good
  <2>2. CASE g # 0
    <3> DEFINE c == Bridge!Queried(r.cache[g][d], d, world'.detail[p][d])
    <3>1. p \in Admitted(r) /\ r \in Registry
      BY <1>7, <2>2 DEF Fits, Admitted, Bridge!Admitted
    <3>2. r.cache[g][d] \in Bridge!Cache /\ world'.detail[p][d] \in Bridge!Version
      BY <1>2, <3>1, Fields DEF World
    <3>3. c \in Bridge!Cache /\ Right(c, world'.detail[p][d])
      BY <3>2, QueriedRight
    <3>4. q = [r EXCEPT !.cache[g][d] = c]
      BY <2>2
    <3> HIDE DEF c, q
    <3> QED BY <1>7, <3>1, <3>3, <3>4, CacheGood
  <2> QED BY <2>1, <2>2
<1> HIDE DEF q
<1> QED BY <1>1, <1>2, <1>4, <1>8, HandlerStocked

\* ModemManager goes, or comes.
LEMMA OwnerStocked ==
    ASSUME Stocked, UNCHANGED phase, phase = "running",
           \/ Bridge!OwnerLost
           \/ \E view \in [Path -> {"absent", "other", "exact"}], unlucky \in SUBSET Path :
                Bridge!OwnerFound(view, unlucky)
    PROVE  Stocked'
<1>1. CASE Bridge!OwnerLost
  <2>1. /\ world' = [world EXCEPT !.owner = FALSE, !.view = [p \in Path |-> "absent"]]
        /\ Bridge!Handled(Bridge!Cleared(registry)) /\ UNCHANGED <<manager, phase>>
    BY <1>1 DEF Bridge!OwnerLost, Bridge!attempt
  <2>2. world' \in World /\ \A p \in Path : world'.view[p] = "absent"
    BY <2>1 DEF Stocked, World
  <2>3. Good(Bridge!Cleared(registry), world') /\ Admitted(Bridge!Cleared(registry)) = {}
    BY ClearedGood DEF Stocked, Good
  <2> QED BY <2>1, <2>2, <2>3, HandlerStocked
<1>2. ASSUME NEW view \in [Path -> {"absent", "other", "exact"}], NEW unlucky \in SUBSET Path,
             Bridge!OwnerFound(view, unlucky)
      PROVE  Stocked'
  <2>1. /\ world' = [world EXCEPT !.owner = TRUE, !.view = view] /\ ~world.owner
        /\ UNCHANGED <<manager, phase>>
    BY <1>2 DEF Bridge!OwnerFound, Bridge!attempt
  <2>2. PICK order \in Bridge!Orders(world') :
          Bridge!Handled(Bridge!ReconcileAll(registry, world', order, unlucky))
    BY <1>2 DEF Bridge!OwnerFound
  <2>3. world' \in World /\ world'.owner
    BY <2>1 DEF Stocked, World
  <2>4. Good(registry, world')
    BY <2>1, EmptyGood DEF Stocked, Good
  <2>5. Good(Bridge!ReconcileAll(registry, world', order, unlucky), world')
    BY <2>3, <2>4, ReconcileAllGood
  <2> QED BY <2>1, <2>2, <2>3, <2>5, HandlerStocked
<1> QED BY <1>1, <1>2

\* sim_ready and bearers_ready, also of a modem that has left the table.
LEMMA ReadyStocked ==
    ASSUME Stocked, NEW g \in Bridge!Generation, NEW d \in Bridge!Detail, NEW ok \in BOOLEAN,
           Bridge!DetailReady(g, d, ok), UNCHANGED phase
    PROVE  Stocked'
<1> DEFINE c == registry.cache[g][d]
           at == {p \in Path : registry.modem[p] = g}
           answered == [c EXCEPT !.pending = FALSE, !.dirty = FALSE,
                                 !.state = IF ok THEN "ready" ELSE "unavailable",
                                 !.value = IF ok THEN c.asked ELSE 0]
           n == IF at = {} THEN [c EXCEPT !.pending = FALSE, !.dirty = FALSE]
                ELSE IF ~c.dirty THEN answered
                ELSE Bridge!Queried(answered, d, world.detail[CHOOSE p \in at : TRUE][d])
           r == [registry EXCEPT !.cache[g][d] = n]
<1>1. c.pending /\ registry' = Bridge!Keep(r, Path) /\ UNCHANGED <<world, manager>>
  BY DEF Bridge!DetailReady, Bridge!attempt
<1>2. Good(registry, world) /\ registry \in Registry /\ world \in World /\ c \in Bridge!Cache
  BY Fields DEF Stocked, Good, Fits
<1>3. Good(r, world) /\ Admitted(r) = Admitted(registry)
  <2>1. Admitted(r) = Admitted(registry)
    <3> HIDE DEF n
    <3> QED BY <1>2 DEF Registry, Admitted, Bridge!Admitted
  <2>2. CASE at = {}
    <3>1. n \in Bridge!Cache
      BY <1>2, <2>2 DEF Bridge!Cache
    <3> HIDE DEF n
    <3>2. r.modem = registry.modem /\ r.next = registry.next
          /\ r.cache = [registry.cache EXCEPT ![g][d] = n]
      BY <1>2 DEF Registry
    <3>3. r.cache \in [Bridge!Generation -> [Bridge!Detail -> Bridge!Cache]]
      <4> HIDE DEF r
      <4> QED BY <1>2, <3>1, <3>2, Fields
    <3>4. r \in Registry
      BY <1>2, <3>3 DEF Registry
    <3>5. \A x \in Admitted(registry) : r.cache[r.modem[x]] = registry.cache[registry.modem[x]]
      <4>1. ASSUME NEW x \in Admitted(registry)
            PROVE  r.cache[r.modem[x]] = registry.cache[registry.modem[x]]
        <5>1. registry.modem[x] # g /\ registry.modem[x] \in Bridge!Generation
          BY <1>2, <2>2, Fields
        <5> HIDE DEF r
        <5> QED BY <1>2, <3>2, <5>1, Fields
      <4> QED BY <4>1
    <3> HIDE DEF r
    <3>6. Fits(r) /\ Within(r, registry)
      BY <1>2, <2>1, <3>2, <3>4, <3>5 DEF Good, Fits, Within
    <3> QED BY <1>2, <2>1, <3>6, WithinGood DEF Good
  <2>3. CASE at # {}
    <3> DEFINE p == CHOOSE p \in at : TRUE
    <3>1. p \in Path /\ registry.modem[p] = g
      BY <2>3
    <3> HIDE DEF p
    <3>2. p \in Admitted(registry)
      BY <3>1 DEF Admitted, Bridge!Admitted, Bridge!Generation
    <3>3. Right(c, world.detail[p][d]) /\ world.detail[p][d] \in Bridge!Version
      BY <1>2, <3>1, <3>2 DEF Good, Fresh, World
    <3>4. /\ answered \in Bridge!Cache
          /\ ~c.dirty => Right(answered, world.detail[p][d])
      <4>1. c.asked \in Bridge!Version /\ 0 \in Bridge!Version
        BY <1>2 DEF Bridge!Cache, Bridge!Version
      <4> HIDE DEF c
      <4>2. answered \in Bridge!Cache
        BY <1>2, <4>1 DEF Bridge!Cache
      <4>3. /\ ~answered.pending
            /\ answered.state = "unavailable" \/ answered.value = c.asked
        BY <1>2 DEF Bridge!Cache
      <4>4. ~c.dirty => c.asked = world.detail[p][d]
        BY <1>1, <3>3 DEF Right
      <4> HIDE DEF answered
      <4> QED BY <4>2, <4>3, <4>4 DEF Right
    <3> HIDE DEF answered
    <3>5. n \in Bridge!Cache /\ Right(n, world.detail[p][d])
      <4>1. CASE ~c.dirty
        BY <2>3, <3>4, <4>1
      <4>2. CASE c.dirty
        <5>1. n = Bridge!Queried(answered, d, world.detail[p][d])
          BY <2>3, <4>2 DEF p
        <5> HIDE DEF n
        <5> QED BY <3>3, <3>4, <5>1, QueriedRight
      <4> QED BY <4>1, <4>2
    <3> HIDE DEF n
    <3>6. Good([registry EXCEPT !.cache[registry.modem[p]][d] = n], world)
      BY <1>2, <3>2, <3>5, CacheGood DEF Good, Fresh
    <3> QED BY <2>1, <3>1, <3>6
  <2> QED BY <2>2, <2>3
<1> HIDE DEF r
<1>4. Good(registry', world) /\ Admitted(registry') = Admitted(registry)
  <2>1. /\ Fits(registry') /\ Within(registry', r)
        /\ Admitted(registry') = Admitted(r) \cap Path
    BY <1>1, <1>3, KeepWithin DEF Good
  <2>2. Good(registry', world)
    BY <1>3, <2>1, WithinGood DEF Good
  <2> QED BY <1>3, <2>1, <2>2 DEF Admitted, Bridge!Admitted
<1> QED BY <1>1, <1>4 DEF Stocked

\* The answers of mm_manager_new.
LEMMA ManagerStocked ==
    ASSUME Inv, Stocked, NEW s \in managerCalls, NEW ok \in BOOLEAN,
           NEW order \in Bridge!Orders(world), NEW unlucky,
           Bridge!ManagerReady(s, ok, order, unlucky), UNCHANGED phase, phase = "running"
    PROVE  Stocked'
<1>1. UNCHANGED world
  BY DEF Bridge!ManagerReady
<1>2. CASE UNCHANGED <<manager, registry>>
  BY <1>1, <1>2, StockedKept
<1>3. CASE /\ Bridge!Awaited(s) /\ manager' = s
           /\ registry' = Bridge!ReconcileAll(registry, world, order, unlucky)
  <2>1. manager' # 0
    BY <1>3 DEF Bridge!Awaited, Inv, Attempts
  <2>2. Good(registry', world)
    BY <1>3, ReconcileAllGood DEF Stocked
  <2>3. ~world.owner => registry' = registry
    BY <1>3 DEF Bridge!ReconcileAll
  <2>4. Admitted(registry') # {} => world.owner
    BY <2>3 DEF Stocked
  <2> QED BY <1>1, <2>1, <2>2, <2>4 DEF Stocked
<1>4. CASE Bridge!ClearManagerConnection
  BY <1>1, <1>4, StockedCleared DEF Bridge!ClearManagerConnection
<1> QED
  BY <1>2, <1>3, <1>4 DEF Bridge!ManagerReady

\* The 30-second timer.
LEMMA TimerStocked ==
    ASSUME Stocked, NEW unlucky, Bridge!ReconcileTimer(unlucky), UNCHANGED phase,
           phase = "running"
    PROVE  Stocked'
<1>1. PICK order \in Bridge!Orders(world) :
        registry' = Bridge!ReconcileAll(registry, world, order, unlucky)
  BY DEF Bridge!ReconcileTimer
<1>2. Good(registry', world)
  BY <1>1, ReconcileAllGood DEF Stocked
<1>3. manager # 0 /\ world.owner /\ UNCHANGED <<world, manager>>
  BY DEF Bridge!ReconcileTimer, Bridge!attempt
<1> QED BY <1>2, <1>3 DEF Stocked

\* Every callback of the bridge, which runs in the main loop only.
LEMMA BridgeStocked ==
    ASSUME Inv, Stocked, Bridge!BridgeNext, UNCHANGED phase, phase = "running"
    PROVE  Stocked'
<1>1. CASE Bridge!Calls
  <2>1. ASSUME NEW s \in busCalls, NEW ok \in BOOLEAN, Bridge!BusReady(s, ok) PROVE Stocked'
    BY <2>1, StockedKept DEF Bridge!BusReady
  <2>2. ASSUME NEW s \in managerCalls, NEW ok \in BOOLEAN, NEW order \in Bridge!Orders(world),
               NEW unlucky \in SUBSET Path, Bridge!ManagerReady(s, ok, order, unlucky)
        PROVE  Stocked'
    BY <2>2, ManagerStocked
  <2> QED BY <1>1, <2>1, <2>2 DEF Bridge!Calls
<1>2. CASE Bridge!DetailCalls
  BY <1>2, ReadyStocked DEF Bridge!DetailCalls
<1>3. CASE Bridge!Changes
  BY <1>3, ObjectStocked, DetailStocked, RemovedStocked, OwnerStocked DEF Bridge!Changes
<1>4. CASE Bridge!Timer
  BY <1>4, TimerStocked DEF Bridge!Timer
<1>5. CASE Bridge!RetryFires \/ Bridge!ConnectionCloses
  BY <1>5, StockedKept DEF Bridge!RetryFires, Bridge!ConnectionCloses
<1>6. CASE Bridge!ConnectionClosed
  BY <1>6, StockedCleared DEF Bridge!ConnectionClosed, Bridge!ClearManagerConnection
<1> QED
  BY <1>1, <1>2, <1>3, <1>4, <1>5, <1>6 DEF Bridge!BridgeNext

\* Every step of the daemon keeps the table in order.
LEMMA NextStocked == Inv /\ Stocked /\ [Next]_vars => Stocked'
<1> SUFFICES ASSUME Inv, Stocked, [Next]_vars PROVE Stocked'
  OBVIOUS
<1>1. CASE UNCHANGED vars
  BY <1>1, StockedKept DEF vars, bridgeVars
<1>2. CASE Start
  BY <1>2, StockedKept DEF Start, bridgeVars
<1>3. CASE Run /\ Bridge!BridgeNext
  BY <1>3, BridgeStocked DEF Run
<1>4. CASE Run /\ UNCHANGED bridgeVars
  BY <1>4, StockedKept DEF Run, bridgeVars
<1>5. CASE Quit
  BY <1>5, StockedCleared DEF Quit, Bridge!Stop, Bridge!ClearManagerConnection
<1> QED
  BY <1>1, <1>2, <1>3, <1>4, <1>5 DEF Next, Run

\* The two invariants hold together.
LEMMA Always == Spec => [](Inv /\ Stocked)
BY InitInv, InitStocked, NextInv, NextStocked, PTL DEF Spec

(***************************************************************************)
(* The inventory shows exact objects of the attached manager only, no more *)
(* than MAX_ADMITTED_MODEMS and each under a generation of its own, and    *)
(* the manager is of the current connection and of the last attempt: no    *)
(* answer to an abandoned attempt attaches anything (bus_ready,            *)
(* manager_ready, reconcile_object, reconcile_all).                        *)
(***************************************************************************)
THEOREM InventoryHolds == Spec => []InventoryCurrent
BY Always, StockedIsCurrent, PTL

(***************************************************************************)
(* When no query for it is under way and the last one did not fail, the    *)
(* cached SIM or bearer list of a modem is the one ModemManager has, also  *)
(* if it changed during a query and although structures of removed modems  *)
(* still get answers (query_sim, sim_ready, query_bearers, bearers_ready). *)
(***************************************************************************)
THEOREM DetailsHold == Spec => []DetailsSettle
BY Always, StockedIsCurrent, PTL
=============================================================================
