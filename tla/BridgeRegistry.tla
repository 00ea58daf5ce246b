--------------------------- MODULE BridgeRegistry ---------------------------
(***************************************************************************)
(* The connection of the daemon to ModemManager and the registry of modems *)
(* (bridge.c): g_bus_get, mm_manager_new, a retry 5 s after any failure,   *)
(* and an inventory keyed by object path that follows the manager's        *)
(* signals and is reconciled every 30 s.  Each admitted modem caches its   *)
(* SIM and its bearers by asynchronous queries.                            *)
(*                                                                         *)
(* GDBus and ModemManager are external.  An object is "exact" if           *)
(* is_exact_l850gl accepts it.  A connection and the calls made for it are *)
(* named by the connect_serial of the attempt; 64 bits never wrap.  The    *)
(* messaging part of a modem is modelled by SmsSend and SmsCache.          *)
(***************************************************************************)
EXTENDS Naturals, SequencesExt

CONSTANTS
    Path,          \* object paths of ModemManager
    MaxModems,     \* MAX_ADMITTED_MODEMS
    MaxGeneration  \* G_MAXUINT32, the last generation

VARIABLES
    serial,        \* connect_serial
    connection,    \* 0, or the serial of the attempt that made it
    closed,        \* it is closed and its "closed" signal is still to come
    pending,       \* connect_pending
    retry,         \* retry_source is armed
    manager,       \* 0, or the serial of the attempt that made it
    busCalls, managerCalls,  \* g_bus_get and mm_manager_new under way
    world,         \* ModemManager: its owner, objects and their details
    registry,      \* modems_by_path, next_generation and the modems' caches
    budget         \* how many faults and changes are still to come

attempt == <<serial, connection, closed, pending, retry, manager, busCalls, managerCalls>>

Generation == 1..MaxGeneration

Detail == {"sim", "bearers"}

\* A detail is a version of what ModemManager offers; SIM path "/" is 0.
Version == 0..1

Cache == [pending : BOOLEAN, dirty : BOOLEAN, asked : Version,
          state : {"loading", "ready", "absent", "unavailable"}, value : Version]

NewCache == [pending |-> FALSE, dirty |-> FALSE, asked |-> 0,
             state |-> "loading", value |-> 0]

TypeOK ==
    /\ serial \in Nat /\ {connection, manager} \subseteq 0..serial
    /\ {closed, pending, retry} \subseteq BOOLEAN
    /\ busCalls \subseteq 1..serial /\ managerCalls \subseteq 1..serial
    /\ world \in [owner : BOOLEAN, view : [Path -> {"absent", "other", "exact"}],
                  detail : [Path -> [Detail -> Version]]]
    /\ registry \in [modem : [Path -> 0..MaxGeneration], next : 0..MaxGeneration,
                     cache : [Generation -> [Detail -> Cache]]]

\* l850gl_bridge_new and l850gl_bridge_start; ModemManager may not be there yet
\* or may have an L850 modem at every path.
Init ==
    /\ serial = 1 /\ connection = 0 /\ closed = FALSE
    /\ pending = TRUE /\ retry = FALSE /\ manager = 0
    /\ busCalls = {1} /\ managerCalls = {}
    /\ \E o \in BOOLEAN :
         world = [owner |-> o, view |-> [p \in Path |-> IF o THEN "exact" ELSE "absent"],
                  detail |-> [p \in Path |-> [d \in Detail |-> 1]]]
    /\ registry = [modem |-> [p \in Path |-> 0], next |-> 0,
                   cache |-> [g \in Generation |-> [d \in Detail |-> NewCache]]]

Spend(happens) ==
    /\ happens => budget > 0
    /\ budget' = IF happens THEN budget - 1 ELSE budget

-----------------------------------------------------------------------------
(* The registry, as functions of its record r and of ModemManager w.       *)

Admitted(r) == {p \in Path : r.modem[p] # 0}

\* l850gl_modem_unref: a structure goes with the last call that refers to it.
Unused == [d \in Detail |-> NewCache]

Unref(caches, live) ==
    [g \in Generation |->
        IF g \notin live /\ \A d \in Detail : ~caches[g][d].pending THEN Unused ELSE caches[g]]

\* remove_path and clear_modems: the paths that stay.
Keep(r, paths) ==
    [r EXCEPT !.modem = [p \in Path |-> IF p \in paths THEN @[p] ELSE 0],
              !.cache = Unref(@, {r.modem[p] : p \in paths})]

Removed(r, p) == Keep(r, Path \ {p})

Cleared(r) == Keep(r, {})

\* Mutant: a change during a query is not remembered.
QueriedForgetful(c, d, version) ==
    IF c.pending THEN c
    ELSE IF d = "sim" /\ version = 0 THEN [c EXCEPT !.state = "absent", !.value = 0]
    ELSE [c EXCEPT !.pending = TRUE, !.state = "loading", !.asked = version]

\* query_sim, query_bearers
Queried(c, d, version) ==
    IF c.pending THEN [c EXCEPT !.dirty = TRUE]
    ELSE IF d = "sim" /\ version = 0 THEN [c EXCEPT !.state = "absent", !.value = 0]
    ELSE [c EXCEPT !.pending = TRUE, !.state = "loading", !.asked = version]

\* The end of reconcile_object: a new structure and its first queries.
Admit(r, w, p) ==
    LET g == r.next + 1
    IN  [r EXCEPT !.modem[p] = g, !.next = g,
                  !.cache[g] = [d \in Detail |-> Queried(NewCache, d, w.detail[p][d])]]

\* reconcile_object; unlucky are the paths for which new_modem_id fails.
Reconcile(r, w, p, unlucky) ==
    IF w.view[p] # "exact" THEN Removed(r, p)
    ELSE IF \/ r.modem[p] # 0
            \/ Cardinality(Admitted(r)) >= MaxModems
            \/ r.next = MaxGeneration
            \/ p \in unlucky THEN r
    ELSE Admit(r, w, p)

\* reconcile_all, in the order in which the manager lists its objects.
ReconcileAll(r, w, order, unlucky) ==
    LET after[n \in 0..Len(order)] ==
            IF n = 0 THEN r ELSE Reconcile(after[n - 1], w, order[n], unlucky)
    IN  IF w.owner THEN after[Len(order)] ELSE r

Orders(w) == SetToSeqs({p \in Path : w.view[p] # "absent"})

-----------------------------------------------------------------------------
(* Connecting.                                                             *)

\* clear_manager_connection
ClearManagerConnection ==
    /\ connection' = 0 /\ closed' = FALSE /\ manager' = 0
    /\ registry' = Cleared(registry)

\* bridge_connect, after retry_connect_cb forgot its source.
BridgeConnect ==
    /\ retry' = FALSE
    /\ IF manager = 0 /\ connection = 0 /\ ~pending
         THEN serial' = serial + 1 /\ pending' = TRUE /\ busCalls' = busCalls \cup {serial + 1}
         ELSE UNCHANGED <<serial, pending, busCalls>>

RetryFires ==
    /\ retry
    /\ BridgeConnect
    /\ UNCHANGED <<connection, closed, manager, managerCalls, world, registry, budget>>

\* bus_ready; ok unless there is no connection or it is closed already.
BusReady(s, ok) ==
    /\ s \in busCalls
    /\ busCalls' = busCalls \ {s}
    /\ Spend(~ok)
    /\ IF s # serial THEN UNCHANGED <<connection, pending, retry, managerCalls>>
       ELSE /\ pending' = FALSE
            /\ IF ok THEN connection' = s /\ managerCalls' = managerCalls \cup {s} /\ UNCHANGED retry
                     ELSE retry' = TRUE /\ UNCHANGED <<connection, managerCalls>>
    /\ UNCHANGED <<serial, closed, manager, world, registry>>

\* Mutant: the answer of any attempt is taken.
AwaitedAny(s) == connection # 0 /\ ~closed

\* The first test of manager_ready.
Awaited(s) == s = serial /\ connection = s /\ ~closed

ManagerReady(s, ok, order, unlucky) ==
    /\ s \in managerCalls
    /\ managerCalls' = managerCalls \ {s}
    /\ Spend(~ok \/ unlucky # {})
    /\ \/ ~Awaited(s) /\ UNCHANGED <<serial, connection, closed, retry, manager, registry>>
       \/ /\ Awaited(s) /\ ok
          /\ manager' = s
          /\ registry' = ReconcileAll(registry, world, order, unlucky)
          /\ UNCHANGED <<serial, connection, closed, retry>>
       \/ /\ Awaited(s) /\ ~ok
          /\ serial' = serial + 1 /\ retry' = TRUE
          /\ ClearManagerConnection
    /\ UNCHANGED <<pending, busCalls, world>>

\* External: the system bus closes the connection.
ConnectionCloses ==
    /\ connection # 0 /\ ~closed /\ Spend(TRUE)
    /\ closed' = TRUE
    /\ UNCHANGED <<serial, connection, pending, retry, manager, busCalls, managerCalls,
                   world, registry>>

\* connection_closed
ConnectionClosed ==
    /\ closed
    /\ serial' = serial + 1 /\ pending' = FALSE /\ retry' = TRUE
    /\ ClearManagerConnection
    /\ UNCHANGED <<busCalls, managerCalls, world, budget>>

-----------------------------------------------------------------------------
(* What ModemManager does, and the handler that runs if a manager is       *)
(* attached.  A manager is created with ModemManager's present objects.    *)

Handled(r) == registry' = IF manager # 0 THEN r ELSE registry

\* object_added, interface_added, interface_removed and properties_changed
\* when an object appears or changes what it is.
ObjectChanges(p, v, unlucky) ==
    /\ world.owner /\ world.view[p] # v /\ v # "absent"
    /\ unlucky \subseteq {p} /\ Spend(TRUE)
    /\ world' = [world EXCEPT !.view[p] = v]
    /\ Handled(Reconcile(registry, world', p, unlucky))
    /\ UNCHANGED attempt

\* object_removed
ObjectRemoved(p) ==
    /\ world.view[p] # "absent" /\ Spend(TRUE)
    /\ world' = [world EXCEPT !.view[p] = "absent"]
    /\ Handled(Removed(registry, p))
    /\ UNCHANGED attempt

\* properties_changed of "Sim" or "Bearers": reconcile, then query.
DetailChanges(p, d, unlucky) ==
    /\ world.view[p] # "absent" /\ unlucky \subseteq {p} /\ Spend(TRUE)
    /\ world' = [world EXCEPT !.detail[p][d] = 1 - @]
    /\ LET r == Reconcile(registry, world', p, unlucky)
           g == r.modem[p]
       IN  Handled(IF g = 0 THEN r
                   ELSE [r EXCEPT !.cache[g][d] = Queried(@, d, world'.detail[p][d])])
    /\ UNCHANGED attempt

\* name_owner_changed, no owner; the manager drops its objects first.
OwnerLost ==
    /\ world.owner /\ Spend(TRUE)
    /\ world' = [world EXCEPT !.owner = FALSE, !.view = [p \in Path |-> "absent"]]
    /\ Handled(Cleared(registry))
    /\ UNCHANGED attempt

\* name_owner_changed, a new owner; object_added has run for each object, so
\* that reconcile_all only repeats what failed.
OwnerFound(view, unlucky) ==
    /\ ~world.owner /\ Spend(unlucky # {})
    /\ world' = [world EXCEPT !.owner = TRUE, !.view = view]
    /\ \E order \in Orders(world') : Handled(ReconcileAll(registry, world', order, unlucky))
    /\ UNCHANGED attempt

\* Mutant: the timer looks after the messages only.
ReconcileTimerSmsOnly(unlucky) ==
    /\ manager # 0 /\ world.owner /\ Spend(unlucky # {})
    /\ UNCHANGED <<attempt, world, registry>>

\* sms_reconcile_cb; the messages it lists are in SmsCache.
ReconcileTimer(unlucky) ==
    /\ manager # 0 /\ world.owner /\ Spend(unlucky # {})
    /\ \E order \in Orders(world) : registry' = ReconcileAll(registry, world, order, unlucky)
    /\ UNCHANGED <<attempt, world>>

\* sim_ready and bearers_ready of generation g, whatever became of it.
DetailReady(g, d, ok) ==
    LET c == registry.cache[g][d]
        at == {p \in Path : registry.modem[p] = g}
        answered == [c EXCEPT !.pending = FALSE, !.dirty = FALSE,
                              !.state = IF ok THEN "ready" ELSE "unavailable",
                              !.value = IF ok THEN c.asked ELSE 0]
    IN  /\ c.pending
        /\ Spend(~ok)
        /\ LET r == [registry EXCEPT !.cache[g][d] =
                       IF at = {} THEN [c EXCEPT !.pending = FALSE, !.dirty = FALSE]
                       ELSE IF ~c.dirty THEN answered
                       ELSE Queried(answered, d, world.detail[CHOOSE p \in at : TRUE][d])]
           IN  registry' = Keep(r, Path)
        /\ UNCHANGED <<attempt, world>>

\* l850gl_bridge_stop
Stop ==
    /\ serial' = serial + 1 /\ pending' = FALSE /\ retry' = FALSE
    /\ ClearManagerConnection
    /\ UNCHANGED <<busCalls, managerCalls, world>>

-----------------------------------------------------------------------------
Calls ==
    \/ \E s \in busCalls, ok \in BOOLEAN : BusReady(s, ok)
    \/ \E s \in managerCalls, ok \in BOOLEAN, order \in Orders(world), unlucky \in SUBSET Path :
         ManagerReady(s, ok, order, unlucky)

DetailCalls == \E g \in Generation, d \in Detail, ok \in BOOLEAN : DetailReady(g, d, ok)

Changes ==
    \/ \E p \in Path, unlucky \in SUBSET Path :
         \/ \E v \in {"other", "exact"} : ObjectChanges(p, v, unlucky)
         \/ \E d \in Detail : DetailChanges(p, d, unlucky)
    \/ \E p \in Path : ObjectRemoved(p)
    \/ OwnerLost
    \/ \E view \in [Path -> {"absent", "other", "exact"}], unlucky \in SUBSET Path :
         OwnerFound(view, unlucky)

Timer == \E unlucky \in SUBSET Path : ReconcileTimer(unlucky)

BridgeNext ==
    \/ Calls \/ DetailCalls \/ Changes \/ Timer
    \/ RetryFires \/ ConnectionCloses \/ ConnectionClosed
=============================================================================
