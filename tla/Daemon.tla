------------------------------- MODULE Daemon -------------------------------
(***************************************************************************)
(* The daemon (main.c): the bridge to ModemManager and the connection to   *)
(* ubusd run in one main loop from start to SIGTERM.  Each recovers from   *)
(* faults of its own; a method call is served only if both work.  A budget *)
(* bounds the faults and changes of a behaviour, so that what must happen  *)
(* once they end can be stated.                                            *)
(***************************************************************************)
EXTENDS Naturals, FiniteSets

CONSTANTS Path, MaxModems, MaxGeneration, Published, InitialDelay, MaxDelay,
          Budget    \* faults and changes in a behaviour

ASSUME DaemonAssumption ==
    /\ IsFiniteSet(Path) /\ MaxModems \in Nat /\ MaxGeneration \in Nat \ {0}
    /\ InitialDelay \in Nat \ {0} /\ MaxDelay \in Nat /\ InitialDelay <= MaxDelay
    /\ Budget \in Nat

VARIABLES
    serial, connection, closed, pending, retry, manager, busCalls, managerCalls,
    world, registry,                                           \* BridgeRegistry
    initialized, connected, watch, reconnect, delay, link, ids,  \* UbusConnect
    budget,
    phase     \* "starting", "running", then "stopped" for ever

Bridge == INSTANCE BridgeRegistry
Ubus == INSTANCE UbusConnect

bridgeVars == <<serial, connection, closed, pending, retry, manager, busCalls, managerCalls,
                world, registry>>
ubusVars == <<initialized, connected, watch, reconnect, delay, link, ids>>
vars == <<bridgeVars, ubusVars, budget, phase>>

\* main up to l850gl_bridge_start
Init ==
    /\ Bridge!Init /\ Ubus!New
    /\ budget = Budget
    /\ phase = "starting"

\* l850gl_ubus_start, before the main loop runs.
Start ==
    /\ phase = "starting" /\ phase' = "running"
    /\ Ubus!Start
    /\ UNCHANGED bridgeVars

Run ==
    /\ phase = "running" /\ UNCHANGED phase
    /\ \/ Bridge!BridgeNext /\ UNCHANGED ubusVars
       \/ Ubus!UbusNext /\ UNCHANGED bridgeVars

\* quit_signal_cb ends the loop; main stops ubus, then the bridge.
Quit ==
    /\ phase = "running" /\ phase' = "stopped"
    /\ Ubus!Stop /\ Bridge!Stop
    /\ UNCHANGED budget

Next == Start \/ Run \/ Quit

Spec == Init /\ [][Next]_vars

\* The main loop dispatches every source that is ready; see Bridge and Ubus.
Fairness ==
    LET Step(A) == phase = "running" /\ UNCHANGED phase /\ A
        OfBridge(A) == Step(A) /\ UNCHANGED ubusVars
        OfUbus(A) == Step(A) /\ UNCHANGED bridgeVars
    IN  /\ WF_vars(Start)
        /\ WF_vars(OfBridge(Bridge!Calls)) /\ WF_vars(OfBridge(Bridge!DetailCalls))
        /\ WF_vars(OfBridge(Bridge!RetryFires)) /\ WF_vars(OfBridge(Bridge!ConnectionClosed))
        /\ WF_vars(OfBridge(Bridge!Timer))
        /\ WF_vars(OfUbus(Ubus!ReconnectFires)) /\ WF_vars(OfUbus(Ubus!FdReady))

FairSpec == Spec /\ Fairness

-----------------------------------------------------------------------------
TypeOK ==
    /\ Bridge!TypeOK /\ Ubus!TypeOK
    /\ budget \in 0..Budget /\ phase \in {"starting", "running", "stopped"}

(***************************************************************************)
(* A running daemon is never deaf.  Without a manager the bridge has a     *)
(* call under way that it will accept, a closed signal to come or a retry  *)
(* armed; without ubus a reconnection is armed; while connected the socket *)
(* is watched, and a live one serves both objects with the back-off reset  *)
(* unless a reconnection is due.  Every early return of bus_ready,         *)
(* manager_ready and connect_ubus could break this silently.               *)
(***************************************************************************)
NeverDeaf ==
    phase = "running" =>
        /\ manager = 0 => \/ retry \/ closed
                          \/ pending /\ serial \in busCalls
                          \/ serial \in managerCalls /\ connection = serial
        /\ connected \/ reconnect
        /\ connected => watch
        /\ connected /\ link = "up" => initialized /\ ids = Published
        /\ connected /\ ~reconnect => delay = InitialDelay

(***************************************************************************)
(* The inventory shows objects of the attached manager only, each one      *)
(* exact, at most MAX_ADMITTED_MODEMS and each under a generation of its   *)
(* own, and the manager is the one of the current connection: no call of   *)
(* an abandoned attempt attaches anything.  A stopped daemon shows none.   *)
(***************************************************************************)
InventoryCurrent ==
    LET shown == {p \in Path : registry.modem[p] # 0}
    IN  /\ manager # 0 => manager = connection /\ manager = serial
        /\ shown # {} => manager # 0 /\ phase # "stopped" /\ world.owner
        /\ \A p \in shown : world.view[p] = "exact"
        /\ Cardinality(shown) <= MaxModems
        /\ \A p, q \in shown : registry.modem[p] = registry.modem[q] => p = q

(***************************************************************************)
(* Once its query has ended, and unless it failed, the cached SIM or       *)
(* bearer list of a modem is the one ModemManager has now, however changes *)
(* and queries overlapped and although structures of removed modems still  *)
(* get answers (query_sim, sim_ready, query_bearers, bearers_ready).       *)
(***************************************************************************)
DetailsSettle ==
    \A p \in Path, d \in {"sim", "bearers"} :
        registry.modem[p] # 0 =>
            LET c == registry.cache[registry.modem[p]][d]
            IN  c.pending \/ c.state = "unavailable" \/ c.value = world.detail[p][d]

(***************************************************************************)
(* When the faults have ended, a daemon that is not told to stop serves    *)
(* again and for good: ubus connected, a manager attached, and every L850  *)
(* modem of ModemManager in the inventory unless it is full or generations *)
(* have run out.  Both sides have to recover, in any order.                *)
(***************************************************************************)
Serving ==
    /\ connected /\ link = "up"
    /\ manager # 0
    /\ world.owner => \/ \A p \in Path : world.view[p] = "exact" => registry.modem[p] # 0
                      \/ Cardinality({p \in Path : registry.modem[p] # 0}) = MaxModems
                      \/ registry.next = MaxGeneration

ServiceRestored == <>[](phase = "stopped" \/ Serving)
=============================================================================
