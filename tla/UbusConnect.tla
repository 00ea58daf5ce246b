---------------------------- MODULE UbusConnect ----------------------------
(***************************************************************************)
(* The connection of the daemon to ubusd (ubus_glib.c): connect, publish   *)
(* the two objects, watch the socket, and after a loss try again with a    *)
(* delay that doubles.  libubus is external: it may refuse to connect, may *)
(* not publish an object and may call connection_lost while connect_ubus   *)
(* still uses it.  What a loss does to the operations is in PciLock,       *)
(* SmsSend, Advanced and ExpertQueries.                                    *)
(***************************************************************************)
EXTENDS Naturals, FiniteSetsExt

CONSTANTS
    Published,     \* l850gl.mm and l850gl.mm.l850
    InitialDelay,  \* RECONNECT_INITIAL_MS
    MaxDelay       \* RECONNECT_MAX_MS

VARIABLES
    initialized,   \* context_initialized
    connected,     \* what every method handler tests
    watch,         \* fd_source is installed
    reconnect,     \* reconnect_source is armed
    delay,         \* reconnect_delay_ms
    link,          \* the socket: "none", "up" or "dead" (closed by ubusd)
    ids,           \* the objects of ours that ubusd knows
    budget         \* how many faults are still to come

TypeOK ==
    /\ {initialized, connected, watch, reconnect} \subseteq BOOLEAN
    /\ delay \in InitialDelay..MaxDelay
    /\ link \in {"none", "up", "dead"}
    /\ ids \subseteq Published

\* l850gl_ubus_new
New ==
    /\ initialized = FALSE /\ connected = FALSE
    /\ watch = FALSE /\ reconnect = FALSE
    /\ delay = InitialDelay /\ link = "none" /\ ids = {}

\* schedule_reconnect, by callers that know whether a timer is armed.
NextDelay(armed) == IF armed THEN delay ELSE Min({MaxDelay, 2 * delay})

\* The status of both ubus_add_object, or both ids after ubus_reconnect.
AllPublished(known) == known = Published

Fault(happens) ==
    /\ happens => budget > 0
    /\ budget' = IF happens THEN budget - 1 ELSE budget

(***************************************************************************)
(* connect_ubus and, if it fails, schedule_reconnect, both with no timer   *)
(* armed.  Libubus refuses to connect, or connects, makes some objects     *)
(* known and may find the socket closed meanwhile: connection_lost then    *)
(* arms the timer and connect_ubus carries on with the status it got.      *)
(***************************************************************************)
\* Mutant: reconnect_cb forgets its source after the attempt, not before.
RefusedStillArmed ==
    /\ Fault(TRUE)
    /\ link' = "none" /\ ids' = {}
    /\ reconnect' = FALSE
    /\ UNCHANGED <<initialized, connected, watch, delay>>

Refused ==
    /\ Fault(TRUE)
    /\ link' = "none" /\ ids' = {}
    /\ reconnect' = TRUE /\ delay' = NextDelay(FALSE)
    /\ UNCHANGED <<initialized, connected, watch>>

NotPublished(known, lost) ==
    /\ ~AllPublished(known) /\ Fault(TRUE)
    /\ initialized' = FALSE /\ link' = "none" /\ ids' = {}
    /\ reconnect' = TRUE /\ delay' = NextDelay(FALSE)
    /\ connected' = (connected /\ ~lost) /\ watch' = (watch /\ ~lost)

Connects(known, lost) ==
    /\ AllPublished(known) /\ Fault(lost \/ known # Published)
    /\ initialized' = TRUE /\ connected' = TRUE /\ watch' = TRUE
    /\ link' = IF lost THEN "dead" ELSE "up"
    /\ ids' = known
    /\ reconnect' = lost /\ delay' = InitialDelay

ConnectUbus ==
    \/ Refused
    \/ \E known \in SUBSET Published, lost \in BOOLEAN :
         NotPublished(known, lost) \/ Connects(known, lost)

\* l850gl_ubus_start
Start == ConnectUbus

\* reconnect_cb
ReconnectFires == reconnect /\ ConnectUbus

\* External: ubusd goes away.
LinkDies ==
    /\ link = "up" /\ Fault(TRUE)
    /\ link' = "dead"
    /\ UNCHANGED <<initialized, connected, watch, reconnect, delay, ids>>

\* ubus_fd_ready calls connection_lost: the socket is closed or gone.
FdReady ==
    /\ watch /\ connected /\ link # "up"
    /\ connected' = FALSE /\ watch' = FALSE
    /\ reconnect' = TRUE /\ delay' = NextDelay(reconnect)
    /\ UNCHANGED <<initialized, link, ids, budget>>

\* l850gl_ubus_stop
Stop ==
    /\ initialized' = FALSE /\ connected' = FALSE
    /\ watch' = FALSE /\ reconnect' = FALSE
    /\ link' = "none" /\ ids' = {}
    /\ UNCHANGED delay

UbusNext == ReconnectFires \/ LinkDies \/ FdReady
=============================================================================
