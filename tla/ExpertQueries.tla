--------------------------- MODULE ExpertQueries ---------------------------
(***************************************************************************)
(* The read-only side of the expert object (ubus_glib.c): cell_lock_status,*)
(* cell_scan and get_carrier_info, which defer their ubus request while an *)
(* AT command or GetCellInfo is under way, and the serving cell and        *)
(* voltage caches that get_overview refreshes in the background.  They     *)
(* share the modem with each other and with mutations (SMS, bands, modes   *)
(* and the PCI lock coordinator, here only as holders of the mutation      *)
(* lock); no lock manager exists, every handler tests tables and flags.    *)
(*                                                                         *)
(* One hardware slot, whose modem object is removed and admitted again     *)
(* under a new generation.  Each action is one callback of the GLib main   *)
(* loop.  Clocks are flags that time may change (a cache entry is fresh, a *)
(* completion recent) or inputs (the retry window of a refresh is over).   *)
(* Error codes and the reply, which follows the same rules as in PciLock,  *)
(* are left out.                                                           *)
(***************************************************************************)
EXTENDS Naturals

CONSTANTS
    Query,      \* L850StatusOperation, L850ScanOperation, L850CarrierOperation
    MaxGen,     \* bound on the modem objects admitted
    Slot        \* the hardware slot

ASSUME QueriesAssumption ==
    /\ MaxGen \in Nat \ {0} /\ Slot \notin Nat
    /\ \A c \in {"pci", "volt", "other"}, m \in 0..MaxGen : <<c, m>> \notin Query

Object == 1..MaxGen

VARIABLES
    generation, live,   \* the slot's newest modem object
    kind,               \* mutation_kind of each object, "none" if not busy
    pci,                \* the objects a PCI mutation holds, {} if none runs
    query,              \* the three tables of expert operations
    limited,            \* which kinds completed less than 5 s ago on the object
    cell, volt,         \* the caches of the newest object
    call,               \* background calls of each object
    connected           \* ubus->connected

modem == <<generation, live>>
mutations == <<kind, pci>>
vars == <<generation, live, kind, pci, query, limited, cell, volt, call, connected>>

Kinds == {"status", "scan", "carrier"}

QueryRecord ==
    [kind      : Kinds \cup {"none"},
     stage     : {"idle", "cellInfo", "command"},
     object    : 0..MaxGen,
     cancelled : BOOLEAN]

NoQuery == [kind |-> "none", stage |-> "idle", object |-> 0, cancelled |-> FALSE]

\* The first D-Bus call of a query: GetCellInfo for a scan, else a command.
NewQuery(k) ==
    [NoQuery EXCEPT !.kind = k, !.stage = IF k = "scan" THEN "cellInfo" ELSE "command",
                    !.object = generation]

\* "old" is a cache entry that is valid and no longer fresh.
CacheRecord == [entry : {"none", "old", "fresh"}, pending : BOOLEAN]
NoCache == [entry |-> "none", pending |-> FALSE]

\* The background calls of an object: not made, under way, cancelled.
CallRecord == [{"cell", "volt"} -> {"none", "sent", "cancelled"}]
NoCall == [c \in {"cell", "volt"} |-> "none"]

Running(q) == query[q].kind # "none"

\* l850_modem_has_active_scan, l850_modem_has_active_carrier_query
HasActive(k, m) == \E q \in Query : query[q].kind = k /\ query[q].object = m

\* l850_modem_has_active_mutation: by slot, whatever object is the newest.
HasActiveMutation == pci # {}

Init ==
    /\ generation = 0 /\ live = FALSE
    /\ kind = [m \in Object |-> "none"] /\ pci = {}
    /\ query = [q \in Query |-> NoQuery]
    /\ limited = {}
    /\ cell = NoCache /\ volt = NoCache
    /\ call = [m \in Object |-> NoCall]
    /\ connected = TRUE

-----------------------------------------------------------------------------
(* Admission of queries and mutations.                                     *)

\* The tests l850_requested_modem, sms_mutation_modem and
\* advanced_mutation_modem share.
Quiet ==
    /\ ~HasActiveMutation
    /\ ~HasActive("scan", generation) /\ ~HasActive("carrier", generation)
    /\ ~volt.pending

\* The request names the newest object, which is live and attested.
Requested == connected /\ live /\ Quiet

\* The other requests are answered at once and leave no trace.
StartQuery(q, k) ==
    /\ ~Running(q)
    /\ query' = [query EXCEPT ![q] = NewQuery(k)]
    /\ UNCHANGED <<modem, mutations, limited, cell, volt, call, connected>>

\* method_cell_lock_status: it may run beside anything that starts later.
CellLockStatus(q) == Requested /\ StartQuery(q, "status")

\* method_cell_scan
CellScan(q) ==
    /\ Requested /\ kind[generation] = "none" /\ "scan" \notin limited
    /\ StartQuery(q, "scan")

\* method_get_carrier_info
GetCarrierInfo(q) ==
    /\ Requested /\ kind[generation] = "none" /\ "carrier" \notin limited
    /\ StartQuery(q, "carrier")

\* method_send_sms, method_delete_sms, method_set_bands, method_set_modes,
\* method_set_cell_lock and method_clear_cell_lock take the mutation lock.
MutationStarts(k) ==
    /\ Requested /\ kind[generation] = "none"
    /\ kind' = [kind EXCEPT ![generation] = k]
    /\ pci' = IF k = "l850" THEN {generation} ELSE pci
    /\ UNCHANGED <<modem, query, limited, cell, volt, call, connected>>

\* l850_mutation_poll adopts the object that replaced the one it reset.
PciAdopts ==
    /\ pci # {} /\ live /\ generation \notin pci /\ kind[generation] = "none"
    /\ kind' = [kind EXCEPT ![generation] = "l850"]
    /\ pci' = pci \cup {generation}
    /\ UNCHANGED <<modem, query, limited, cell, volt, call, connected>>

PciEnds ==
    /\ pci # {}
    /\ kind' = [m \in Object |-> IF m \in pci THEN "none" ELSE kind[m]]
    /\ pci' = {}
    /\ UNCHANGED <<modem, query, limited, cell, volt, call, connected>>

OtherMutationEnds(m) ==
    /\ kind[m] = "other"
    /\ kind' = [kind EXCEPT ![m] = "none"]
    /\ UNCHANGED <<modem, pci, query, limited, cell, volt, call, connected>>

-----------------------------------------------------------------------------
(* Completion of queries.                                                  *)

\* A cancelled call never brings an answer.
Answers(q) ==
    IF query[q].cancelled THEN {"error"}
    ELSE {"ok", "error"} \cup (IF query[q].stage = "cellInfo" THEN {"unsupported"} ELSE {})

\* l850_scan_stale_code, l850_carrier_stale_code
Current(q) == live /\ query[q].object = generation

\* l850_scan_complete_buffer and its siblings: the completion is noted in the
\* modem structure of the query, the reply goes out, the query leaves its table.
CompleteQuery(q) ==
    /\ query' = [query EXCEPT ![q] = NoQuery]
    /\ limited' = IF query[q].object = generation
                    THEN limited \cup ({query[q].kind} \cap {"scan", "carrier"}) ELSE limited

CompletesAs(q, k) ==
    /\ query[q].kind = k
    /\ CompleteQuery(q)
    /\ UNCHANGED <<modem, mutations, cell, volt, call, connected>>

\* l850_status_ready, with a lock state, an unsupported protocol or an error.
StatusReady(q) == CompletesAs(q, "status")

\* l850_carrier_ready, l850_carrier_complete_success
CarrierReady(q) == CompletesAs(q, "carrier")

\* l850_scan_ready and l850_vendor_scan_ready: stale, refused or malformed.
ScanFails(q) == CompletesAs(q, "scan")

\* l850_scan_ready: GetCellInfo is not supported, the XMCI command follows
\* under the same timer and cancellable.
ScanFallsBack(q) ==
    /\ query[q].stage = "cellInfo" /\ Current(q) /\ "unsupported" \in Answers(q)
    /\ query' = [query EXCEPT ![q].stage = "command"]
    /\ UNCHANGED <<modem, mutations, limited, cell, volt, call, connected>>

\* l850_scan_complete_success: a list with one serving cell fills the cache
\* (serving_cell_cache_store).
ScanSucceeds(q, serving) ==
    /\ query[q].kind = "scan" /\ Current(q) /\ "ok" \in Answers(q)
    /\ cell' = IF serving THEN [cell EXCEPT !.entry = "fresh"] ELSE cell
    /\ CompleteQuery(q)
    /\ UNCHANGED <<modem, mutations, volt, call, connected>>

\* Mutant: the timer of a scan ends with its first call.
QueryTimeoutFirstCall(q) ==
    /\ Running(q) /\ ~query[q].cancelled
    /\ query[q].kind = "scan" => query[q].stage = "cellInfo"
    /\ query' = [query EXCEPT ![q].cancelled = TRUE]
    /\ UNCHANGED <<modem, mutations, limited, cell, volt, call, connected>>

\* l850_status_timeout, l850_scan_timeout, l850_carrier_timeout
QueryTimeout(q) ==
    /\ Running(q) /\ ~query[q].cancelled
    /\ query' = [query EXCEPT ![q].cancelled = TRUE]
    /\ UNCHANGED <<modem, mutations, limited, cell, volt, call, connected>>

-----------------------------------------------------------------------------
(* The caches behind get_overview.                                         *)

\* Mutant: the refresh looks at mutations only.
VoltageDueDuringQueries ==
    /\ ~volt.pending /\ volt.entry # "fresh"
    /\ kind[generation] = "none" /\ ~HasActiveMutation

\* l850_voltage_refresh
VoltageDue ==
    /\ ~volt.pending /\ volt.entry # "fresh"
    /\ kind[generation] = "none" /\ ~HasActiveMutation
    /\ ~HasActive("scan", generation) /\ ~HasActive("carrier", generation)

\* serving_cell_refresh: no test of what else runs.
CellDue == ~cell.pending /\ cell.entry # "fresh"

\* method_get_overview: add_modem_voltage, then add_serving_cell_summary.
\* The slot may not be attested and a retry window may still be open.
GetOverview(refresh) ==
    /\ connected /\ live
    /\ refresh # {}
    /\ "volt" \in refresh => VoltageDue
    /\ "cell" \in refresh => CellDue
    /\ volt' = [volt EXCEPT !.pending = @ \/ "volt" \in refresh]
    /\ cell' = [cell EXCEPT !.pending = @ \/ "cell" \in refresh]
    /\ call' = [call EXCEPT ![generation] =
                  [c \in DOMAIN @ |-> IF c \in refresh THEN "sent" ELSE @[c]]]
    /\ UNCHANGED <<modem, mutations, query, limited, connected>>

\* Mutant: the answer is not tied to the object it was asked of.
VoltageReadyOfAny(m, ok) ==
    /\ call[m].volt # "none"
    /\ call[m].volt = "cancelled" => ~ok
    /\ call' = [call EXCEPT ![m].volt = "none"]
    /\ volt' = [entry |-> IF ok THEN "fresh" ELSE "none", pending |-> FALSE]
    /\ UNCHANGED <<modem, mutations, query, limited, cell, connected>>

\* l850_voltage_ready: ok if the command was answered, the slot attested and
\* the answer parsed.  An object that is not live any more is left alone.
VoltageReady(m, ok) ==
    /\ call[m].volt # "none"
    /\ call[m].volt = "cancelled" => ~ok
    /\ call' = [call EXCEPT ![m].volt = "none"]
    /\ volt' = IF live /\ m = generation
                 THEN [volt EXCEPT !.pending = FALSE, !.entry = IF ok THEN "fresh" ELSE "none"]
                 ELSE volt
    /\ UNCHANGED <<modem, mutations, query, limited, cell, connected>>

\* Mutant: a failed refresh always drops the entry.
FailedEntryAlways(entry) == "none"

\* A failed refresh drops the entry unless somebody else made it fresh.
FailedEntry(entry) == IF entry = "fresh" THEN "fresh" ELSE "none"

\* serving_cell_query_ready; ok if serving_cell_cache_store_standard accepts
\* the list: every LTE cell valid and exactly one of them serving.
CellReady(m, ok) ==
    /\ call[m].cell # "none"
    /\ call[m].cell = "cancelled" => ~ok
    /\ call' = [call EXCEPT ![m].cell = "none"]
    /\ cell' = IF live /\ m = generation
                 THEN [cell EXCEPT !.pending = FALSE,
                                   !.entry = IF ok THEN "fresh" ELSE FailedEntry(@)]
                 ELSE cell
    /\ UNCHANGED <<modem, mutations, query, limited, volt, connected>>

\* serving_cell_cache_is_fresh, l850_voltage_cache_is_fresh
CacheAges ==
    /\ \/ cell.entry = "fresh" /\ cell' = [cell EXCEPT !.entry = "old"] /\ UNCHANGED volt
       \/ volt.entry = "fresh" /\ volt' = [volt EXCEPT !.entry = "old"] /\ UNCHANGED cell
    /\ UNCHANGED <<modem, mutations, query, limited, call, connected>>

\* l850gl_l850_scan_retry_after_ms, l850gl_l850_ca_retry_after_ms reach zero.
LimitEnds(k) ==
    /\ k \in limited
    /\ limited' = limited \ {k}
    /\ UNCHANGED <<modem, mutations, query, cell, volt, call, connected>>

-----------------------------------------------------------------------------
(* The modem and the ubus connection.                                      *)

Cancelled(state) == IF state = "sent" THEN "cancelled" ELSE state

\* modem_mark_removed: caches and pending flags are cleared, the modem's
\* cancellable stops its background calls and, by the handlers connected to
\* it (l850_scan_parent_cancelled and siblings), its queries.
ModemRemoved ==
    /\ live
    /\ live' = FALSE
    /\ cell' = NoCache /\ volt' = NoCache
    /\ query' = [q \in Query |-> IF query[q].object = generation
                                   THEN [query[q] EXCEPT !.cancelled = TRUE] ELSE query[q]]
    /\ call' = [call EXCEPT ![generation] = [c \in DOMAIN @ |-> Cancelled(@[c])]]
    /\ UNCHANGED <<generation, mutations, limited, connected>>

\* reconcile_object: a new structure for a new object of the slot.
ModemAdded ==
    /\ ~live /\ generation < MaxGen
    /\ live' = TRUE /\ generation' = generation + 1
    /\ limited' = {} /\ cell' = NoCache /\ volt' = NoCache
    /\ UNCHANGED <<mutations, query, call, connected>>

\* connection_lost: cancel_l850_scan_operations, cancel_l850_status_operations
\* and cancel_l850_carrier_operations.  The background calls go on.
ConnectionLost ==
    /\ connected
    /\ connected' = FALSE
    /\ query' = [q \in Query |-> IF Running(q)
                    THEN [query[q] EXCEPT !.cancelled = TRUE]
                    ELSE query[q]]
    /\ UNCHANGED <<modem, mutations, limited, cell, volt, call>>

Reconnect ==
    /\ ~connected
    /\ connected' = TRUE
    /\ UNCHANGED <<modem, mutations, query, limited, cell, volt, call>>

-----------------------------------------------------------------------------
QueryEnds(q) ==
    \/ StatusReady(q) \/ CarrierReady(q) \/ ScanFails(q)
    \/ \E serving \in BOOLEAN : ScanSucceeds(q, serving)

CallEnds(m) == \E ok \in BOOLEAN : VoltageReady(m, ok) \/ CellReady(m, ok)

Next ==
    \/ \E q \in Query : \/ CellLockStatus(q) \/ CellScan(q) \/ GetCarrierInfo(q)
                        \/ QueryEnds(q) \/ ScanFallsBack(q) \/ QueryTimeout(q)
    \/ \E k \in {"l850", "other"} : MutationStarts(k)
    \/ PciAdopts \/ PciEnds
    \/ \E m \in Object : OtherMutationEnds(m) \/ CallEnds(m)
    \/ \E refresh \in SUBSET {"cell", "volt"} : GetOverview(refresh)
    \/ CacheAges
    \/ \E k \in Kinds : LimitEnds(k)
    \/ ModemRemoved \/ ModemAdded \/ ConnectionLost \/ Reconnect

Spec == Init /\ [][Next]_vars

(***************************************************************************)
(* The timer of a query fires and a cancelled call calls back; a           *)
(* background call, which has no timer here, ends with the timeout that    *)
(* D-Bus or the AT command carries.  A scan or a query is not assumed to   *)
(* be answered, nor a mutation to end.                                     *)
(***************************************************************************)
Fairness ==
    /\ \A q \in Query : /\ WF_vars(QueryTimeout(q))
                        /\ WF_vars(query[q].cancelled /\ QueryEnds(q))
    /\ WF_vars(\E m \in Object, ok \in BOOLEAN : VoltageReady(m, ok))
    /\ WF_vars(\E m \in Object, ok \in BOOLEAN : CellReady(m, ok))

FairSpec == Spec /\ Fairness

-----------------------------------------------------------------------------
(* Properties.                                                             *)

TypeOK ==
    /\ generation \in 0..MaxGen /\ live \in BOOLEAN
    /\ kind \in [Object -> {"none", "l850", "other"}] /\ pci \subseteq Object
    /\ query \in [Query -> QueryRecord]
    /\ limited \subseteq {"scan", "carrier"}
    /\ cell \in CacheRecord /\ volt \in CacheRecord
    /\ call \in [Object -> CallRecord]
    /\ connected \in BOOLEAN

(***************************************************************************)
(* A scan, a carrier query, a voltage refresh and a mutation never share a *)
(* modem object, and none of them starts on an object of a slot whose PCI  *)
(* lock is being changed, however handlers, timers and removals interleave *)
(* (docs/threat-model.md, "Ownership and concurrency").  The tables and    *)
(* flags of the handlers implement Arbitration.                            *)
(***************************************************************************)
PciJob == <<"pci", 0>>

Working(m) ==
    {q \in Query : query[q].object = m /\ query[q].kind \in {"scan", "carrier"}}
    \cup (IF call[m].volt # "none" THEN {<<"volt", m>>} ELSE {})
    \cup (IF kind[m] = "other" THEN {<<"other", m>>} ELSE {})
    \cup (IF m \in pci THEN {PciJob} ELSE {})

Arbiter ==
    INSTANCE Arbitration WITH
        Job <- Query \cup ({"volt", "other"} \X Object) \cup {PciJob},
        Resource <- Object \cup {Slot},
        NoParent <- 0,
        parent <- [r \in Object \cup {Slot} |->
                      IF r # Slot /\ r <= generation THEN Slot ELSE 0],
        holders <- [r \in Object \cup {Slot} |->
                      IF r = Slot THEN (IF pci # {} THEN {PciJob} ELSE {}) ELSE Working(r)]

Arbitrated == Arbiter!Spec

(***************************************************************************)
(* The pending flag of a cache is set exactly while a call of the live     *)
(* object is under way.  A flag that outlives its call would refuse every  *)
(* mutation, scan and query of the modem for ever (voltage) or leave the   *)
(* cell unknown (serving cell); one that a late call of a removed object   *)
(* clears would let a second command start (l850_voltage_ready,            *)
(* serving_cell_query_ready, modem_mark_removed).                          *)
(***************************************************************************)
PendingIsBacked ==
    /\ volt.pending <=> live /\ call[generation].volt = "sent"
    /\ cell.pending <=> live /\ call[generation].cell = "sent"

(***************************************************************************)
(* A serving cell that a scan stored while a background refresh was under  *)
(* way survives the failure of that refresh: a fresh entry is lost to time *)
(* or to removal only (serving_cell_query_ready).                          *)
(***************************************************************************)
FreshCellSurvives == [][cell.entry = "fresh" /\ cell'.entry = "none" => ~live']_vars

(***************************************************************************)
(* Every deferred query leaves its table and every refresh clears its      *)
(* flag, even if ModemManager never answers: nothing but a mutation keeps  *)
(* a modem busy.                                                           *)
(***************************************************************************)
QueriesEnd ==
    /\ \A q \in Query : Running(q) ~> ~Running(q)
    /\ volt.pending ~> ~volt.pending
    /\ cell.pending ~> ~cell.pending
=============================================================================
