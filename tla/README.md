# Verification of l850gl-mm-bridge

TLA+ models, TLC configurations and TLAPS proofs for `l850gl-mm-bridge`, the
daemon that publishes a Fibocom L850-GL modem managed by ModemManager on ubus,
and for the operations its LuCI application calls.

## 1. The system

The daemon is one process with one thread: a GLib main loop. Everything it does
is a callback run to completion: a ubus method handler, the completion of an
asynchronous D-Bus call, a D-Bus signal, a timer, an event on the ubus socket.
Concurrency is therefore the interleaving of callbacks, and every hazard comes
from state that was read in one callback and is used in a later one.

| Part | Source | State it keeps | Operations | Hard behaviour |
|---|---|---|---|---|
| Modem registry | `bridge.c`, `identity.c`, `hardware.c` | connection attempt and manager, modem objects by D-Bus path, generation, random identity, SIM and bearer caches, attestation by sysfs | objects and interfaces added or removed, properties changed, name owner changed, connect and retry, 30-second reconcile | answers of abandoned attempts and of objects that are gone; changes during a query; limits |
| SMS inventory | `bridge.c` | path to identity cache, tombstones, reserved identities, query flags, messaging epoch, revision | list, Added, Deleted, admit, new epoch, 30-second reconcile | list replies overtaken by signals and by epochs; limits |
| SMS operations | `ubus_glib.c`, `sms_dedupe_policy.c` | one operation per modem, client-token queue | `send_sms`, `delete_sms`, create/send/delete completions, timer | repeats of a request, unknown outcomes, change of SIM in flight |
| PCI lock coordinator | `ubus_glib.c`, `l850_mutation_policy.c` | operations, two modem objects each, phase, NVM verifier | `set_cell_lock`, `clear_cell_lock`, five completions, poll timer, deadlines | modem reset and object replacement, late writes, persistence, timeouts |
| Band and mode operations | `ubus_glib.c`, `radio_policy.c`, `network_binding.c` | operation, cooldown, UCI state | `set_bands`, `set_modes`, network reload | partial failure between modem, UCI and netifd |
| Expert queries | `ubus_glib.c` | scan, status, carrier operations; serving cell and voltage caches | `cell_scan`, `cell_lock_status`, `get_carrier_info`, refreshes | sharing the AT port with mutations |
| ubus connection | `ubus_glib.c`, `main.c` | connected, back-off | lost, reconnect, publish | deferred requests across connections |
| Parsers and policies | `l850_cell.c`, `l850_ca.c`, `l850_voltage.c`, `sms_policy.c`, `ubus_request.c` | none | pure functions | boundaries |
| LuCI front-end | `luci-app-l850gl-mm/htdocs` | client tokens, polling | views | resending, stale views |

The parts interact by direct calls and by four pieces of shared state of a modem
object: `live`, `generation`, the mutation lock (`mutation_busy`,
`mutation_kind`, `mutation_cancellable`) and the cooldown.

What makes each part correct, in a line:

* coordinator: at most one operation per hardware slot; a reported result is
  true; an unknown one is never reported as retryable; every lock is released;
* SMS operations: a token is sent once per epoch; nothing is sent from another
  SIM than the one the user saw; an unknown outcome is remembered;
* inventory: it becomes and stays what ModemManager has; identities are unique
  and stable; nothing of an old epoch or deleted is shown;
* band and mode operations: modem, UCI and netifd agree, or the reply says not;
* queries: a scan, a carrier query, a voltage refresh and a mutation never share
  a modem; every deferred query and every refresh ends;
* connections and registry: no answer of an abandoned attempt counts, no failure
  leaves the daemon without a retry, service returns when the faults end;
* parsers: exactly the well-formed answers are accepted; a lock written is the
  lock read back.

## 2. Modules

### PciLock: the lock coordinator

One `OpRecord` per `L850MutationOperation`. `phase` is `L850MutationPhase` plus
`unused` and `done`; `pending` is `command_pending`, `poll` is `poll_source # 0`,
`stop` groups `timed_out`, `transport_lost` and the state of the cancellable,
`stage` the deadline and the NVM verifier, `sent` the three dispatch flags.
Modem objects are their generations, with slot (`physdev`), liveness, mutation
kind and cooldown. The environment is modelled too, as far as the code's safety
rests on it: the firmware executes a queued write at any time, saves it to NVM
later, loses what is unsaved in a power cycle; ModemManager serialises the
commands of a port, so that the answer to a command shows that earlier writes
are settled (`Flushed`), and answers a cancelled call only with a cancellation.

Each action is one callback: `RequestLock` (the two methods), `ProbeReady`,
`SetReady`, `NvmReady`, `ResetReady`, `CellReady` (the five completions),
`PollNvm`, `PollReprobe`, `PollRegistration`, `PollCancelled` (the branches of
`l850_mutation_poll`), `OperationTimeout`, `DeadlineExpires`, `ConnectionLost`,
`Reconnect`, `ModemAdded`, `ModemRemoved`, and the other mutations that share
the lock. `attested` and `again` are the outcomes of the sysfs attestations a
callback makes. `Twins` says whether two live objects may show the same slot,
which ModemManager avoids but the code provides for.

### SmsSend: send and delete

One `OpRecord` per `SmsOperation` on one modem, the dedupe queue as a sequence
of entries, and the modem's mutation lock. `Answers` sorts ModemManager's
answers the way `normalize_sms_error` does. Time is not counted: an entry may
expire whenever it is in the queue, which is right because an operation
(320 seconds, re-armed for the second call) may outlive its entry (300 seconds).
`MessagingChanged` is `reconcile_messaging`, with its behaviour at the last
generation number. Whether the cache takes the created message is an input of
`CreateReady`; SmsCache shows when it does. Variables `started`, `expired` and
`evicted` are history for the properties.

### SmsCache: the inventory

The cache maps a path to an identity. ModemManager's signals and replies form a
queue (`bus`), since D-Bus delivers them in order; libmm builds proxies between
the reply of `List` or `Create` and the completion of the call, so a call goes
through `ListRead`, `ListReplied` and `ListReady`, and signals may be handled
in between. Calls of old epochs stay under way. `ListReady` chooses which
messages survive truncation, because timestamps are arbitrary. Identities are
drawn from the unused ones. The revision is kept modulo 2, as no callback bumps
it twice and nothing compares revisions further apart. `Refresh` stands for all
callers of `query_sms` outside the signal handlers; the 30-second timer makes it
fair.

`InventoryClient` puts a client of `list_sms` beside it: `ListSms` is a reply with
the whole inventory, and `seen` keeps that reply together with what a client
cannot know, whether the revision has moved at any time since (`changed`, which
stays set, so that the revision modulo 2 does not repeat) and which of the
messages have been in the inventory ever since (`stays`). The code counts
`sms_revision` to 2^64 - 1 and then stops; that end is left out. What is *not*
promised is stated with `IdentityStays`: a failed list drops the whole inventory,
so that messages get new identities within an epoch, and an identity that is free
again is not excluded by `new_sms_id`. Only its 128 random bits keep it from being
drawn for another message.

### Advanced, RadioPolicy, NetworkBinding: bands and modes

`Advanced` has one `OpRecord` per `AdvancedOperation` on the modem at one device
path, which is unplugged and comes back as a new object (`generation`, `live`).
`phase` says what the operation waits for: the callback of `SetCurrentBands`
(`bands`), its own commit (`commit`), the answer of `network.reload` (`reload`).
Everything is a callback again, with one exception: `/etc/config/network` is
shared with other processes, so `method_set_modes` is two actions, `SetModes`
(load, scan, set) and `CommitModes` (commit, readback, reload request), between
which only the environment acts; `handler` keeps the main loop out. `rpc` is what
ModemManager made of the band change, which it may execute after everybody has
stopped waiting. `wrote` is history.

`RadioPolicy` has the band selection of `radio_policy.c` as operators, next to a
declarative definition taken from the interface documentation (what a modem
lists twice among the bands to be added can never be selected once: the
definition says so, the code answers `invalid_argument`);
`NetworkBinding` the search for the modem's section. Left out: that
`ubus_lookup_id` itself may lose the connection. If libubus then calls
`connection_lost` from its synchronous wait, the operation is freed while
`method_set_modes` still uses it, and what follows is undefined.

### ExpertQueries and Arbitration: sharing the modem

`ExpertQueries` has the three deferred queries (`cell_lock_status`, `cell_scan`
with its fallback from `GetCellInfo` to the vendor command, `get_carrier_info`)
as records in one table, and the two background refreshes that `get_overview`
starts as a call per modem object plus the cache and pending flag in the modem
structure. Mutations appear only as what the queries see of them: the mutation
kind of an object, and the set of objects a PCI mutation holds. One slot, whose
object is removed and admitted again. Freshness and the rate limit are flags
that time clears.

`Arbitration` is the abstract specification: jobs hold resources (modem objects
and the slots above them) alone, and while a job holds a slot nobody else takes
an object of it. The code has no such lock manager: it walks three tables and
reads two fields and two flags in each handler. `PciLock!Arbitrated` and
`ExpertQueries!Arbitrated` state that these tests implement it (`INSTANCE
Arbitration WITH` a mapping that reads the holders off tables and flags); TLC
checks both as properties, and both are proved. `cell_lock_status` is no job: it may run beside a
mutation that starts after it, in the code and in the model.

### BridgeRegistry, UbusConnect, Daemon: connections and the registry

`BridgeRegistry` is `bridge.c` without messaging. A connection, and every call
made for it, is named by the `connect_serial` of its attempt, so that
`bus_ready` and `manager_ready` of abandoned attempts can arrive at any time.
`registry` is the table of admitted modems with the SIM and bearer caches of
every generation that still has a call under way: `sim_ready` and
`bearers_ready` may run for a structure that left the table. A detail of a modem
is one of two versions, of which SIM version 0 is "no SIM". `unlucky` are the
paths for which `new_modem_id` fails.

`UbusConnect` is the connection to ubusd. libubus is external: it may refuse,
fail to publish an object, or call `connection_lost` while `connect_ubus` is
still using it (parameter `lost`).

`Daemon` composes the two in the order of `main`: the bridge starts, ubus
starts, the loop interleaves their callbacks, a signal stops ubus and then the
bridge. Both draw their faults and ModemManager's changes from one `budget`, so
that "once the faults end" can be said. A system bus connection made by
`g_bus_get` ends the process when it is closed from the other side unless
exit-on-close was cleared; that is a `Quit` here, and `ConnectionCloses` covers
the builds and cases in which the daemon survives.

### LteBands, AtAnswers, Positions, Answers: the pure parts

`LteBands` has the two channel tables of the code in full, the arguments of the
`FREQ_LOCK` command, the decoding of the NVM answer and the comparison of the
lock read back with the one requested. `AtAnswers` has the walk of each parser
over the lines of an answer: the state of the loop after n lines as a recursive
function of n (`WalkAfter`); a line is a record that carries what the checks of
its numbers say. `Positions` has the loops that copy some entries of an array in
order, for the carriers and the retained bands. `Answers` puts them on all small inputs: an answer
grows line by line, locks are taken at and beside every boundary of both tables,
band selections (`RadioPolicy`) under every set of modes. Each is compared with
a definition that does not say how it is computed.

`MC*` modules instantiate these for TLC and add the symmetry sets.
`*Proof` modules extend the module they are about (SmsCacheProof: InventoryClient,
and so SmsCache); they hold its inductive
invariant, the lemmas and the theorems.

## 3. Runs

| Run | Instance | Shows |
|---|---|---|
| `pci_lock` | 2 requests, 1 slot, 2 objects in succession, 2 locks | `SlotExclusion`, `LockOwned`, `LockSurvivesReset`, `RetryableMeansUnwritten`, `VerifiedIsTrue`, `NoLateOverwrite`, and the refinement `Arbitrated` |
| `pci_lock_twins` | 1 request, 3 objects of which two may be live at once, 2 connections, fair specification | `TypeOK`, `OneCallbackPending`, `CancelSticks`, `ReplyToRequester`, `ResetBarrier`, `EveryOperationEnds` |
| `sms_queue` | 4 sends that only new epochs interrupt, and the first its timer, 3 tokens, queue of 2, 2 epochs | `QueueIsCurrent`, `NoDuplicateSend` |
| `sms_epochs` | 2 requests, a reused token, 2 contents, 2 proxies, last generation reached, fair specification | `OperationSettled` (`SmsLockOwned` and `TokensSettled`), `DeduplicatedIsTrue`, `DispatchedInItsEpoch`, `EverySendEnds` |
| `sms_unknown_cached` | violation expected | `UnknownIsCached` |
| `sms_client` | 2 messages, room for 2, 3 identities, 2 epochs and the end of the numbers, one failed list, bus of 2, a client of `list_sms` | `IdsOwned`, `CacheOfEpoch`, `NoGhost`, `ReplyHolds` (`RevisionTells` and `IdentityStays`) |
| `sms_cache_full` | 2 messages, room for 1, fair specification | `QuietMeansComplete`, `Converges` |
| `advanced` | 2 requests, 2 objects in succession, 2 sections, fair specification | `OneAdvancedPerModem`, `BandsReplyTruthful`, `ModesReplyTruthful`, `EveryAdvancedEnds` |
| `advanced_stale_success` | violation expected | `CallbacksRevalidate` |
| `expert_queries` | 2 queries of any kind, 2 objects in succession, both refreshes, mutations, fair specification | the refinement `Arbitrated`, `PendingIsBacked`, `FreshCellSurvives`, `QueriesEnd` |
| `daemon` | 2 paths, room for 1 modem, 3 generations, 2 published objects, 3 faults or changes of either side, fair specification | `NeverDeaf`, `InventoryCurrent`, `DetailsSettle`, `ServiceRestored` |
| `answers` | answers of up to 6, 4, 6 and 3 lines; every table boundary; 6 sets of modes | `AnswersExact`, `LockRoundTrip`, `BandPolicyExact` |

Why the bounds are enough. The coordinator's operations interact only through
the slot, the objects and the queued writes: two of them and one replacement
show every pairwise conflict, three objects an ambiguous replacement. For SMS,
two requests that share a token meet in every way (`sms_epochs`), with every
interruption the code handles. The choice that a full queue makes takes a queue of
two and a third token and, for the repetition of a token that was evicted or had to
stay, a fourth request. `sms_queue` pays for them with the constraint `Undisturbed`
of MCSmsQueue: sends come in order, nothing but new epochs interrupts them, and
the first its timer (no removal, lost connection or other mutation), one entry expires at most,
and of the failures that the queue does not tell apart only one is followed. So
`NoDuplicateSend` is model-checked with these interruptions only; `NoDuplicates`
proves it with all of them. Two epochs and the last one cover an operation that
starts in one epoch and ends in the next. Two messages are enough for the cache to be full, to hold one and
miss one, to overflow the tombstones (room for 1) and for two identities to
collide; two messages on the bus let a signal overtake the completion of a list that
was read before it. For bands and
modes, two requests meet on one object or on two; a safe and an unsafe section
give no, one, an unsafe and two matches; a maximum of two bands per request is
exceeded by two LTE bands and one retained band. For the queries, two of them
and a second object give every pair that may meet and every late answer. For the
daemon, three faults are what it takes to abandon an attempt while a call of it
is under way, start another and have the old answer arrive; with two paths and
room for one modem the registry is full, and a modem waits for the place of
another (two modems admitted side by side, whose generations have to differ, are
beyond this run: `InventoryHolds` proves that for every limit); three delays
(2, 4, 5) reach the cap of the back-off. Six lines of an NVM answer are a complete
one and one line more. Room for three
cells and three carriers makes one too many a line of the answer. Deadlock checking is off everywhere,
because requests, objects and epochs are finite in the instances and a system
whose requests have all ended may stop.

Fairness. `EveryOperationEnds` and `EverySendEnds` assume that every D-Bus call
completes (libmm gives each a timeout) and that GLib timers fire; nothing is
assumed of the user, the modem, the objects or the socket. `Converges` assumes
in addition that D-Bus delivers, that the 30-second timer runs, and that only
finitely many list calls fail. `EveryAdvancedEnds` needs less: the operation timer, the callback of a
cancelled call and the end of a running handler; neither ModemManager nor netifd
has to answer. `QueriesEnd` likewise: timers fire, a cancelled call calls back,
and a background call ends by its own D-Bus or command timeout. `ServiceRestored`
assumes that the main loop dispatches what is ready (calls complete, retry,
reconnect and reconcile timers fire, a closed connection is signalled) and that
faults are finitely many; it does not assume that the daemon is never stopped.
No strong fairness is used.

Finding. `sms_unknown_cached` shows a disagreement with `docs/ubus-api.md`
("Uncertainty after Sms.Send dispatch is `outcome_unknown` and is cached to
prevent automatic resend"): if a messaging epoch starts while Sms.Send is in
flight, the operation ends with `outcome_unknown` and its token is removed, so a
repetition in the new epoch is sent. `NoDuplicateSend` is accordingly stated
within an epoch.

`advanced_stale_success` shows another one, with `docs/threat-model.md`
("Callbacks revalidate the original live proxy and generation"): the two
callbacks that end a waiting `set_modes`, `advanced_network_reload_complete` and
the operation timer, do not, and answer with success and the identity of a modem
that was removed meanwhile.

Two facts the models make precise without contradicting a document: a message
deleted before its own `Create` completes enters the inventory as a ghost until
the next query (`NoGhost` exempts it, `Converges` covers it), and a full
inventory makes `send_sms` fail with `internal_error` after the message was
created in ModemManager.

## 4. Proofs

Every safety property that a passing run checks is also a theorem, for every
value of the constants: any number of requests, tokens, messages, modem objects,
epochs, connections and lines of an answer, and any limit. So are the two refinements of `Arbitration`. The
assumptions are the named `ASSUME`s of the modules: what kind of thing each
constant is, that "no slot", "no token" and the like are none, and that the
names of jobs and resources in the refinement mappings do not clash. Four say a
little more: there is some message content (SmsSend), the paths of messages
(SmsCache) and of ModemManager's objects (Daemon) are finitely many, as a D-Bus
service has finitely many objects at a time, and a line of a carrier answer has
the fields of its sort (Answers): a primary is active and has index 1, as
`parse_primary_record` sets them, and a count or an index is a number.

| Module | Theorem | States |
|---|---|---|
| `PciLockProof` | `TypeCorrect` | `TypeOK` |
| | `ExclusionBySlot` | `SlotExclusion` |
| | `LockIsOwned` | `LockOwned` |
| | `CallbackPending` | `OneCallbackPending` |
| | `CancellationSticks` | `CancelSticks` |
| | `ResetKeepsLock` | `LockSurvivesReset` |
| | `RetryIsSafe` | `RetryableMeansUnwritten` |
| | `LateWritesSettled` | `NoLateOverwrite` |
| | `RepliesAddressed` | `ReplyToRequester` |
| | `BarrierBeforeReset` | `ResetBarrier` |
| | `VerifiedHolds` | `VerifiedIsTrue` |
| | `CoordinatorArbitrates` | `Arbitrated` (refinement) |
| | `CoordinatorApart` | the exclusion of `Arbitration`, inherited |
| `Arbitration` | `JobsApart` | what the abstract arbiter excludes |
| `ExpertQueriesProof` | `PendingBacked` | `PendingIsBacked` |
| | `FreshCellStays` | `FreshCellSurvives` |
| | `QueriesArbitrated` | `Arbitrated` (refinement) |
| | `WorkApart` | the exclusion of `Arbitration`, inherited |
| `SmsSendProof` | `Invariance` | the inductive invariant |
| | `LockOwned` | `SmsLockOwned` |
| | `QueueCurrent` | `QueueIsCurrent` |
| | `DeduplicatedTrue` | `DeduplicatedIsTrue` |
| | `NoDuplicates` | `NoDuplicateSend` |
| | `DispatchInEpoch` | `DispatchedInItsEpoch` |
| | `TokensTell` | `TokensSettled` |
| | `OperationsSettle` | `OperationSettled`, of the two |
| `SmsCacheProof` | `TypeCorrect` | `TypeOK` |
| | `IdentitiesOwned` | `IdsOwned` |
| | `OneEpoch` | `CacheOfEpoch` |
| | `SameRevisionSameInventory` | `RevisionTells` |
| | `IdentitiesStay` | `IdentityStays` |
| | `RepliesHold` | `ReplyHolds`, of the two |
| | `NoGhosts` | `NoGhost` |
| | `QuietComplete` | `QuietMeansComplete` |
| `AdvancedProof` | `AdvancedTypes` | `TypeOK` |
| | `AdvancedExclusion` | `OneAdvancedPerModem` |
| | `BandsTruth` | `BandsReplyTruthful` |
| | `ModesTruth` | `ModesReplyTruthful` |
| `DaemonProof` | `AlwaysAwake` | `NeverDeaf` |
| | `InventoryHolds` | `InventoryCurrent` |
| | `DetailsHold` | `DetailsSettle` |
| `AnswersProof` | `AnswersAreExact` | `AnswersExact` |
| | `LocksRoundTrip` | `LockRoundTrip` |
| | `BandPolicyIsExact` | `BandPolicyExact` |

### PciLock

`PciLockProof` has the inductive invariant

    Inv == TypeOK /\ Shapes /\ Placed /\ SlotExclusion /\ LockOwned

`Shapes` says, for each operation, what its phase implies about its other fields
(an operation under way waits for exactly one of a command's answer and a poll
timer; one that timed out or lost its owner is cancelled; it has an original
object; it has a replacement from registration on and none before). `Placed`
says that every live object and every object an operation names was admitted,
and that the replacement of an operation is at the slot of its original. Neither
goal is inductive alone: `SlotExclusion` needs to know that a request is admitted
only if no active operation has its slot (so `Placed`, because the slot of an
operation is that of its original object), and `LockOwned` needs `SlotExclusion`,
because the release of an object by one operation keeps the others' locks only if
no two operations hold the same object.

The step proof has two layers. Every action of the coordinator changes the
operation in one of a few ways, the *footprints* `Continues`, `Finishes`,
`Adopts` and `Callback`; one lemma per action shows its footprint, and one
lemma per footprint shows that the invariant is kept.

The second part adds what is known of the modem. `Safe` ties each phase to
the commands dispatched and acknowledged so far (`Dispatched`), to the connection
that awaits the reply (`Addressed`) and to what the firmware holds (`Saving`: what
an operation under way has written is staged, or the firmware fell back on what
was saved). `LockSurvivesReset` is not inductive by itself: the reset is sent on a
read that matches, and that the value read is the operation's own, and stays so,
needs `NoLateOverwrite`, which in turn needs that an answer settles the writes
queued before it (`Flushed`, a fact about how ModemManager serves a port)
and that nothing undispatched is queued (`Undispatched`). The footprints here are
`Moves` and `Ends`.

### Refinement of Arbitration

`Arbitration!JobsApart` proves that holding resources alone is kept by the guards
of `Begin`, through `Move` and `End`. Each concrete module then maps every action
to one of these or to a stutter. The handlers test flags and the newest object
only, so the proof has to say why that suffices: what is not admitted yet is
untouched, a live object has no cancelled call, and an object that the PCI
mutation of its slot has still to adopt has no work at all (`Admitted` and
`PciFirst` in `ExpertQueriesProof`). `CoordinatorApart` and `WorkApart` combine
the refinement with the abstract theorem.

### SmsSend

That a token is sent at most once rests on three facts that hold together:
whatever was dispatched in this epoch is in the queue or the reason why it is not
is on record (`Remembered`); an entry is evicted only after as many other tokens
as the queue holds (`Evictions`); only the last request accepted can be in flight
(`History`). `Recorded` says that an entry tells what became of its request,
`Epochs` that a request in flight has the messaging interface of its epoch. The
queue operations are handled by one lemma each that gives the new queue as a
thinned copy of the old one with an order-preserving map of positions.
`TokensSettled` needs to know besides that a request in flight was accepted on a
messaging interface and that without one the queue is empty (`Served`); each way
in which a request ends is then shown to leave an entry that tells its end, or
none (`Tells`).

### SmsCache

Two layers. `Owned` has the types, whose each identity is and of which epoch
everything is. `Second` is about the two streams that correct the inventory and
overtake each other, signals and list replies: at most one list of the epoch is
under way (`SingleFlight`); a path is announced before it is withdrawn and never
comes back (`Births`); whatever changed since ModemManager read a list that has
not been applied is still on the bus, is a tombstone, or has made the query dirty
(`Settled`, `Current`); and the inventory between queries differs from the store
by what is on the bus only (`Complete`). The key lemma `Steady` covers the steps
in which the bridge learns nothing; the completion of a list, the two signal
handlers and the change of epoch have proofs of their own.

The client's two theorems are about its whole history, not about a step:
`History` says that as long as the revision has not moved the inventory is the
reply or is closed for good (`Closed`: the modem is gone or its epochs are used
up, and `list_sms` answers no more), and that a message that stayed has the
identity it was shown with. `View` is what every step of the bridge owes it: a
change moves the revision, or closes the inventory. That the identity names *no
other* message is `Owned`.

### Advanced

    Inv == TypeOK /\ Shapes /\ OneAdvancedPerModem

`Shapes` gives the shape of an operation in each phase: one in the middle of the
file has a section and has written nothing yet, so a failure may be reported as
definite; one that waits for the reload wrote to the section that was the modem's
when the file was replaced, so its answer is a true `ok` whether the reload
ends, fails, times out or is never heard of. `OneAdvancedPerModem` alone is not
inductive because a completion frees the lock of the object the operation names,
which is its own only while it is under way. `CompleteKeeps`, `StartKeeps` and
`UpdateKeeps` are the three footprints of a step; each action has a lemma that
cites one of them, except `ConnectionLost`, which ends several operations at
once. `BandsTruth` adds that a call that was not heard of leaves every outcome
open, so that the reply must be `outcome_unknown`.

### Daemon

`Inv` says how attempts hand over to each other: the connection and the manager
are of the last attempt, a bus call of that attempt is under way whenever one is
awaited (`Attempts`), somebody will act in each state (`Awake`), and the same of
ubus (`Reachable`). `Stocked` says what the registry may hold: `Good(r, w)` of a
table `r` in a world `w` is that it fits the limit, that generations are used
once, that its modems are exact in `w`, and that each cache is right or will ask
again. Each function on the table keeps it good. `reconcile_all` is a loop over
ModemManager's objects, written as a recursive function; that this function
exists, and that each of its values is good, is proved by induction in the form
the provers can use, the least round that fails (`LeastOf`).

### Answers

No operation is under way here; the work is induction over data. The library's
induction theorems are out of reach because they take an operator, but the least
counterexample is not: `LeastOf` gives the least element of a set of numbers from
the well-foundedness of the order, and `Induction` restates it for the rounds of a
loop. With it `WalkSteps` and `SelectedSteps` show that the recursive functions
exist and take the steps they describe.

What a walk knows after n lines is a predicate on these lines, one for each
parser (`NvmKnows`, `VoltageKnows`, `CellsKnow`, `CarriersKnow`): nothing is wrong
so far exactly if the lines read are a good beginning, and then the state is a
function of them. Each line keeps it (`NvmStepKnows` and so on), so it holds after
the last one, where a good beginning that the final tests accept is a good answer.
For the carriers, the number of records is the number of filled slots, and a
count that equals the declared number leaves no slot empty (a cardinality
argument); that the primary comes first needs the order in which a loop copies
entries, which is what `Lists` says and `SelectedLists` proves once for all
such loops.

`LocksRoundTrip` rests on the tables: the ranges are in order and disjoint, none
holds 65535, and each range of `ca_band_ranges` lies in the range of
`earfcn_ranges` with its band. So the first range that holds a channel is the only
one, and the rest is a case for each form of lock. The lemma `LockExact` holds of
every channel, not only of those at a boundary.

`BandPolicyIsExact` compares lists with sets: the request and what is added to it
have no band in common, so the whole list has no repetition exactly if neither
part has one, and then it is as long as the set of its bands is large
(`CountDiffers`). Neither the supported bands nor the modes are restricted.

### Only model-checked

Liveness: `EveryOperationEnds`, `EverySendEnds`, `Converges`,
`EveryAdvancedEnds`, `QueriesEnd`, `ServiceRestored`. Fairness and ENABLED are
outside the proof system's reach.

## 5. Not modelled

* Argument syntax, JSON and blobmsg layout (`ubus_request.c`), UTF-8 and digit
  strings of messages (`sms_policy.c`), message wording, and the splitting of AT
  answers into fields and numbers: formatting without state, covered by the
  repository's unit tests.
* The attestation itself (`hardware.c`): a sysfs read, whose outcome is an input
  of every action that asks for it.
* Reference counting of the C objects, except where a structure outlives its
  place in the registry (BridgeRegistry).
* The read-only methods: they format a snapshot. What the replies of
  `list_sms` tell is modelled in InventoryClient (the paging and the folders of one
  reply are left out), what `get_overview` starts is in ExpertQueries.
* A connection lost inside the synchronous `ubus_lookup_id` of `set_modes`: what
  follows would be undefined behaviour of code outside this repository.
* The LuCI views, packaging and CI.

An observation without a run: while a carrier query or a voltage refresh is under
way, the scan capability that `cell_lock_status` reports says available although
`cell_scan` would answer busy.

## 6. Plan

Done, in this order: PciLock, SmsSend, SmsCache, Advanced, ExpertQueries with
Arbitration, the registry and both connections composed in Daemon, the pure parts
in Answers; then the theorems of section 4, in the same order. Left for later:
`SmsClient`, the tokens and the resend guard of `sms.js` against SmsSend.
