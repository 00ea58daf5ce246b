-------------------------- MODULE InventoryClient --------------------------
(***************************************************************************)
(* A client of list_sms beside the SMS inventory: it keeps the identities  *)
(* and the revision of the last reply, and the inventory goes on changing. *)
(* "seen" is that reply with the history of what has become of it since:   *)
(* as long as the revision is the same it is kept whole, then only for the *)
(* messages that have stayed.                                              *)
(***************************************************************************)
EXTENDS SmsCache

VARIABLE seen

Seen == [cache : [Path -> Id \cup {NoId}], \* the messages and identities shown
         changed : BOOLEAN,                \* sms_revision has moved on since
         stays : SUBSET Path]              \* messages in the inventory ever since
                                           \* that no send has taken over

NothingSeen == [cache |-> Empty, changed |-> TRUE, stays |-> {}]

\* The tests of method_list_sms on the modem.
Answered == live /\ messaging /\ Served

\* method_list_sms; on an inventory that is not ready it is Refresh.
ListSms ==
    /\ Answered
    /\ seen' = [cache |-> cache, changed |-> FALSE, stays |-> Cached]
    /\ UNCHANGED vars

\* The message that modem_admit_sms has just given the identity of its send.
Admitted == IF send.phase = "building" /\ send'.phase = "send" THEN {send.path} ELSE {}

\* What a step of the bridge makes of the reply.
Observed ==
    LET changed == seen.changed \/ revision' # revision
        stays == (seen.stays \cap Cached') \ Admitted
        kept == IF changed THEN stays ELSE Path
    IN  seen' = [cache |-> [p \in Path |-> IF p \in kept THEN seen.cache[p] ELSE NoId],
                 changed |-> changed, stays |-> stays]

ClientInit == Init /\ seen = NothingSeen

ClientNext == ListSms \/ (Next /\ Observed)

ClientSpec == ClientInit /\ [][ClientNext]_<<vars, seen>>

-----------------------------------------------------------------------------
(***************************************************************************)
(* Two replies of list_sms with the same revision show the same messages   *)
(* under the same identities, whatever happened between them (a query that *)
(* failed, a new epoch, a message created, deleted and created again): a   *)
(* client may join pages of one revision and need not look when the        *)
(* revision is the one it knows.                                           *)
(***************************************************************************)
RevisionTells == ~seen.changed /\ Answered => cache = seen.cache

(***************************************************************************)
(* The identity a client was shown names the message it was shown for, and *)
(* no other, as long as that message has not left the inventory and no     *)
(* send has taken it over: delete_sms does not reach another message.      *)
(* A deletion, a new epoch and a failed list, which drops the whole        *)
(* inventory, end this: a message that comes back has a new identity, and  *)
(* that the old one is not drawn again is left to chance (new_sms_id only  *)
(* excludes the identities in use).                                        *)
(***************************************************************************)
IdentityStays ==
    \A p \in seen.stays, q \in Cached : cache[q] = seen.cache[p] <=> q = p

(***************************************************************************)
(* What a reply of list_sms told holds later on: all of it while the       *)
(* revision is the same, and each identity while its message stays.        *)
(***************************************************************************)
ReplyHolds == RevisionTells /\ IdentityStays
=============================================================================
