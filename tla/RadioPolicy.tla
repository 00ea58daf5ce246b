---------------------------- MODULE RadioPolicy ----------------------------
(***************************************************************************)
(* Which bands a set_bands request may select (radio_policy.c and the two  *)
(* snapshots method_set_bands takes of the modem).  The user chooses LTE   *)
(* bands only; the bridge adds the bands of the other families that the    *)
(* current modes allow, because ModemManager wants a complete selection.   *)
(* A band is a name; its family is what the name's prefix says.            *)
(***************************************************************************)
EXTENDS Positions, FiniteSetsExt

CONSTANTS
    Band,            \* band names a request or the modem may mention
    AnyBand,             \* the name "any" of a request
    Family,          \* l850gl_radio_band_family
    Supported,       \* what snapshot_supported_radio_bands keeps, in order: no
                     \* UNKNOWN, no name that is not canonical; <<>> if it fails,
                     \* as it does on more than MAX_RADIO_BANDS bands
    RequestBandsMax  \* L850GL_RADIO_REQUEST_BANDS_MAX

Families == {"2g", "3g", "4g", "5g"}

ASSUME RadioAssumption ==
    /\ AnyBand \notin Band
    /\ Family \in [Band -> Families \cup {"none"}]
    /\ Supported \in Seq(Band)
    /\ RequestBandsMax \in Nat

SupportedSet == {Supported[i] : i \in DOMAIN Supported}

FamilyOf(b) == IF b = AnyBand THEN "none" ELSE Family[b]

SupportedFamilies == {Family[b] : b \in SupportedSet} \ {"none"}

\* current_radio_families; {"any"} is MM_MODEM_MODE_ANY.
CurrentFamilies(modes) == IF modes = {"any"} THEN SupportedFamilies ELSE modes

\* Mutant: keeps the bands of the families that are switched off.
RetainedOfAnyMode(allowed) ==
    Selected(Supported, {i \in DOMAIN Supported : FamilyOf(Supported[i]) \notin {"4g", "none"}})

\* The supported bands that l850gl_radio_expand_lte_selection adds.
Retained(allowed) ==
    Selected(Supported,
             {i \in DOMAIN Supported : FamilyOf(Supported[i]) \in allowed \ {"4g", "none"}})

\* l850gl_radio_expand_lte_selection
Expand(requested, allowed) ==
    IF requested = <<AnyBand>> THEN "ok"
    ELSE IF "4g" \notin allowed THEN "family_mismatch"
    ELSE IF \E i \in DOMAIN requested : FamilyOf(requested[i]) # "4g" THEN "invalid_argument"
    ELSE IF Len(requested) + Len(Retained(allowed)) > RequestBandsMax THEN "invalid_argument"
    ELSE "ok"

Effective(requested, allowed) ==
    IF requested = <<AnyBand>> THEN requested ELSE requested \o Retained(allowed)

\* l850gl_radio_resolve_bands: the verdict of its loop on one name.
Verdict(bands, allowed, i) ==
    IF bands[i] = AnyBand \/ \E j \in 1..(i - 1) : bands[j] = bands[i] THEN "invalid_argument"
    ELSE IF bands[i] \notin SupportedSet THEN "unsupported_band"
    ELSE IF FamilyOf(bands[i]) \notin allowed THEN "family_mismatch"
    ELSE "ok"

Resolve(bands, allowed) ==
    LET bad == {i \in DOMAIN bands : Verdict(bands, allowed, i) # "ok"}
    IN  IF allowed = {} THEN "modes_unknown"
        ELSE IF Supported = <<>> THEN "unsupported_band"
        ELSE IF bands = <<AnyBand>> THEN "ok"
        ELSE IF bad # {} THEN Verdict(bands, allowed, Min(bad))
        ELSE IF {FamilyOf(bands[i]) : i \in DOMAIN bands} # allowed THEN "family_mismatch"
        ELSE "ok"

\* The part of method_set_bands between admission and dispatch.
SelectionCode(requested, modes) ==
    LET allowed == CurrentFamilies(modes)
        e == Expand(requested, allowed)
        r == Resolve(Effective(requested, allowed), allowed)
    IN  IF Supported = <<>> \/ allowed = {} THEN "not_ready"
        ELSE IF e # "ok" THEN IF e = "family_mismatch" THEN "not_ready" ELSE "invalid_argument"
        ELSE IF r # "ok" THEN IF r = "modes_unknown" THEN "not_ready" ELSE "invalid_argument"
        ELSE "ok"

-----------------------------------------------------------------------------
(***************************************************************************)
(* What the documentation promises (docs/ubus-api.md, set_bands): the      *)
(* explicit bands are distinct supported LTE bands, 4G is allowed, and the *)
(* selection, completed by every supported band of the other allowed       *)
(* families, names each allowed family and no other.  A band is selected   *)
(* once, so SupportedBands has to list the bands that are added once.      *)
(***************************************************************************)
Complete(requested, allowed) ==
    {requested[i] : i \in DOMAIN requested}
        \cup {b \in SupportedSet : Family[b] \in allowed \ {"4g", "none"}}

ValidSelection(requested, modes) ==
    LET allowed == CurrentFamilies(modes)
        chosen == {requested[i] : i \in DOMAIN requested}
    IN  /\ allowed # {} /\ Supported # <<>>
        /\ \/ requested = <<AnyBand>>
           \/ /\ chosen \subseteq {b \in SupportedSet : Family[b] = "4g"}
              /\ Cardinality(chosen) = Len(requested)
              /\ \A i, j \in DOMAIN Supported :
                    /\ Supported[i] = Supported[j]
                    /\ Family[Supported[i]] \in allowed \ {"4g", "none"}
                    => i = j
              /\ {Family[b] : b \in Complete(requested, allowed)} = allowed
              /\ Cardinality(Complete(requested, allowed)) <= RequestBandsMax

\* The requests method_set_bands can parse: not empty, at most the maximum.
Requests == UNION {[1..n -> Band \cup {AnyBand}] : n \in 1..RequestBandsMax}

\* A selection is accepted exactly if it is valid, and then it is dispatched
\* complete (l850gl_radio_expand_lte_selection, l850gl_radio_resolve_bands).
PolicyExact(modes) ==
    \A q \in Requests :
        /\ SelectionCode(q, modes) = "ok" <=> ValidSelection(q, modes)
        /\ SelectionCode(q, modes) = "ok" /\ q # <<AnyBand>>
             => LET e == Effective(q, CurrentFamilies(modes))
                IN  {e[i] : i \in DOMAIN e} = Complete(q, CurrentFamilies(modes))
=============================================================================
