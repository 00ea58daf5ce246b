----------------------------- MODULE AtAnswers -----------------------------
(***************************************************************************)
(* The parsers of AT answers (l850_cell.c, l850_ca.c, l850_voltage.c): each*)
(* walks over the lines of an answer, stops at the first bad one and, if   *)
(* anything is wrong, returns nothing.  A line is a record: its kind, what *)
(* the checks of its numbers say (verdict), and the data that the walk     *)
(* itself looks at.  Splitting, trimming and numbers are left out, as are  *)
(* answers that are too long or hold a NUL, which never reach the walk.    *)
(***************************************************************************)
EXTENDS Positions

CONSTANTS
    MaxResults,  \* L850GL_L850_CELL_MAX_RESULTS
    MaxSlots     \* L850GL_L850_CA_MAX_SLOTS

ASSUME LimitsAssumption == MaxResults \in Nat /\ MaxSlots \in Nat

Blank == [kind |-> "blank"]
Ok == [kind |-> "ok"]
\* Text that is no record at all.  In a +GTCAINFO answer: a line without the
\* prefix, or with one field that is no number; a line with the prefix and a
\* wrong number of fields is a record whose verdict is "malformed".
Other == [kind |-> "other"]
CellLine(verdict, serving) == [kind |-> "cell", verdict |-> verdict, serving |-> serving]
Header(n) == [kind |-> "header", slots |-> n]
\* at is band, PCI and downlink channel; ul the uplink channel.
Primary(verdict, at, ul) ==
    [kind |-> "primary", verdict |-> verdict, index |-> 1, active |-> TRUE, at |-> at, ul |-> ul]
Secondary(verdict, index, active, at, ul) ==
    [kind |-> "secondary", verdict |-> verdict, index |-> index, active |-> active,
     at |-> at, ul |-> ul]
Field(key) == [kind |-> "field", key |-> key]
Reading(verdict) == [kind |-> "reading", verdict |-> verdict]

Stops(s, result) == [s EXCEPT !.result = result]

-----------------------------------------------------------------------------
(* +XMCI: cells                                                            *)

\* Mutant: a second serving cell is taken.
CellStepManyServing(s, line) ==
    IF s.result # "ok" \/ line = Blank THEN s
    ELSE IF line = Ok THEN IF s.ended THEN Stops(s, "malformed") ELSE [s EXCEPT !.ended = TRUE]
    ELSE IF Len(s.cells) >= MaxResults THEN Stops(s, "too_many")
    ELSE IF s.ended \/ line.kind # "cell" THEN Stops(s, "malformed")
    ELSE IF line.verdict # "ok" THEN Stops(s, line.verdict)
    ELSE [s EXCEPT !.cells = Append(@, line)]

\* The loop of l850gl_l850_cell_parse; parse_cell_line gives the verdict.
CellStep(s, line) ==
    IF s.result # "ok" \/ line = Blank THEN s
    ELSE IF line = Ok THEN IF s.ended THEN Stops(s, "malformed") ELSE [s EXCEPT !.ended = TRUE]
    ELSE IF Len(s.cells) >= MaxResults THEN Stops(s, "too_many")
    ELSE IF s.ended \/ line.kind # "cell" THEN Stops(s, "malformed")
    ELSE IF line.verdict # "ok" THEN Stops(s, line.verdict)
    ELSE IF line.serving /\ \E i \in DOMAIN s.cells : s.cells[i].serving
      THEN Stops(s, "malformed")
    ELSE [s EXCEPT !.cells = Append(@, line)]

-----------------------------------------------------------------------------
(* +GTCAINFO: carriers                                                     *)

NoSlots == [i \in {} |-> Blank]

Put(slots, index, line) ==
    [i \in DOMAIN slots \cup {index} |-> IF i = index THEN line ELSE slots[i]]

\* The loop of l850gl_l850_ca_parse; parse_primary_record and
\* parse_secondary_record give the verdict, which is "malformed" for any other
\* number of fields, after the tests of the header and of the count.
CaStep(s, line) ==
    IF s.result # "ok" \/ line = Blank THEN s
    ELSE IF line = Other THEN Stops(s, "malformed")
    ELSE IF line.kind = "header"
      THEN IF s.declared # 0 THEN Stops(s, "malformed")
           ELSE IF line.slots = 0 THEN Stops(s, "range")
           ELSE IF line.slots > MaxSlots THEN Stops(s, "too_many")
           ELSE [s EXCEPT !.declared = line.slots]
    ELSE IF s.declared = 0 THEN Stops(s, "malformed")
    ELSE IF s.count >= s.declared THEN Stops(s, "count_mismatch")
    ELSE IF line.verdict # "malformed" /\ line.kind = "secondary" /\ line.index \notin 2..MaxSlots
      THEN Stops(s, "range")
    ELSE IF line.verdict # "ok" THEN Stops(s, line.verdict)
    ELSE IF line.index > s.declared THEN Stops(s, "count_mismatch")
    ELSE IF line.index \in DOMAIN s.slots THEN Stops(s, "duplicate")
    ELSE [s EXCEPT !.slots = Put(@, line.index, line), !.count = @ + 1]

\* What is left to check after the loop, in the order of the code.
CaVerdict(s) ==
    LET slots == s.slots
        active == {i \in DOMAIN slots : slots[i].active}
    IN  IF s.result # "ok" THEN s.result
        ELSE IF s.declared = 0 THEN "empty"
        ELSE IF 1 \notin active THEN "missing_primary"
        ELSE IF s.count # s.declared THEN "count_mismatch"
        ELSE IF \E i \in 2..s.declared : slots[i].ul # slots[1].ul THEN "range"
        ELSE IF \E i, j \in active : i # j /\ slots[i].at = slots[j].at THEN "duplicate"
        ELSE "ok"

-----------------------------------------------------------------------------
(* The NVM answer and the voltage                                          *)

NvmKeys == {"frequency", "rat", "psc_or_pci", "band_info", "inter_freq_lock_support"}

\* The loop of l850gl_l850_nvm_parse; every key must be there.
NvmStep(s, line) ==
    IF s.result # "ok" \/ line = Blank THEN s
    ELSE IF line.kind # "field" \/ line.key \notin NvmKeys \ s.seen THEN Stops(s, "malformed")
    ELSE [s EXCEPT !.seen = @ \cup {line.key}]

\* l850gl_l850_voltage_parse: one line that is not blank.
VoltageStep(s, line) ==
    IF s.result # "ok" \/ line = Blank THEN s
    ELSE IF s.record # Blank THEN Stops(s, "malformed")
    ELSE [s EXCEPT !.record = line]

-----------------------------------------------------------------------------
(* The walks                                                               *)

Kinds == {"cells", "carriers", "nvm", "voltage"}

Start ==
    [cells    |-> [result |-> "ok", ended |-> FALSE, cells |-> <<>>],
     carriers |-> [result |-> "ok", declared |-> 0, count |-> 0, slots |-> NoSlots],
     nvm      |-> [result |-> "ok", seen |-> {}],
     voltage  |-> [result |-> "ok", record |-> Blank]]

Step(kind, s, line) ==
    CASE kind = "cells" -> CellStep(s, line)
      [] kind = "carriers" -> CaStep(s, line)
      [] kind = "nvm" -> NvmStep(s, line)
      [] kind = "voltage" -> VoltageStep(s, line)

\* The state of the walk after each line.
WalkAfter(kind, lines) ==
    LET after[n \in 0..Len(lines)] ==
          IF n = 0 THEN Start[kind] ELSE Step(kind, after[n - 1], lines[n])
    IN  after

Walk(kind, lines) == WalkAfter(kind, lines)[Len(lines)]

CellParse(lines) ==
    LET s == Walk("cells", lines)
        result == IF s.result = "ok" /\ s.cells = <<>> THEN "empty" ELSE s.result
    IN  [result |-> result, cells |-> IF result = "ok" THEN s.cells ELSE <<>>]

\* If nothing is wrong, every slot is filled.
CaParse(lines) ==
    LET s == Walk("carriers", lines)
        active == {i \in DOMAIN s.slots : s.slots[i].active}
    IN  [result |-> CaVerdict(s),
         carriers |-> IF CaVerdict(s) = "ok" THEN Selected(s.slots, active) ELSE <<>>]

NvmParse(lines) ==
    LET s == Walk("nvm", lines)
    IN  IF s.result = "ok" /\ s.seen # NvmKeys
          THEN IF s.seen = {} THEN "empty" ELSE "malformed"
          ELSE s.result

VoltageParse(lines) ==
    LET s == Walk("voltage", lines)
    IN  IF s.result # "ok" THEN s.result
        ELSE IF s.record = Blank THEN "empty"
        ELSE IF s.record.kind # "reading" THEN "malformed"
        ELSE s.record.verdict
=============================================================================
