------------------------------ MODULE Answers ------------------------------
(***************************************************************************)
(* The pure parts of the bridge on all small inputs: an input is an answer *)
(* of the modem that grows line by line, a lock request with its answer, or*)
(* the modes under which bands are selected.  The walks of AtAnswers are   *)
(* compared with the answers the documentation describes, the lock with    *)
(* what comes back, RadioPolicy with what is documented of set_bands.      *)
(***************************************************************************)
EXTENDS LteBands, AtAnswers, RadioPolicy

CONSTANTS
    Lines,      \* for each kind of answer, the lines it is built of
    MaxLines,   \* and the number of lines
    Modes       \* current modes of a modem

\* The lines of an answer of +GTCAINFO as parse_primary_record and
\* parse_secondary_record tell them apart.
ASSUME AnswersAssumption ==
    /\ DOMAIN Lines = Kinds
    /\ \A l \in Lines["carriers"] :
         \/ l \in {Blank, Other}
         \/ l.kind = "header" /\ l.slots \in Nat
         \/ l.kind = "primary" /\ l.index = 1 /\ l.active = TRUE
         \/ l.kind = "secondary" /\ l.index \in Nat /\ l.active \in BOOLEAN

VARIABLE input

\* Each first and last channel of both tables, and the channels beside them.
Channels ==
    LET ends == {EarfcnRanges[i][j] : i \in DOMAIN EarfcnRanges, j \in {1, 2}}
                  \cup {CaBandRanges[i][j] : i \in DOMAIN CaBandRanges, j \in {2, 3}}
    IN  ends \cup {e + 1 : e \in ends} \cup {e - 1 : e \in ends \ {0}} \cup {ClearFrequency}

Locks(earfcn) ==
    {SetLock(earfcn, FALSE, 0)} \cup {SetLock(earfcn, TRUE, pci) : pci \in {0, 1, MaxPci, MaxPci + 1}}

Init ==
    \/ \E k \in DOMAIN Lines : input = [kind |-> k, lines |-> <<>>]
    \/ input = [kind |-> "lock", lock |-> ClearLock]
    \/ \E e \in Channels : \E l \in Locks(e) : input = [kind |-> "lock", lock |-> l]
    \/ \E m \in Modes : input = [kind |-> "modes", modes |-> m]

\* The modem sends another line.
Line ==
    /\ input.kind \in DOMAIN Lines
    /\ Len(input.lines) < MaxLines[input.kind]
    /\ \E l \in Lines[input.kind] : input' = [input EXCEPT !.lines = Append(@, l)]

Spec == Init /\ [][Line]_input

-----------------------------------------------------------------------------
(* What a good answer is, without saying how it is read.                   *)

IsRecord(line) == line.kind \in {"primary", "secondary"}

\* Good cells, at most one of them serving, and maybe OK at the end.
CellsAreGood(lines) ==
    LET cells == {i \in DOMAIN lines : lines[i] \notin {Blank, Ok}}
    IN  /\ Len(Selected(lines, cells)) \in 1..MaxResults
        /\ \A i \in cells : lines[i].kind = "cell" /\ lines[i].verdict = "ok"
        /\ \A i, j \in cells : lines[i].serving /\ lines[j].serving => i = j
        /\ \A i, j \in DOMAIN lines : lines[i] = Ok /\ lines[j] # Blank => j <= i

\* A header and then good records, one for each slot it declares, the primary
\* in the first; one uplink; the active carriers differ.
CarriersAreGood(lines) ==
    LET records == {i \in DOMAIN lines : IsRecord(lines[i])}
    IN  \E h \in DOMAIN lines :
          /\ lines[h].kind = "header" /\ lines[h].slots \in 1..MaxSlots
          /\ \A i \in DOMAIN lines \ {h} : lines[i] = Blank \/ (i \in records /\ i > h)
          /\ \A i \in records : lines[i].verdict = "ok"
          /\ {lines[i].index : i \in records} = 1..lines[h].slots
          /\ \A i, j \in records : lines[i].index = lines[j].index => i = j
          /\ \A i \in records : lines[i].kind = "primary" <=> lines[i].index = 1
          /\ \A i, j \in records : lines[i].ul = lines[j].ul
          /\ \A i, j \in records : lines[i].active /\ lines[j].active
                                     /\ lines[i].at = lines[j].at => i = j

\* Each key once, and nothing else.
NvmIsGood(lines) ==
    LET fields == {i \in DOMAIN lines : lines[i] # Blank}
    IN  /\ \A i \in fields : lines[i].kind = "field"
        /\ {lines[i].key : i \in fields} = NvmKeys
        /\ \A i, j \in fields : lines[i].key = lines[j].key => i = j

\* One good reading, and nothing else.
VoltageIsGood(lines) ==
    \E i \in DOMAIN lines :
        /\ lines[i].kind = "reading" /\ lines[i].verdict = "ok"
        /\ \A j \in DOMAIN lines \ {i} : lines[j] = Blank

CellsExact(lines) ==
    /\ CellParse(lines).result = "ok" <=> CellsAreGood(lines)
    /\ CellsAreGood(lines) =>
         CellParse(lines).cells
           = Selected(lines, {i \in DOMAIN lines : lines[i].kind = "cell"})

CarriersExact(lines) ==
    LET p == CaParse(lines)
    IN  /\ p.result = "ok" <=> CarriersAreGood(lines)
        /\ p.result = "ok" =>
             /\ {p.carriers[i] : i \in DOMAIN p.carriers}
                  = {lines[i] : i \in {j \in DOMAIN lines : IsRecord(lines[j]) /\ lines[j].active}}
             /\ \A i \in DOMAIN p.carriers : p.carriers[i].kind = "primary" <=> i = 1
             /\ p.carriers # <<>>

(***************************************************************************)
(* An answer is accepted exactly if it is good, whatever the order, number *)
(* and repetition of its lines, and then nothing of it is lost: the cells  *)
(* are all there in order; the carriers are the active ones, the primary   *)
(* first and alone, so that get_carrier_info always finds one.  Fail-      *)
(* closed parsing is what docs/threat-model.md relies on.                  *)
(***************************************************************************)
AnswersExact ==
    /\ input.kind = "cells" => CellsExact(input.lines)
    /\ input.kind = "carriers" => CarriersExact(input.lines)
    /\ input.kind = "nvm" => (NvmParse(input.lines) = "ok" <=> NvmIsGood(input.lines))
    /\ input.kind = "voltage" => (VoltageParse(input.lines) = "ok" <=> VoltageIsGood(input.lines))

(***************************************************************************)
(* A lock that set_cell_lock accepts is recognised when it is read back,   *)
(* in every form the firmware stores it, and is not taken for any other    *)
(* lock of the channel, nor for no lock; one that it refuses is never      *)
(* recognised.  A channel is in one band at most, and a carrier of         *)
(* get_carrier_info can be locked under the band it is reported with.      *)
(***************************************************************************)
LockRoundTrip ==
    input.kind = "lock" =>
        LET lock == input.lock
            earfcn == lock.earfcn
            band == EarfcnToBand(earfcn)
        IN  /\ RequestIsValid(lock) =>
                 \A v \in Stored(Command(lock)) :
                    /\ NvmDecode(v).result = "ok"
                    /\ \A other \in {lock, ClearLock} \cup Locks(earfcn) :
                         RequestIsValid(other) =>
                            (LockStateMatches(NvmDecode(v), other) <=> other = lock)
            /\ ~RequestIsValid(lock) =>
                 \A v \in Stored([Command(lock) EXCEPT !.enable = 1]) :
                    NvmDecode(v).result # "ok"
            /\ \A i \in DOMAIN EarfcnRanges :
                 EarfcnRanges[i][1] <= earfcn /\ earfcn <= EarfcnRanges[i][2]
                    => EarfcnRanges[i][3] = band
            /\ \A i \in DOMAIN CaBandRanges :
                 DownlinkIsValid(CaBandRanges[i][1], earfcn) => CaBandRanges[i][1] = band

\* A band request is accepted exactly if the documentation calls it valid for
\* the modem's current modes, and is then completed with every band of the
\* other allowed families (method_set_bands).
BandPolicyExact == input.kind = "modes" => PolicyExact(input.modes)
=============================================================================
