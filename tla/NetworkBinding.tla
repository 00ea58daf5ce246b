--------------------------- MODULE NetworkBinding ---------------------------
(***************************************************************************)
(* The interface sections of /etc/config/network as network_binding.c      *)
(* sees them.  A section is "bound" if it is an interface of protocol      *)
(* modemmanager for the modem's device; SafeSection are the sections that  *)
(* are named and whose name has safe characters only.                      *)
(***************************************************************************)
EXTENDS FiniteSets, Naturals

CONSTANTS
    Section,      \* sections of the file
    SafeSection   \* the ones with a name that section_name_is_safe accepts

ASSUME SafeSectionAssumption == SafeSection \subseteq Section

\* allowedmode and preferredmode, with the values set_modes may write.
Intent == [allowed : (SUBSET {"3g", "4g"}) \ {{}}, preferred : {"none", "3g", "4g"}]

\* l850gl_network_modes_are_valid
ModesAreValid(i) == i.preferred = "none" \/ i.allowed = {"3g", "4g"}

Matches(file) == {s \in Section : file[s].bound}

\* scan_consider over all sections, then scan_finish.
Lookup(file) ==
    IF Matches(file) = {} THEN "none"
    ELSE IF Cardinality(Matches(file)) # 1 \/ ~(Matches(file) \subseteq SafeSection)
           THEN "ambiguous" ELSE "unique"

\* Mutant: the section is found again by its name alone.
IsExactSectionByName(file, s) == s \in SafeSection

\* find_exact_section
IsExactSection(file, s) == Matches(file) = {s} /\ s \in SafeSection

\* uci_set of both options and uci_commit, which merges them into the file
\* as it is by then.
Committed(file, s, i) == [file EXCEPT ![s].modes = i]
=============================================================================
