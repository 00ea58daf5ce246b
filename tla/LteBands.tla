------------------------------ MODULE LteBands ------------------------------
(***************************************************************************)
(* LTE channel numbers and the frequency lock as the modem stores it       *)
(* (l850_cell.c, l850_ca.c): which band an EARFCN belongs to, what the     *)
(* FREQ_LOCK command writes, how the NVM answer is read back and when the  *)
(* state read back is the one requested.  Numbers are the code's own, so   *)
(* that every boundary of the tables can be checked.                       *)
(***************************************************************************)
EXTENDS Naturals, Sequences, FiniteSetsExt

\* earfcn_ranges: first and last EARFCN, band
EarfcnRanges == <<
     <<0, 599, 1>>, <<600, 1199, 2>>, <<1200, 1949, 3>>, <<1950, 2399, 4>>,
     <<2400, 2649, 5>>, <<2650, 2749, 6>>, <<2750, 3449, 7>>, <<3450, 3799, 8>>,
     <<3800, 4149, 9>>, <<4150, 4749, 10>>, <<4750, 4949, 11>>, <<5010, 5179, 12>>,
     <<5180, 5279, 13>>, <<5280, 5379, 14>>, <<5730, 5849, 17>>,
     <<5850, 5999, 18>>, <<6000, 6149, 19>>, <<6150, 6449, 20>>,
     <<6450, 6599, 21>>, <<6600, 7399, 22>>, <<7500, 7699, 23>>,
     <<7700, 8039, 24>>, <<8040, 8689, 25>>, <<8690, 9039, 26>>,
     <<9040, 9209, 27>>, <<9210, 9659, 28>>, <<9660, 9769, 29>>,
     <<9770, 9869, 30>>, <<9870, 9919, 31>>, <<9920, 10359, 32>>,
     <<36000, 36199, 33>>, <<36200, 36349, 34>>, <<36350, 36949, 35>>,
     <<36950, 37549, 36>>, <<37550, 37749, 37>>, <<37750, 38249, 38>>,
     <<38250, 38649, 39>>, <<38650, 39649, 40>>, <<39650, 41589, 41>>,
     <<41590, 43589, 42>>, <<43590, 45589, 43>>, <<45590, 46589, 44>>,
     <<46590, 46789, 45>>, <<46790, 54539, 46>>, <<54540, 55239, 47>>,
     <<55240, 56739, 48>>, <<65536, 66435, 65>>, <<66436, 67335, 66>>,
     <<67336, 67535, 67>>, <<67536, 67835, 68>>, <<67836, 68335, 69>>,
     <<68336, 68585, 70>>, <<68586, 68935, 71>>, <<68936, 68985, 72>>,
     <<68986, 69035, 73>>, <<69036, 69465, 74>>, <<69466, 70315, 75>>,
     <<70316, 70365, 76>>, <<70366, 70545, 85>>>>

\* ca_band_ranges: band, downlink and uplink channels
CaBandRanges == <<
     <<1, 0, 599, 18000, 18599>>, <<2, 600, 1199, 18600, 19199>>,
     <<3, 1200, 1949, 19200, 19949>>, <<4, 1950, 2399, 19950, 20399>>,
     <<5, 2400, 2649, 20400, 20649>>, <<7, 2750, 3449, 20750, 21449>>,
     <<8, 3450, 3799, 21450, 21799>>, <<11, 4750, 4949, 22750, 22949>>,
     <<12, 5010, 5179, 23010, 23179>>, <<13, 5180, 5279, 23180, 23279>>,
     <<17, 5730, 5849, 23730, 23849>>, <<18, 5850, 5999, 23850, 23999>>,
     <<19, 6000, 6149, 24000, 24149>>, <<20, 6150, 6449, 24150, 24449>>,
     <<21, 6450, 6599, 24450, 24599>>, <<26, 8690, 9039, 26690, 27039>>,
     <<28, 9210, 9659, 27210, 27659>>, <<30, 9770, 9869, 27660, 27759>>,
     <<38, 37750, 38249, 37750, 38249>>, <<39, 38250, 38649, 38250, 38649>>,
     <<40, 38650, 39649, 38650, 39649>>, <<41, 39650, 41589, 39650, 41589>>,
     <<66, 66436, 67335, 131972, 132671>>>>

NoBand == 0

\* l850gl_l850_earfcn_to_band: the first range that holds the channel.
EarfcnToBand(earfcn) ==
    LET hits == {i \in DOMAIN EarfcnRanges :
                   EarfcnRanges[i][1] <= earfcn /\ earfcn <= EarfcnRanges[i][2]}
    IN  IF hits = {} THEN NoBand ELSE EarfcnRanges[Min(hits)][3]

\* find_band_range, band_downlink_earfcn_is_valid
DownlinkIsValid(band, earfcn) ==
    \E i \in DOMAIN CaBandRanges :
        /\ CaBandRanges[i][1] = band
        /\ \A j \in 1..(i - 1) : CaBandRanges[j][1] # band
        /\ CaBandRanges[i][2] <= earfcn /\ earfcn <= CaBandRanges[i][3]

-----------------------------------------------------------------------------
(* The lock.  A request is to clear, or names a channel and maybe a cell;  *)
(* no cell is the wildcard.                                                *)

Wildcard == 65535         \* L850GL_L850_PCI_WILDCARD
ClearFrequency == 65535   \* L850GL_L850_CLEAR_FREQUENCY
MaxPci == 503

ClearLock == [clear |-> TRUE, earfcn |-> ClearFrequency, hasPci |-> FALSE, pci |-> Wildcard]
SetLock(earfcn, hasPci, pci) ==
    [clear |-> FALSE, earfcn |-> earfcn, hasPci |-> hasPci, pci |-> pci]

\* The tests of method_set_cell_lock on its arguments.
RequestIsValid(lock) ==
    lock.clear \/ (EarfcnToBand(lock.earfcn) # NoBand /\ (lock.hasPci => lock.pci <= MaxPci))

\* l850gl_l850_build_set_command and l850gl_l850_clear_command: the arguments
\* rat, band, enable, frequency and PCI of AT@SIC:FREQ_LOCK.
Command(lock) ==
    IF lock.clear THEN [rat |-> 3, band |-> 255, enable |-> 0,
                        frequency |-> ClearFrequency, pci |-> Wildcard]
    ELSE [rat |-> 3, band |-> EarfcnToBand(lock.earfcn), enable |-> 1,
          frequency |-> lock.earfcn, pci |-> IF lock.hasPci THEN lock.pci ELSE Wildcard]

\* External: what the NVM holds after the command.  Firmware reports the band
\* or leaves it out, and may forget the RAT of a lock that is off.
Stored(command) ==
    {[frequency |-> command.frequency, rat |-> rat, pci |-> command.pci,
      bandInfo |-> band, enabled |-> command.enable] :
        rat \in IF command.enable = 1 THEN {command.rat} ELSE {command.rat, 255},
        band \in IF command.enable = 1 THEN {0, 255, command.band} ELSE {0, 255}}

Bad(result) == [result |-> result, enabled |-> FALSE, earfcn |-> 0, hasPci |-> FALSE, pci |-> 0]

\* Mutant: the wildcard is read as a cell of that number.
NvmDecodeWildcardCell(v) ==
    [result |-> "ok", enabled |-> v.enabled = 1, earfcn |-> v.frequency,
     hasPci |-> v.enabled = 1, pci |-> v.pci]

\* l850gl_l850_nvm_parse once it has the five numbers.
NvmDecode(v) ==
    IF v.pci > Wildcard \/ v.enabled > 1 THEN Bad("range")
    ELSE IF v.enabled = 0
      THEN IF \/ v.frequency # ClearFrequency \/ v.pci # Wildcard
              \/ v.rat \notin {3, 255} \/ v.bandInfo \notin {0, 255}
             THEN Bad("malformed")
             ELSE [result |-> "ok", enabled |-> FALSE, earfcn |-> ClearFrequency,
                   hasPci |-> FALSE, pci |-> Wildcard]
    ELSE IF v.rat # 3 \/ EarfcnToBand(v.frequency) = NoBand \/ (v.pci > MaxPci /\ v.pci # Wildcard)
      THEN Bad(IF v.frequency = ClearFrequency THEN "sentinel" ELSE "range")
    ELSE IF v.bandInfo \notin {0, 255, EarfcnToBand(v.frequency)} THEN Bad("range")
    ELSE [result |-> "ok", enabled |-> TRUE, earfcn |-> v.frequency,
          hasPci |-> v.pci # Wildcard, pci |-> v.pci]

\* l850gl_l850_lock_state_matches
LockStateMatches(state, lock) ==
    IF lock.clear
      THEN ~state.enabled /\ state.earfcn = ClearFrequency /\ state.pci = Wildcard
      ELSE /\ state.enabled /\ state.earfcn = lock.earfcn
           /\ state.hasPci = lock.hasPci
           /\ state.pci = IF lock.hasPci THEN lock.pci ELSE Wildcard
=============================================================================
