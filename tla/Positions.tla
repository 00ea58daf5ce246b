----------------------------- MODULE Positions -----------------------------
(***************************************************************************)
(* The loops of the bridge that copy some entries of an array, in order:   *)
(* the active slots of a +GTCAINFO answer, the bands that a selection      *)
(* keeps, the cells of an answer.                                          *)
(***************************************************************************)
EXTENDS Naturals, Sequences

\* What has been copied after each round of the loop.
SelectedAfter(s, positions) ==
    LET kept[n \in 0..Len(s)] ==
          IF n = 0 THEN <<>>
          ELSE IF n \in positions THEN Append(kept[n - 1], s[n])
          ELSE kept[n - 1]
    IN  kept

\* The entries of s at these positions.
Selected(s, positions) == SelectedAfter(s, positions)[Len(s)]
=============================================================================
