----------------------------- MODULE MCAnswers -----------------------------
(* Instances of Answers for TLC.                                           *)
EXTENDS Answers, TLC

CONSTANTS l1, l2, l3, u1

\* Two supported LTE bands and one of 3G; l3 is an LTE band the modem lacks.
Family_ == [b \in {l1, l2, l3} |-> "4g"] @@ (u1 :> "3g")
Supported_ == <<u1, l1, l2>>

\* No 2G band is supported; {} is a modem whose modes are not known.
Modes_ == {{"any"}, {}, {"3g"}, {"4g"}, {"3g", "4g"}, {"2g", "4g"}}

\* One line of each sort that a parser tells apart.
Lines_ ==
    [cells |-> {Blank, Ok, Other, CellLine("ok", TRUE), CellLine("ok", FALSE),
                CellLine("sentinel", FALSE)},
     carriers |-> {Blank, Other, Primary("ok", 1, 1), Primary("range", 1, 1),
                   Secondary("ok", 2, TRUE, 1, 1), Secondary("ok", 2, TRUE, 2, 1),
                   Secondary("ok", 2, TRUE, 2, 2), Secondary("ok", 2, FALSE, 1, 1),
                   Secondary("ok", 2, FALSE, 1, 2), Secondary("sentinel", 2, TRUE, 2, 1),
                   Secondary("malformed", 2, TRUE, 2, 1),
                   Secondary("ok", 3, TRUE, 2, 1), Secondary("ok", 3, FALSE, 2, 1),
                   Secondary("ok", 4, FALSE, 2, 1)}
                  \cup {Header(n) : n \in 0..4},
     nvm |-> {Blank, Other} \cup {Field(k) : k \in NvmKeys},
     voltage |-> {Blank, Other, Reading("ok"), Reading("range")}]

MaxLines_ == [cells |-> 6, carriers |-> 4, nvm |-> 6, voltage |-> 3]
=============================================================================
