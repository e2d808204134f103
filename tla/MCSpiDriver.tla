----------------------------- MODULE MCSpiDriver -----------------------------
(* Small instances of SpiDriver for TLC: an SD v1 card, an SD v2 card of   *)
(* standard capacity and one of high capacity.                             *)
EXTENDS SpiDriver

Sd1  == [sdV2 |-> FALSE, ccs |-> FALSE, highSpeed |-> FALSE]
Sdsc2 == [sdV2 |-> TRUE, ccs |-> FALSE, highSpeed |-> TRUE]
Sdhc == [sdV2 |-> TRUE, ccs |-> TRUE, highSpeed |-> TRUE]

AllCards == {Sd1, Sdsc2, Sdhc}
OnlySdsc2 == {Sdsc2}
OnlySdhc == {Sdhc}

\* Neighbouring blocks differ.
Stripes == {[b \in Blocks |-> IF b % 2 = 0 THEN "a" ELSE "b"]}
Blank == {[b \in Blocks |-> "a"]}

AnyFault == FaultTypes
NoFault == {}
=============================================================================
