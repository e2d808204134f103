--------------------------- MODULE MCDwMmcTransfer ---------------------------
(* Small instances of DwMmcTransfer for TLC.                               *)
EXTENDS DwMmcTransfer

\* Neighbouring blocks differ.
Stripes == {[b \in Blocks |-> IF b % 2 = 0 THEN "a" ELSE "b"]}

\* One, two and three blocks to write.
Writes == {<<"b">>, <<"b", "a">>, <<"b", "a", "a">>}
PairWrites == {<<"b", "a">>}

AnyFault == FaultTypes \ {"stop"}
OnlyData == {"data"}
=============================================================================
