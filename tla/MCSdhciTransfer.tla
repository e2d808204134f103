--------------------------- MODULE MCSdhciTransfer ---------------------------
(* Small instances of SdhciTransfer for TLC.                               *)
EXTENDS SdhciTransfer

\* Neighbouring blocks differ.
Stripes == {[b \in Blocks |-> IF b % 2 = 0 THEN "a" ELSE "b"]}

\* One, two, three and four blocks to write.
Writes == {<<"a">>, <<"b">>, <<"b", "a">>, <<"b", "a", "b">>, <<"b", "a", "a", "b">>}
ShortWrites == {<<"a">>, <<"b", "a">>}

AnyFault == FaultTypes
NoFault == {}
=============================================================================
