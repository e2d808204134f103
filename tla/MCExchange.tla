----------------------------- MODULE MCExchange -----------------------------
(***************************************************************************)
(* An instance of Exchange for TLC.  The noise: single bits and bursts of  *)
(* up to seven bits in a command and in a native answer, of up to sixteen  *)
(* in a block, the lengths that the two checksums are sure to notice, at   *)
(* both ends of a frame, in its index, its content and its checksum, and   *)
(* across their borders, in the header and the register of an R2.  The     *)
(* fillings: all ones, words whose neighbours differ by the bit and by the *)
(* half-byte, and one whose lowest word is empty.                          *)
(***************************************************************************)
EXTENDS Exchange

MCCards ==
    {[type |-> "sd", highCapacity |-> FALSE], [type |-> "sd", highCapacity |-> TRUE],
     [type |-> "mmc", highCapacity |-> TRUE]}

MCNoise ==
    {{b} : b \in {0, 1, 7, 8, 17, 39, 40, 45, 46, 47}}
    \cup {{1, 2}, {7, 8}, {44, 45}, 1 .. 7, 5 .. 11, 36 .. 42, {9, 12, 15}}

MCReplyNoise ==
    {{b} : b \in {0, 7, 8, 20, 39, 45, 46, 47, 62, 127, 128, 134, 135}}
    \cup {1 .. 7, 5 .. 11, 36 .. 42, 121 .. 127, 126 .. 132, {0, 3, 6}, {40, 43, 46}}

MCBlockNoise ==
    {{0}, {31}, {62}, {127}, 3 .. 18, 100 .. 115, {40, 49, 55}}

MCFillings ==
    {0 .. 511, {b \in 0 .. 511 : b % 3 = 0}, {b \in 0 .. 511 : (b \div 4) % 2 = 1},
     {b \in 32 .. 511 : b % 2 = 1}}
=============================================================================
