----------------------------- MODULE MCHostBus -----------------------------
(***************************************************************************)
(* Instances of HostBus for TLC: base clocks at the ends of their range and*)
(* off the grid of the dividers; references up to the largest that the     *)
(* eight-bit divider of the DesignWare core brings down to 400 kHz.        *)
(***************************************************************************)
EXTENDS HostBus

MCBaseMHz == {0, 1, 51, 63, 200, 255}
MCRefHz == {400000, 24000000, 49500001, 99000000, 204000000}
=============================================================================
