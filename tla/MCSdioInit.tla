----------------------------- MODULE MCSdioInit -----------------------------
(* Small instances of SdioInit for TLC: one card of every kind that init   *)
(* treats differently, and sets of requests and faults.                    *)
EXTENDS SdioInit

Sd1Plain == [family |-> "Sd1", ccs |-> FALSE, s18a |-> FALSE, modes |-> {}]
Sd2Sdsc  == [family |-> "Sd2", ccs |-> FALSE, s18a |-> FALSE,
             modes |-> {"HighSpeed"}]
Sd2Uhs   == [family |-> "Sd2", ccs |-> TRUE, s18a |-> TRUE,
             modes |-> {"Sdr104", "Sdr50", "Ddr50", "HighSpeed"}]
MmcOld   == [family |-> "Mmc", ccs |-> FALSE, s18a |-> FALSE, modes |-> {}]
MmcHs200 == [family |-> "Mmc", ccs |-> TRUE, s18a |-> FALSE,
             modes |-> {"Hs200", "HighSpeed"}]
MmcHs200Only == [MmcHs200 EXCEPT !.modes = {"Hs200"}]

AllCards == {Sd1Plain, Sd2Sdsc, Sd2Uhs, MmcOld, MmcHs200, MmcHs200Only}
OnlySd2Uhs == {Sd2Uhs}

AnyRequest == BusWidth \cup ClockSpeed \cup {"V180", "Tuning"}
OnlyUhsVoltage == {"V180"}
AnyFault == {"lost", "garbled"}
NoFault == {}
=============================================================================
