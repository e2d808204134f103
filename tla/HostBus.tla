------------------------------ MODULE HostBus ------------------------------
(***************************************************************************)
(* The calls with which SdioSdmmc::init sets the bus up, over each of the  *)
(* two controllers.  Here a call takes several steps of the controller, it *)
(* can fail half-way, and a card is heard only while its clock runs.       *)
(***************************************************************************)
EXTENDS HostCalls

CONSTANTS BaseMHz, RefHz, Backends

ASSUME BackendsAssumption == Backends \subseteq {"Sdhci", "DwMmc"} /\ Backends # {}

\* base_clock_hz() reads eight bits of MHz; a reference of zero leaves the
\* DesignWare driver without clock programming.
ASSUME BaseAssumption == BaseMHz \subseteq 0 .. 255 /\ BaseMHz # {}
ASSUME RefAssumption == RefHz \subseteq Nat \ {0} /\ RefHz # {}

\* backend: the controller in use; pc: the call init is in; mode: the SD
\* access mode being tried; wide: bus_width is not Bit1; granted: the speed of
\* the last set_clock that succeeded; requested: with those asked for after it;
\* refused: the last set_clock has failed.
VARIABLES sd, dw, backend, pc, mode, wide, granted, requested, refused

vars == <<call, answer, step, sd, dw, backend, pc, mode, wide, granted, requested, refused>>

Sdhci == INSTANCE SdhciBus
DwMmc == INSTANCE DwMmcBus

Clocked == IF backend = "Sdhci" THEN Sdhci!Clocked ELSE DwMmc!Clocked
Rate == IF backend = "Sdhci" THEN Sdhci!Rate ELSE DwMmc!Rate

Rank == [None |-> 0, Sdr104 |-> 1, Sdr50 |-> 2, Ddr50 |-> 3, HighSpeed |-> 4]

-----------------------------------------------------------------------------
(* The order of the calls.  A move is the next call with the access mode it*)
(* is made for; where the card decides, there are several.                 *)

To(next) == [pc : next, mode : {"None"}]
In(next) == [pc : {next}, mode : {mode}]

TryBelow(rank) ==
    {[pc |-> IF m = "HighSpeed" THEN "SwitchMode" ELSE "Cmd11", mode |-> m] :
        m \in {n \in DOMAIN Rank : Rank[n] > rank}} \cup To({"Done"})

TryNext == TryBelow(Rank[mode])

Slower == To({"HsTiming", "Done"})
Ladder == Slower \cup (IF wide THEN To({"Hs200Voltage"}) ELSE {})

Does(op, arg, ok, err) == [call |-> [op |-> op, arg |-> arg], ok |-> ok, err |-> err]
Command(ok, err) == Does("command", "none", ok, err)

Names == {"BringUp", "SetBit1", "SetIdClock", "Identify", "Acmd6", "SetBit4",
          "SetDefault", "SpeedQuery", "Cmd11", "SdVoltage", "SwitchMode",
          "ModeClock", "ModeStatus", "Tune19", "ReadExtCsd", "SetBit8Mmc",
          "Width8", "SetBit4Mmc", "Width4", "Hs200Voltage", "Hs200Timing",
          "Hs200Clock", "Tune21", "Hs200Verify", "Rollback", "HsTiming", "HsClock"}

\* Mutant: an error of CMD11 does not end the attempt.
AfterCmd11Anyway(name) ==
    CASE name = "Cmd11" -> Command(In("SdVoltage"), In("SdVoltage"))
      [] name \in {"Identify", "Acmd6"} -> Command(To({"SetBit4"}), To({"Failed"}))
      [] name = "SwitchMode" -> Command(In("ModeClock"), TryNext)
      [] OTHER -> Command(TryNext, TryNext)

\* The commands to an SD card.  CMD6 and CMD13 may also answer that the card
\* is not in the mode.
SdCommand(name) ==
    CASE name = "Identify"   -> Command(To({"Acmd6", "ReadExtCsd"}), To({"Failed"}))
      [] name = "Acmd6"      -> Command(To({"SetBit4"}), To({"Failed"}))
      [] name = "SpeedQuery" -> Command(TryBelow(0), To({"Done"}))
      [] name = "Cmd11"      -> Command(In("SdVoltage"), TryNext)
      [] name = "SwitchMode" -> Command(In("ModeClock") \cup TryNext, TryNext)
      [] name = "ModeStatus"
            -> Command(TryNext \cup IF mode \in {"Sdr104", "Sdr50"} THEN In("Tune19")
                                    ELSE To({"Done"}), TryNext)

MmcCommand(name) ==
    CASE name = "ReadExtCsd"  -> Command(To({"SetBit8Mmc"}), To({"Failed"}))
      [] name = "Width8"      -> Command(Ladder \cup To({"Hs200Voltage"}), To({"SetBit4Mmc"}))
      [] name = "Width4"      -> Command(Ladder \cup To({"Hs200Voltage"}), Ladder)
      [] name = "Hs200Timing" -> Command(To({"Hs200Clock"}), Slower)
      [] name = "Hs200Verify" -> Command(To({"Done", "Rollback"}), Slower)
      [] name = "HsTiming"    -> Command(To({"HsClock"}), To({"Done"}))

HostStep(name) ==
    CASE name = "BringUp"      -> Does("bring_up", "none", To({"Ready"}), To({"Dead"}))
      [] name = "SetBit1"      -> Does("width", "Bit1", To({"SetIdClock"}), To({"Failed"}))
      [] name = "SetIdClock"   -> Does("clock", "Identification",
                                       To({"Identify"}), To({"Failed"}))
      [] name = "SetBit4"      -> Does("width", "Bit4", To({"SetDefault", "SpeedQuery"}),
                                       To({"Failed"}))
      [] name = "SetDefault"   -> Does("clock", "Default", To({"Done"}), To({"Failed"}))
      [] name = "SdVoltage"    -> Does("voltage", "V180", In("SwitchMode"), TryNext)
      [] name = "ModeClock"    -> Does("clock", mode, In("ModeStatus"), TryNext)
      [] name = "Tune19"       -> Does("tuning", "Cmd19", To({"Done"}), TryNext)
      [] name = "SetBit8Mmc"   -> Does("width", "Bit8", To({"Width8"}), To({"SetBit4Mmc"}))
      [] name = "SetBit4Mmc"   -> Does("width", "Bit4", To({"Width4"}), Ladder)
      [] name = "Hs200Voltage" -> Does("voltage", "V180", To({"Hs200Timing"}),
                                       To({"Hs200Timing"}))
      [] name = "Hs200Clock"   -> Does("clock", "Hs200", To({"Tune21"}), To({"Rollback"}))
      [] name = "Tune21"       -> Does("tuning", "Cmd21", To({"Hs200Verify"}),
                                       To({"Rollback"}))
      [] name = "Rollback"     -> Does("clock", "Default", Slower, Slower)
      [] name = "HsClock"      -> Does("clock", "HighSpeed", To({"Done"}), To({"Done"}))

SdCommands == {"Identify", "Acmd6", "SpeedQuery", "Cmd11", "SwitchMode", "ModeStatus"}
MmcCommands == {"ReadExtCsd", "Width8", "Width4", "Hs200Timing", "Hs200Verify", "HsTiming"}

Doing(name) == CASE name \in SdCommands -> SdCommand(name)
                 [] name \in MmcCommands -> MmcCommand(name)
                 [] OTHER -> HostStep(name)

NoCall == [op |-> "none", arg |-> "none"]

-----------------------------------------------------------------------------

Init ==
    /\ backend \in Backends
    /\ Sdhci!Init /\ DwMmc!Init
    /\ IF backend = "Sdhci" THEN dw.ref = CHOOSE r \in RefHz : TRUE
       ELSE ~sd.external /\ sd.base = CHOOSE b \in Sdhci!Bases : TRUE
    /\ pc = "Down" /\ mode = "None" /\ wide = FALSE
    /\ granted = "Identification" /\ requested = {"Identification"} /\ refused = FALSE
    /\ call = NoCall /\ answer = "none" /\ step = "Idle"

\* Puts the call of `name'.
Put(name, m) ==
    /\ pc' = name /\ mode' = m /\ answer' = "none"
    /\ call' = IF name \in Names THEN Doing(name)'.call ELSE NoCall

PowerUp ==
    /\ pc \in {"Down", "Dead"}
    /\ UNCHANGED <<sd, dw, backend, wide, granted, requested, refused, step>>
    /\ Put("BringUp", "None")

\* The caller's init, first or again.
CallInit ==
    /\ pc \in {"Ready", "Done", "Failed"}
    /\ UNCHANGED <<sd, dw, backend, wide, granted, requested, refused, step>>
    /\ Put("SetBit1", "None")

\* init takes an answer and makes its next call.  A card decides between
\* several moves; bus_width is set after the card's answer.
TakeAnswer ==
    /\ pc \in Names /\ answer # "none"
    /\ wide' = (wide \/ (answer = "ok" /\ pc \in {"SetBit4", "Width8", "Width4"}))
    /\ \E move \in IF answer = "ok" THEN Doing(pc).ok ELSE Doing(pc).err :
          Put(move.pc, move.mode)
    /\ UNCHANGED <<sd, dw, backend, granted, requested, refused, step>>

\* A command reaches the card when the clock runs, and no update of it is
\* still to come; it can be lost all the same.
Transmit ==
    /\ Asked("command")
    /\ \/ Clocked /\ (backend = "DwMmc" => ~dw.updating) /\ Answer("ok")
       \/ Answer("err")
    /\ UNCHANGED <<sd, dw>>

\* What the answer says of the clock.
Note ==
    /\ granted' = IF answer' # "ok" THEN granted
                  ELSE IF call.op = "clock" THEN call.arg
                  ELSE IF call.op = "bring_up" THEN "Identification" ELSE granted
    /\ requested' = IF call.op # "clock" THEN requested
                    ELSE IF answer' = "ok" THEN {call.arg} ELSE requested \cup {call.arg}
    /\ refused' = IF call.op = "clock" /\ answer' # "none" THEN answer' = "err"
                  ELSE refused

Controller ==
    /\ \/ backend = "Sdhci" /\ Sdhci!Step /\ UNCHANGED dw
       \/ backend = "DwMmc" /\ DwMmc!Step /\ UNCHANGED sd
       \/ Transmit
    /\ Note
    /\ UNCHANGED <<backend, pc, mode, wide>>

ClockUnit ==
    /\ backend = "DwMmc" /\ DwMmc!UnitTakes /\ UNCHANGED sd
    /\ UNCHANGED <<backend, pc, mode, wide, granted, requested, refused>>

Next == PowerUp \/ CallInit \/ TakeAnswer \/ Controller \/ ClockUnit

\* A call is run to its end, and so is init; nobody has to call it.
Spec == Init /\ [][Next]_vars /\ WF_vars(Controller) /\ WF_vars(TakeAnswer)

-----------------------------------------------------------------------------

TypeOK ==
    /\ ChannelTypeOK /\ backend \in Backends
    /\ sd \in Sdhci!Registers /\ dw \in DwMmc!Registers
    /\ pc \in Names \cup {"Down", "Dead", "Ready", "Done", "Failed"}
    /\ mode \in DOMAIN Rank
    /\ wide \in BOOLEAN /\ refused \in BOOLEAN
    /\ granted \in Speeds /\ requested \subseteq Speeds

\* The clock on the card's pin never runs faster than the speed it is set for:
\* behind an SDHCI controller the last one that was granted; behind a DesignWare
\* one, which acts on a request after it has failed, one asked for since then.
NeverTooFast ==
    Clocked => \E s \in IF backend = "Sdhci" THEN {granted} ELSE requested : Rate <= Hz[s]

\* After a set_clock that succeeded, and until the next one, the card has a
\* clock of at least half the speed (or of all of the reference), and the
\* timing bits are those of the speed: no width, voltage or tuning call, failed
\* set-up or earlier init has left something else behind.
GrantedMeansSet ==
    pc \notin {"Down", "Dead"} /\ call.op \notin {"clock", "bring_up"} /\ ~refused
    => /\ Clocked
       /\ IF backend = "Sdhci"
          THEN /\ 2 * Rate > Hz[granted] \/ sd.clk.div = 0
               /\ sd.highSpeed = (granted \notin {"Identification", "Default"})
          ELSE /\ 2 * Rate > Hz[granted] \/ dw.unit.div = 0
               /\ dw.ddr = (granted = "Ddr50")

\* The frequency of the card's clock changes only while the clock is stopped.
NoGlitch == [][(Clocked /\ Clocked') => Rate' = Rate]_vars

\* Changing the voltage sets the SD clock enable bit whatever it was before;
\* yet it never starts a clock that a failed set_clock left stopped.
NoRevival == [][(Asked("voltage") /\ ~Clocked) => ~Clocked']_vars

\* Every call init makes is answered, and init returns.
InitReturns == (pc \in Names) ~> (pc \notin Names)
=============================================================================
