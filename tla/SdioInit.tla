------------------------------ MODULE SdioInit ------------------------------
(***************************************************************************)
(* The bring-up of a card by SdioSdmmc::init (src/sdio.rs): one action for *)
(* every call the driver makes on its SdioHost, in the order of the code,  *)
(* against a card that may be absent-minded (a command lost, a response    *)
(* garbled after the card acted on it) and a host that may refuse a        *)
(* request.  A `?' of the code is an Err branch that leaves init; a        *)
(* swallowed error is an Err branch that goes on.                          *)
(*                                                                         *)
(* The driver is sequential: what interleaves is the state of three        *)
(* parties, driver, host controller and card, which every call changes on  *)
(* at most two sides and which init never changes atomically.              *)
(*                                                                         *)
(* The card and the host behind the trait are external code: their part is *)
(* modelled from the way init uses them.                                   *)
(***************************************************************************)
EXTENDS Naturals

CONSTANTS
    Cards,         \* the cards that may sit in the slot
    CardRcas,      \* the addresses an SD card may publish in its R6
    Refusable,     \* the requests the host may answer with an error
    CmdFaults,     \* how a command may fail: "lost", "garbled"
    InitPolls,     \* ACMD41 / CMD1 polls before the init timeout
    SwitchPolls,   \* CMD13 polls before the SWITCH timeout
    MaxInits       \* bound: how often init is called

BusWidth == {"Bit1", "Bit4", "Bit8"}
UhsModes == {"Sdr104", "Sdr50", "Ddr50"}
ClockSpeed == {"Identification", "Default", "HighSpeed", "Hs200"} \cup UhsModes
SignalVoltage == {"V330", "V180"}
Families == {"Sd1", "Sd2", "Mmc"}

\* What a card can do.  `modes' is what its CMD6 status or DEVICE_TYPE offers.
CardType == [family : Families, ccs : BOOLEAN, s18a : BOOLEAN,
             modes : SUBSET (UhsModes \cup {"HighSpeed", "Hs200"})]

ASSUME CardsAssumption == Cards \subseteq CardType /\ Cards # {}
ASSUME RcasAssumption == CardRcas \subseteq Nat \ {0} /\ CardRcas # {}
ASSUME FaultsAssumption ==
    /\ Refusable \subseteq BusWidth \cup ClockSpeed \cup {"V180", "Tuning"}
    /\ CmdFaults \subseteq {"lost", "garbled"}
ASSUME BoundsAssumption ==
    InitPolls \in Nat /\ SwitchPolls \in Nat /\ MaxInits \in Nat

VARIABLES
    pc,       \* the call init makes next; "Idle" outside init
    result,   \* "none" before a first init on this card, then as init goes
    inits,    \* how many times init was called
    loc,      \* the locals of init and of the functions it calls
    drv,      \* the fields of SdioSdmmc
    host,     \* what the host controller is set to
    card,     \* the card in the slot
    dev       \* the state of that card

vars == <<pc, result, inits, loc, drv, host, card, dev>>

\* The ladder of SD access modes, in the order they are tried.
Rank == [Sdr104 |-> 1, Sdr50 |-> 2, Ddr50 |-> 3, HighSpeed |-> 4]
NeedsTuning == {"Sdr50", "Sdr104"}

CardStates == {"idle", "ready", "ident", "stby", "tran"}

Locals == [sdV2 : BOOLEAN, polls : Nat, ccs : BOOLEAN, s18a : BOOLEAN,
           cand : DOMAIN Rank \cup {"None"},
           switch : {"Bit8", "Bit4", "Hs200", "HighSpeed", "None"},
           speed : ClockSpeed \cup {"None", "Skipped"}]

Driver == [rca : Nat, highCapacity : BOOLEAN, busWidth : BusWidth,
           kind : {"Sd", "Mmc"}, speedSelection : BOOLEAN]

Host == [width : BusWidth, clock : ClockSpeed, volt : SignalVoltage, tuned : BOOLEAN]

Device == [state : CardStates, rca : Nat, width : BusWidth, timing : ClockSpeed,
           volt : SignalVoltage, switchError : BOOLEAN]

PcSet == {"Idle", "SetBit1", "SetIdClock", "Cmd0", "Cmd8", "Cmd55", "Acmd41",
          "Cmd1Query", "Cmd1", "Cmd2", "Cmd3", "Cmd9", "Cmd7",
          "Cmd55Rca", "Acmd6", "SetBit4", "SetDefault", "SpeedQuery",
          "Cmd11", "SdVoltage", "SwitchMode", "ModeClock", "ModeStatus", "Tune19",
          "ReadExtCsd", "SetWidthMmc", "Cmd6Switch", "Cmd13Poll",
          "Hs200Voltage", "Hs200Clock", "Tune21", "Hs200Verify", "Rollback",
          "HsClock"}

TypeOK ==
    /\ pc \in PcSet
    /\ result \in {"none", "running", "ok", "err"}
    /\ inits \in Nat
    /\ loc \in Locals
    /\ drv \in Driver
    /\ host \in Host
    /\ card \in Cards
    /\ dev \in Device

-----------------------------------------------------------------------------
(* The two ends of the bus.                                                *)

\* A card that has just been powered.
PoweredCard == [state |-> "idle", rca |-> 0, width |-> "Bit1",
                timing |-> "Default", volt |-> "V330", switchError |-> FALSE]

\* CMD0 resets everything but the signaling level, which needs a power cycle.
ResetCard == [PoweredCard EXCEPT !.volt = dev.volt]

\* A data phase needs both ends on the same lines at the same level.
BusAgrees == host.width = dev.width /\ host.volt = dev.volt

Addressed(state) == dev.state = state /\ dev.rca = drv.rca

-----------------------------------------------------------------------------
(* Control.  These formulas say how init goes on after a call: they set pc,*)
(* result and loc.                                                         *)

Step(next) == pc' = next /\ UNCHANGED <<result, loc>>

StepWith(next, locals) == pc' = next /\ loc' = locals /\ UNCHANGED result

\* A `?' on an error: init returns it.
Fail == pc' = "Idle" /\ result' = "err" /\ UNCHANGED loc

\* init returns Ok; `speed' is what the negotiation reports.
Finish(speed) ==
    /\ pc' = "Idle"
    /\ result' = "ok"
    /\ loc' = [loc EXCEPT !.speed = speed]

\* Mutant: the delay is not added to the elapsed time.
PollForever(again, limit, TimedOut) ==
    IF loc.polls >= limit THEN TimedOut ELSE StepWith(again, loc)

\* Mutant: the elapsed time runs backwards.
PollCountsDown(again, limit, TimedOut) ==
    IF loc.polls >= limit
    THEN TimedOut
    ELSE StepWith(again, [loc EXCEPT !.polls = @ - 1])

\* One more turn of a polling loop unless its time is up.
Poll(again, limit, TimedOut) ==
    IF loc.polls >= limit
    THEN TimedOut
    ELSE StepWith(again, [loc EXCEPT !.polls = @ + 1])

\* A command on the wire.  The card acts on it only if it is legal now; the
\* driver may miss the answer, or the card the command.
Exchange(legal, devNew, drvNew, Ok, Err) ==
    /\ \/ legal /\ dev' = devNew /\ drv' = drvNew /\ Ok
       \/ legal /\ "garbled" \in CmdFaults /\ dev' = devNew /\ drv' = drv /\ Err
       \/ (~legal \/ "lost" \in CmdFaults) /\ dev' = dev /\ drv' = drv /\ Err
    /\ UNCHANGED <<inits, host, card>>

\* A request to the host controller, which leaves it alone when it refuses.
HostCall(request, possible, hostNew, drvNew, Ok, Err) ==
    /\ \/ possible /\ host' = hostNew /\ drv' = drvNew /\ Ok
       \/ /\ ~possible \/ request \in Refusable
          /\ host' = host /\ drv' = drv /\ Err
    /\ UNCHANGED <<inits, card, dev>>

SetWidth(width) == [host EXCEPT !.width = width]
SetClock(clock) == [host EXCEPT !.clock = clock, !.tuned = FALSE]

-----------------------------------------------------------------------------
(* Outside init.                                                           *)

Init ==
    /\ pc = "Idle" /\ result = "none" /\ inits = 0
    /\ loc = [sdV2 |-> FALSE, polls |-> 0, ccs |-> FALSE, s18a |-> FALSE,
              cand |-> "None", switch |-> "None", speed |-> "None"]
    /\ drv = [rca |-> 0, highCapacity |-> FALSE, busWidth |-> "Bit1",
              kind |-> "Sd", speedSelection |-> TRUE]
    /\ host = [width |-> "Bit1", clock |-> "Identification",
               volt |-> "V330", tuned |-> FALSE]
    /\ card \in Cards
    /\ dev = PoweredCard

SetSdSpeedSelectionEnabled(enabled) ==
    /\ pc = "Idle"
    /\ drv' = [drv EXCEPT !.speedSelection = enabled]
    /\ UNCHANGED <<pc, result, inits, loc, host, card, dev>>

\* The user changes the card.  A new SD card signals at 3.3 V; an eMMC signals
\* at whatever level its rail, which is the host's, has.
SwapCard ==
    /\ pc = "Idle" /\ result # "none"
    /\ inits < MaxInits
    /\ \E new \in Cards :
          /\ card' = new
          /\ dev' = [PoweredCard EXCEPT
                        !.volt = IF new.family = "Mmc" THEN host.volt ELSE @]
    /\ result' = "none"
    /\ UNCHANGED <<pc, inits, loc, drv, host>>

CallInit ==
    /\ pc = "Idle" /\ inits < MaxInits
    /\ pc' = "SetBit1" /\ result' = "running" /\ inits' = inits + 1
    /\ loc' = [sdV2 |-> FALSE, polls |-> 0, ccs |-> FALSE, s18a |-> FALSE,
               cand |-> "None", switch |-> "None", speed |-> "None"]
    /\ UNCHANGED <<drv, host, card, dev>>

-----------------------------------------------------------------------------
(* Identification: from reset to the transfer state.                       *)

SetBit1 ==
    /\ pc = "SetBit1"
    /\ HostCall("Bit1", TRUE, SetWidth("Bit1"), drv, Step("SetIdClock"), Fail)

SetIdClock ==
    /\ pc = "SetIdClock"
    /\ HostCall("Identification", TRUE, SetClock("Identification"), drv,
                Step("Cmd0"), Fail)

\* CMD0 has no response: the host does not notice that the card missed it.
Cmd0 ==
    /\ pc = "Cmd0"
    /\ \/ Exchange(TRUE, ResetCard, drv, Step("Cmd8"), Fail)
       \/ "lost" \in CmdFaults /\ Exchange(TRUE, dev, drv, Step("Cmd8"), Fail)

\* check_cmd8 with its unwrap_or(false): whatever fails means "not SD v2".
Cmd8 ==
    /\ pc = "Cmd8"
    /\ Exchange(card.family = "Sd2" /\ dev.state = "idle", dev, drv,
                StepWith("Cmd55", [loc EXCEPT !.sdV2 = TRUE]),
                Step("Cmd55"))

\* wait_ready_sd: any error of CMD55 or ACMD41 sends init to wait_ready_mmc.
Cmd55 ==
    /\ pc = "Cmd55"
    /\ Exchange(card.family # "Mmc" /\ dev.state = "idle", dev, drv,
                Step("Acmd41"), Step("Cmd1Query"))

\* The OCR the driver keeps.  A card already at 1.8 V does not offer it again.
WithOcr == [loc EXCEPT !.ccs = card.ccs,
                       !.s18a = card.s18a /\ dev.volt = "V330"]

\* A high-capacity card stays busy for a host that did not set HCS.
Acmd41 ==
    /\ pc = "Acmd41"
    /\ \/ /\ card.ccs => loc.sdV2
          /\ Exchange(card.family # "Mmc" /\ dev.state = "idle",
                      [dev EXCEPT !.state = "ready"], [drv EXCEPT !.kind = "Sd"],
                      StepWith("Cmd2", WithOcr), Step("Cmd1Query"))
       \/ Exchange(card.family # "Mmc" /\ dev.state = "idle", dev, drv,
                   Poll("Cmd55", InitPolls, Step("Cmd1Query")),
                   Step("Cmd1Query"))

\* CMD1 in both its uses: the query and the poll.
OpCond(Busy) ==
    LET legal == card.family = "Mmc" /\ dev.state = "idle"
    IN  \/ Exchange(legal, [dev EXCEPT !.state = "ready"],
                    [drv EXCEPT !.kind = "Mmc"],
                    StepWith("Cmd2", WithOcr), Fail)
        \/ Exchange(legal, dev, drv, Busy, Fail)

Cmd1Query ==
    /\ pc = "Cmd1Query"
    /\ OpCond(StepWith("Cmd1", [loc EXCEPT !.polls = 0]))

Cmd1 ==
    /\ pc = "Cmd1"
    /\ OpCond(Poll("Cmd1", InitPolls, Fail))

Cmd2 ==
    /\ pc = "Cmd2"
    /\ Exchange(dev.state = "ready", [dev EXCEPT !.state = "ident"], drv,
                Step("Cmd3"), Fail)

\* Mutant: the address of the R6 is not kept.
Cmd3KeepsOldRca ==
    /\ pc = "Cmd3"
    /\ \E rca \in IF drv.kind = "Sd" THEN CardRcas ELSE {1} :
          Exchange(dev.state = "ident",
                   [dev EXCEPT !.state = "stby", !.rca = rca], drv,
                   Step("Cmd9"), Fail)

\* An SD card picks its address, an MMC is given address 1.
Cmd3 ==
    /\ pc = "Cmd3"
    /\ \E rca \in IF drv.kind = "Sd" THEN CardRcas ELSE {1} :
          Exchange(dev.state = "ident",
                   [dev EXCEPT !.state = "stby", !.rca = rca],
                   [drv EXCEPT !.rca = rca], Step("Cmd9"), Fail)

Cmd9 ==
    /\ pc = "Cmd9"
    /\ Exchange(Addressed("stby"), dev, drv, Step("Cmd7"), Fail)

\* Mutant: every SD v2 card is taken for a high-capacity one.
Cmd7TrustsCmd8 ==
    /\ pc = "Cmd7"
    /\ Exchange(Addressed("stby"), [dev EXCEPT !.state = "tran"],
                [drv EXCEPT !.highCapacity = loc.sdV2],
                Step(IF drv.kind = "Sd" THEN "Cmd55Rca" ELSE "ReadExtCsd"), Fail)

Cmd7 ==
    /\ pc = "Cmd7"
    /\ Exchange(Addressed("stby"), [dev EXCEPT !.state = "tran"],
                [drv EXCEPT !.highCapacity = loc.ccs],
                Step(IF drv.kind = "Sd" THEN "Cmd55Rca" ELSE "ReadExtCsd"), Fail)

-----------------------------------------------------------------------------
(* SD: four lines, then the fastest access mode that works.                *)

Cmd55Rca ==
    /\ pc = "Cmd55Rca"
    /\ Exchange(Addressed("tran"), dev, drv, Step("Acmd6"), Fail)

Acmd6 ==
    /\ pc = "Acmd6"
    /\ Exchange(dev.state = "tran", [dev EXCEPT !.width = "Bit4"], drv,
                Step("SetBit4"), Fail)

SetBit4 ==
    /\ pc = "SetBit4"
    /\ HostCall("Bit4", TRUE, SetWidth("Bit4"), [drv EXCEPT !.busWidth = "Bit4"],
                Step(IF drv.speedSelection THEN "SpeedQuery" ELSE "SetDefault"),
                Fail)

SetDefault ==
    /\ pc = "SetDefault"
    /\ HostCall("Default", TRUE, SetClock("Default"), drv, Finish("Default"), Fail)

\* The modes try_sd_best_speed_inner still has to try.
Offered == card.modes \cap (IF loc.s18a THEN DOMAIN Rank ELSE {"HighSpeed"})

TryBelow(rank) ==
    LET left == {m \in Offered : Rank[m] > rank}
    IN  \/ left = {} /\ Finish("None")
        \/ \E m \in left :
              /\ \A n \in left : Rank[m] <= Rank[n]
              /\ StepWith(IF m \in UhsModes THEN "Cmd11" ELSE "SwitchMode",
                          [loc EXCEPT !.cand = m])

TryNext == TryBelow(Rank[loc.cand])

SpeedQuery ==
    /\ pc = "SpeedQuery"
    /\ Exchange(dev.state = "tran" /\ BusAgrees, dev, drv, TryBelow(0),
                Finish("Skipped"))

Cmd11 ==
    /\ pc = "Cmd11"
    /\ Exchange(dev.state = "tran", [dev EXCEPT !.volt = "V180"], drv,
                Step("SdVoltage"), TryNext)

SdVoltage ==
    /\ pc = "SdVoltage"
    /\ HostCall("V180", TRUE, [host EXCEPT !.volt = "V180"], drv,
                Step("SwitchMode"), TryNext)

\* Mutant: the selected function of the status block is not compared.
SwitchModeUnverified ==
    /\ pc = "SwitchMode"
    /\ \E after \in {dev, [dev EXCEPT !.timing = loc.cand]} :
          Exchange(dev.state = "tran" /\ BusAgrees, after, drv,
                   Step("ModeClock"), TryNext)

\* CMD6 in switch mode: the status block says which function was selected.
SwitchMode ==
    /\ pc = "SwitchMode"
    /\ \/ /\ loc.cand \in UhsModes => dev.volt = "V180"
          /\ Exchange(dev.state = "tran" /\ BusAgrees,
                      [dev EXCEPT !.timing = loc.cand], drv,
                      Step("ModeClock"), TryNext)
       \/ Exchange(dev.state = "tran" /\ BusAgrees, dev, drv, TryNext, TryNext)

ModeClock ==
    /\ pc = "ModeClock"
    /\ HostCall(loc.cand, TRUE, SetClock(loc.cand), drv, Step("ModeStatus"), TryNext)

\* CMD13: the card may report that it has not come back to tran yet.
ModeStatus ==
    /\ pc = "ModeStatus"
    /\ \/ Exchange(Addressed("tran"), dev, drv,
                   IF loc.cand \in NeedsTuning THEN Step("Tune19")
                                               ELSE Finish(loc.cand),
                   TryNext)
       \/ Exchange(Addressed("tran"), dev, drv, TryNext, TryNext)

\* A host finds a sampling phase only on blocks it can read.
CanTune == BusAgrees /\ dev.timing = host.clock

Tune19 ==
    /\ pc = "Tune19"
    /\ HostCall("Tuning", CanTune, [host EXCEPT !.tuned = TRUE], drv,
                Finish(loc.cand), TryNext)

-----------------------------------------------------------------------------
(* MMC: CMD6 SWITCH for the width, then HS200, then HS.                    *)

ReadExtCsd ==
    /\ pc = "ReadExtCsd"
    /\ Exchange(dev.state = "tran" /\ BusAgrees, dev, drv,
                StepWith("SetWidthMmc", [loc EXCEPT !.switch = "Bit8"]), Fail)

\* The HS @ 52 MHz branch, for a card that has it.
TryHighSpeed ==
    IF "HighSpeed" \in card.modes
    THEN StepWith("Cmd6Switch", [loc EXCEPT !.switch = "HighSpeed"])
    ELSE Finish("None")

\* The speed ladder, at the width the driver believes in.
TryTiming(width) ==
    IF "Hs200" \in card.modes /\ width # "Bit1"
    THEN Step("Hs200Voltage")
    ELSE TryHighSpeed

\* Mutant: try_hs200 raises the clock although the SWITCH failed.
SwitchFailedButHs200 ==
    CASE loc.switch = "Bit8"  -> StepWith("SetWidthMmc", [loc EXCEPT !.switch = "Bit4"])
      [] loc.switch = "Bit4"  -> TryTiming(drv.busWidth)
      [] loc.switch = "Hs200" -> Step("Hs200Clock")
      [] OTHER                -> Finish("None")

\* mmc_switch returns an error to the step that called it.
SwitchFailed ==
    CASE loc.switch = "Bit8"  -> StepWith("SetWidthMmc", [loc EXCEPT !.switch = "Bit4"])
      [] loc.switch = "Bit4"  -> TryTiming(drv.busWidth)
      [] loc.switch = "Hs200" -> TryHighSpeed
      [] OTHER                -> Finish("None")

SwitchDone ==
    CASE loc.switch \in BusWidth -> TryTiming(loc.switch)
      [] loc.switch = "Hs200"    -> Step("Hs200Clock")
      [] OTHER                   -> Step("HsClock")

\* Mutant: the card is switched although the host refused the width.
SetWidthMmcAnyway ==
    /\ pc = "SetWidthMmc"
    /\ HostCall(loc.switch, TRUE, SetWidth(loc.switch), drv,
                Step("Cmd6Switch"), Step("Cmd6Switch"))

SetWidthMmc ==
    /\ pc = "SetWidthMmc"
    /\ HostCall(loc.switch, TRUE, SetWidth(loc.switch), drv,
                Step("Cmd6Switch"), SwitchFailed)

Switched == IF loc.switch \in BusWidth
            THEN [dev EXCEPT !.width = loc.switch]
            ELSE [dev EXCEPT !.timing = loc.switch]

\* The card takes the value, or keeps the old one and raises SWITCH_ERROR.
Cmd6Switch ==
    /\ pc = "Cmd6Switch"
    /\ \E after \in {Switched, [dev EXCEPT !.switchError = TRUE]} :
          Exchange(dev.state = "tran", after, drv,
                   StepWith("Cmd13Poll", [loc EXCEPT !.polls = 0]), SwitchFailed)

\* Mutant: SWITCH_ERROR is not looked at.
Cmd13PollBlind ==
    /\ pc = "Cmd13Poll"
    /\ Exchange(Addressed("tran"), [dev EXCEPT !.switchError = FALSE],
                IF loc.switch \notin BusWidth THEN drv
                ELSE [drv EXCEPT !.busWidth = loc.switch],
                SwitchDone, SwitchFailed)

Cmd13Poll ==
    /\ pc = "Cmd13Poll"
    /\ LET seen == [dev EXCEPT !.switchError = FALSE]
           keepsWidth == dev.switchError \/ loc.switch \notin BusWidth
       IN  \/ Exchange(Addressed("tran"), seen,
                       IF keepsWidth THEN drv
                       ELSE [drv EXCEPT !.busWidth = loc.switch],
                       IF dev.switchError THEN SwitchFailed ELSE SwitchDone,
                       SwitchFailed)
           \/ /\ ~dev.switchError
              /\ Exchange(Addressed("tran"), seen, drv,
                          Poll("Cmd13Poll", SwitchPolls, SwitchFailed),
                          SwitchFailed)

\* An eMMC follows its rail: the host moves both ends, or neither.  A host
\* without IO-domain control is taken to be wired right.
Hs200Voltage ==
    /\ pc = "Hs200Voltage"
    /\ \/ /\ host' = [host EXCEPT !.volt = "V180"]
          /\ dev' = [dev EXCEPT !.volt = "V180"]
          /\ StepWith("Cmd6Switch", [loc EXCEPT !.switch = "Hs200"])
       \/ /\ "V180" \in Refusable
          /\ UNCHANGED <<host, dev>>
          /\ \/ StepWith("Cmd6Switch", [loc EXCEPT !.switch = "Hs200"])
             \/ TryHighSpeed
    /\ UNCHANGED <<inits, drv, card>>

Hs200Clock ==
    /\ pc = "Hs200Clock"
    /\ HostCall("Hs200", TRUE, SetClock("Hs200"), drv, Step("Tune21"), Step("Rollback"))

Tune21 ==
    /\ pc = "Tune21"
    /\ HostCall("Tuning", CanTune, [host EXCEPT !.tuned = TRUE], drv,
                Step("Hs200Verify"), Step("Rollback"))

\* An answer that is not tran + READY_FOR_DATA rolls back; no answer does not.
Hs200Verify ==
    /\ pc = "Hs200Verify"
    /\ \/ Exchange(Addressed("tran"), dev, drv, Finish("Hs200"), TryHighSpeed)
       \/ Exchange(Addressed("tran"), dev, drv, Step("Rollback"), TryHighSpeed)

Rollback ==
    /\ pc = "Rollback"
    /\ HostCall("Default", TRUE, SetClock("Default"), drv, TryHighSpeed, TryHighSpeed)

\* Mutant: a host that refuses HighSpeed fails the bring-up.
HsClockFails ==
    /\ pc = "HsClock"
    /\ HostCall("HighSpeed", TRUE, SetClock("HighSpeed"), drv,
                Finish("HighSpeed"), Fail)

HsClock ==
    /\ pc = "HsClock"
    /\ HostCall("HighSpeed", TRUE, SetClock("HighSpeed"), drv,
                Finish("HighSpeed"), Finish("None"))

-----------------------------------------------------------------------------

Identify == SetBit1 \/ SetIdClock \/ Cmd0 \/ Cmd8 \/ Cmd55 \/ Acmd41
            \/ Cmd1Query \/ Cmd1 \/ Cmd2 \/ Cmd3 \/ Cmd9 \/ Cmd7

NegotiateSd == Cmd55Rca \/ Acmd6 \/ SetBit4 \/ SetDefault \/ SpeedQuery \/ Cmd11
               \/ SdVoltage \/ SwitchMode \/ ModeClock \/ ModeStatus \/ Tune19

NegotiateMmc == ReadExtCsd \/ SetWidthMmc \/ Cmd6Switch \/ Cmd13Poll
                \/ Hs200Voltage \/ Hs200Clock \/ Tune21 \/ Hs200Verify
                \/ Rollback \/ HsClock

\* One step of init.
InitStep == Identify \/ NegotiateSd \/ NegotiateMmc

User == CallInit \/ SwapCard \/ \E e \in BOOLEAN : SetSdSpeedSelectionEnabled(e)

Next == InitStep \/ User

Spec == Init /\ [][Next]_vars

\* init runs to its end: it is a function of one thread, every call of the
\* host returns, and its loops count their delays.  Nobody has to call it.
FairSpec == Spec /\ WF_vars(InitStep)

-----------------------------------------------------------------------------
(* Properties.                                                             *)

Published == result # "none"

\* The commands that carry self.rca reach the card that is meant: whenever init
\* is about to send one, the address it holds is the one the card has, and the
\* card is in the state the command needs (CMD3's answer may have been missed,
\* and the field may be that of an earlier init).
AddressPcs == {"Cmd9", "Cmd7", "Cmd55Rca", "Cmd13Poll", "ModeStatus", "Hs200Verify"}
AddressesTheCard ==
    pc \in AddressPcs =>
        Addressed(IF pc \in {"Cmd9", "Cmd7"} THEN "stby" ELSE "tran")

\* A speed that init reports is a speed the bus really runs at: card and host
\* agree on it, the sampling point was tuned at that clock where the mode needs
\* it, and a UHS-I mode runs at 1.8 V on both sides, however many candidates
\* failed half-way before.
SpeedIsReal ==
    result = "ok" /\ loc.speed \in ClockSpeed =>
        /\ host.clock = loc.speed
        /\ dev.timing = loc.speed
        /\ loc.speed \in NeedsTuning \cup {"Hs200"} => host.tuned
        /\ loc.speed \in UhsModes => host.volt = "V180" /\ dev.volt = "V180"

\* During and after a driver's first init a published width above one line is
\* the width of both ends, whatever was refused or lost on the way.
WidthIsReal ==
    inits = 1 /\ Published /\ drv.busWidth # "Bit1" =>
        host.width = drv.busWidth /\ dev.width = drv.busWidth

\* init succeeds with the addressing (bytes or sectors) and the family of the
\* card in the slot: no answer of an earlier card or of a lost CMD8 survives.
IdentityIsReal ==
    result = "ok" =>
        /\ drv.highCapacity = card.ccs
        /\ (drv.kind = "Mmc") = (card.family = "Mmc")

\* The host clock goes up to a fast mode only after the card has accepted the
\* timing of that mode.
ClockFollowsCard ==
    [][ host'.clock # host.clock /\ host'.clock \notin {"Identification", "Default"}
        => dev.timing = host'.clock ]_vars

\* Once init is called it returns, with a card or with an error.
InitReturns == (result = "running") ~> (result \in {"ok", "err"})

\* init implements BringUp: it can no longer fail once it negotiates widths (MMC)
\* or access modes (SD), publishes an address only while it identifies, and a
\* width only when a card is selected; called again it starts over.
Negotiation == {"SpeedQuery", "Cmd11", "SdVoltage", "SwitchMode", "ModeClock",
                "ModeStatus", "Tune19", "SetWidthMmc", "Cmd6Switch", "Cmd13Poll",
                "Hs200Voltage", "Hs200Clock", "Tune21", "Hs200Verify",
                "Rollback", "HsClock"}
Selection == {"Cmd55Rca", "Acmd6", "SetBit4", "SetDefault", "ReadExtCsd"}

Phase ==
    CASE result = "none"   -> "Off"
      [] result = "ok"     -> "Up"
      [] result = "err"    -> "Failed"
      [] pc \in Negotiation -> "Negotiating"
      [] pc \in Selection   -> "Selected"
      [] OTHER              -> "Identifying"

Abstract == INSTANCE BringUp
              WITH phase <- Phase, rca <- drv.rca, width <- drv.busWidth
ImplementsBringUp == Abstract!Spec

-----------------------------------------------------------------------------
(* The inductive invariant behind these properties.                        *)

ModePcs == {"Cmd11", "SdVoltage", "SwitchMode", "ModeClock", "ModeStatus", "Tune19"}
SwitchPcs == {"Cmd6Switch", "Cmd13Poll"}
BeforeOcr == {"SetBit1", "SetIdClock", "Cmd0", "Cmd8", "Cmd55", "Acmd41",
              "Cmd1Query", "Cmd1"}
Identification == BeforeOcr \cup {"Cmd2", "Cmd3", "Cmd9", "Cmd7"}

\* The locals a step reads have been set by the steps that lead to it.
ControlInv ==
    /\ pc = "Idle" <=> result # "running"
    /\ inits = 0 => pc = "Idle" /\ result = "none"
    /\ pc \in ModePcs => loc.cand \in DOMAIN Rank
    /\ pc \in {"Cmd11", "SdVoltage"} => loc.cand \in UhsModes
    /\ pc = "Tune19" => loc.cand \in NeedsTuning
    /\ pc = "SetWidthMmc" => loc.switch \in {"Bit8", "Bit4"}
    /\ pc \in SwitchPcs => loc.switch # "None"

\* Once published, the address is the card's, and the card does not move.
AddressInv ==
    /\ pc \in {"Cmd9", "Cmd7"} => Addressed("stby") /\ drv.rca # 0
    /\ pc \in Selection \cup Negotiation => Addressed("tran")

\* What OCR and family the driver goes by are those of the card in the slot.
IdentityInv ==
    /\ pc \notin BeforeOcr \cup {"Idle"} =>
          loc.ccs = card.ccs /\ (drv.kind = "Mmc") = (card.family = "Mmc")
    /\ pc \in Selection \cup Negotiation => drv.highCapacity = card.ccs
    /\ IdentityIsReal

\* In a first init nothing is widened until both ends have been.
WidthInv ==
    /\ \/ inits = 0
       \/ inits = 1 /\ pc \in (Identification \cup Selection \cup {"SetWidthMmc"})
                                 \ {"SetDefault"}
       \/ inits = 1 /\ pc \in SwitchPcs /\ loc.switch \in BusWidth
       => drv.busWidth = "Bit1"
    /\ pc = "SetBit4" => dev.width = "Bit4"
    /\ pc \in SwitchPcs /\ loc.switch \in BusWidth => host.width = loc.switch
    /\ pc = "Cmd13Poll" /\ loc.switch \in BusWidth =>
          dev.switchError \/ dev.width = loc.switch
    /\ WidthIsReal

\* What each step of the speed negotiation has already achieved.
SpeedInv ==
    /\ dev.state # "tran" => dev.timing = "Default"
    /\ pc \in Selection \cup {"SpeedQuery"} => dev.timing = "Default"
    /\ pc = "SdVoltage" => dev.volt = "V180"
    /\ pc \in ModePcs \ {"Cmd11", "SdVoltage"} /\ loc.cand \in UhsModes =>
          host.volt = "V180" /\ dev.volt = "V180"
    /\ pc \in {"ModeClock", "ModeStatus", "Tune19"} => dev.timing = loc.cand
    /\ pc \in {"ModeStatus", "Tune19"} => host.clock = loc.cand
    /\ pc = "Cmd13Poll" /\ loc.switch \notin BusWidth =>
          dev.switchError \/ dev.timing = loc.switch
    /\ pc \in {"Hs200Clock", "Tune21", "Hs200Verify"} => dev.timing = "Hs200"
    /\ pc \in {"Tune21", "Hs200Verify"} => host.clock = "Hs200"
    /\ pc = "Hs200Verify" => host.tuned
    /\ pc = "HsClock" => dev.timing = "HighSpeed"
    /\ SpeedIsReal

IInv == ControlInv /\ AddressInv /\ IdentityInv /\ WidthInv /\ SpeedInv

-----------------------------------------------------------------------------
(* What a comment of the source says, and the code does not do.            *)

\* sdio.rs, switch_voltage: hosts without 1.8 V signaling "get a clean fallback
\* path": init does not succeed with the two ends at different levels.
CleanVoltageFallback ==
    result = "ok" => host.volt = dev.volt
=============================================================================
