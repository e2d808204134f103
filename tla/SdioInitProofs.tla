--------------------------- MODULE SdioInitProofs ---------------------------
(***************************************************************************)
(* Proofs about SdioInit, for every set of cards, of faults and of         *)
(* refusals, and every bound.                                              *)
(***************************************************************************)
EXTENDS SdioInit, TLAPS

-----------------------------------------------------------------------------
(* The updates init makes keep each record in its type.                    *)

\* A request to the host (set_bus_width, set_clock, switch_voltage,
\* execute_tuning) that is carried out leaves a well-formed host state.
LEMMA HostUpdates ==
    ASSUME TypeOK
    PROVE  /\ \A w \in BusWidth : SetWidth(w) \in Host
           /\ \A c \in ClockSpeed : SetClock(c) \in Host
           /\ [host EXCEPT !.volt = "V180"] \in Host
           /\ [host EXCEPT !.tuned = TRUE] \in Host
BY DEF TypeOK, Host, SetWidth, SetClock, SignalVoltage

\* Whatever a command does to the card leaves a well-formed card state.
LEMMA DeviceUpdates ==
    ASSUME TypeOK
    PROVE  /\ \A s \in CardStates : [dev EXCEPT !.state = s] \in Device
           /\ \A r \in Nat : [dev EXCEPT !.state = "stby", !.rca = r] \in Device
           /\ \A w \in BusWidth : [dev EXCEPT !.width = w] \in Device
           /\ \A c \in ClockSpeed : [dev EXCEPT !.timing = c] \in Device
           /\ [dev EXCEPT !.volt = "V180"] \in Device
           /\ \A b \in BOOLEAN : [dev EXCEPT !.switchError = b] \in Device
BY DEF TypeOK, Device, SignalVoltage, CardStates

\* A powered card and a reset one are well-formed.
LEMMA PoweredCardType ==
    /\ PoweredCard \in Device
    /\ \A v \in SignalVoltage : [PoweredCard EXCEPT !.volt = v] \in Device
<1>1. PoweredCard \in Device
  BY DEF PoweredCard, Device, CardStates, BusWidth, ClockSpeed, SignalVoltage
<1> QED
  BY <1>1 DEF Device

\* The assignments of init to the fields of SdioSdmmc keep their types.
LEMMA DriverUpdates ==
    ASSUME TypeOK
    PROVE  /\ \A k \in {"Sd", "Mmc"} : [drv EXCEPT !.kind = k] \in Driver
           /\ \A r \in Nat : [drv EXCEPT !.rca = r] \in Driver
           /\ \A b \in BOOLEAN : [drv EXCEPT !.highCapacity = b] \in Driver
           /\ \A b \in BOOLEAN : [drv EXCEPT !.speedSelection = b] \in Driver
           /\ \A w \in BusWidth : [drv EXCEPT !.busWidth = w] \in Driver
BY DEF TypeOK, Driver

\* The assignments of init and its helpers to their locals keep their types.
LEMMA LocalsUpdates ==
    ASSUME TypeOK
    PROVE  /\ [loc EXCEPT !.sdV2 = TRUE] \in Locals
           /\ [loc EXCEPT !.polls = 0] \in Locals
           /\ [loc EXCEPT !.polls = loc.polls + 1] \in Locals
           /\ \A a, b \in BOOLEAN : [loc EXCEPT !.ccs = a, !.s18a = b] \in Locals
           /\ \A m \in DOMAIN Rank : [loc EXCEPT !.cand = m] \in Locals
           /\ \A s \in {"Bit8", "Bit4", "Hs200", "HighSpeed", "None"} :
                 [loc EXCEPT !.switch = s] \in Locals
           /\ \A s \in ClockSpeed : [loc EXCEPT !.speed = s] \in Locals
           /\ [loc EXCEPT !.speed = "None"] \in Locals
           /\ [loc EXCEPT !.speed = "Skipped"] \in Locals
<1> USE DEF TypeOK, Locals
<1>1. [loc EXCEPT !.sdV2 = TRUE] \in Locals
  OBVIOUS
<1>2. [loc EXCEPT !.polls = 0] \in Locals /\ [loc EXCEPT !.polls = loc.polls + 1] \in Locals
  OBVIOUS
<1>3. \A a, b \in BOOLEAN : [loc EXCEPT !.ccs = a, !.s18a = b] \in Locals
  OBVIOUS
<1>4. \A m \in DOMAIN Rank : [loc EXCEPT !.cand = m] \in Locals
  OBVIOUS
<1>5. \A s \in {"Bit8", "Bit4", "Hs200", "HighSpeed", "None"} :
         [loc EXCEPT !.switch = s] \in Locals
  OBVIOUS
<1>6. /\ \A s \in ClockSpeed : [loc EXCEPT !.speed = s] \in Locals
      /\ [loc EXCEPT !.speed = "None"] \in Locals
      /\ [loc EXCEPT !.speed = "Skipped"] \in Locals
  OBVIOUS
<1> QED
  BY <1>1, <1>2, <1>3, <1>4, <1>5, <1>6

\* The locals that requests and claims are made from.
LEMMA LocalTypes ==
    ASSUME TypeOK
    PROVE  /\ DOMAIN Rank = UhsModes \cup {"HighSpeed"}
           /\ DOMAIN Rank \subseteq ClockSpeed
           /\ Offered \subseteq DOMAIN Rank
           /\ loc.cand \in DOMAIN Rank \cup {"None"}
           /\ loc.switch \in {"Bit8", "Bit4", "Hs200", "HighSpeed", "None"}
           /\ loc.ccs \in BOOLEAN /\ loc.sdV2 \in BOOLEAN /\ loc.s18a \in BOOLEAN
           /\ card.ccs \in BOOLEAN /\ card.s18a \in BOOLEAN
<1>1. DOMAIN Rank = UhsModes \cup {"HighSpeed"}
  BY DEF Rank, UhsModes
<1>2. card \in CardType
  BY CardsAssumption DEF TypeOK
<1> QED
  BY <1>1, <1>2 DEF TypeOK, Locals, ClockSpeed, UhsModes, Offered, CardType

\* Trying the next mode of the ladder starts one of its candidates, or ends.
LEMMA TryBelowSteps ==
    ASSUME TypeOK, NEW rank, TryBelow(rank)
    PROVE  \/ pc' = "Idle" /\ result' = "ok" /\ loc' = [loc EXCEPT !.speed = "None"]
           \/ \E m \in DOMAIN Rank :
                 /\ pc' = IF m \in UhsModes THEN "Cmd11" ELSE "SwitchMode"
                 /\ loc' = [loc EXCEPT !.cand = m]
                 /\ result' = result
BY LocalTypes DEF TryBelow, Finish, StepWith

\* The HS @ 52 MHz branch of init starts a SWITCH, or ends the negotiation.
LEMMA TryHighSpeedSteps ==
    ASSUME TypeOK, TryHighSpeed
    PROVE  \/ /\ pc' = "Idle" /\ result' = "ok"
              /\ loc' = [loc EXCEPT !.speed = "None"]
           \/ /\ pc' = "Cmd6Switch" /\ result' = result
              /\ loc' = [loc EXCEPT !.switch = "HighSpeed"]
BY DEF TryHighSpeed, Finish, StepWith

\* The constant sets by which the steps are told apart, spelled out.
LEMMA Names ==
    /\ {"Identification", "Default", "HighSpeed", "Hs200"} \subseteq ClockSpeed
    /\ {"Bit1", "Bit4", "Bit8"} = BusWidth
    /\ "None" \notin ClockSpeed /\ "Skipped" \notin ClockSpeed
    /\ \A s \in {"Default", "HighSpeed", "Hs200"} : s \notin UhsModes
BY DEF ClockSpeed, BusWidth, UhsModes

(* The two halves of TypeOK: what init goes on with, and the four records. *)
ControlTyped ==
    pc \in PcSet /\ result \in {"none", "running", "ok", "err"} /\ loc \in Locals
RecordsTyped ==
    inits \in Nat /\ drv \in Driver /\ host \in Host /\ card \in Cards /\ dev \in Device

\* However init goes on after a call, it goes on well-typed.
LEMMA ControlSteps ==
    ASSUME TypeOK
    PROVE  /\ \A p \in PcSet : Step(p) => ControlTyped'
           /\ \A p \in PcSet, l \in Locals : StepWith(p, l) => ControlTyped'
           /\ Fail => ControlTyped'
           /\ \A v \in ClockSpeed \cup {"None", "Skipped"} : Finish(v) => ControlTyped'
           /\ TryHighSpeed => ControlTyped'
           /\ \A rank : TryBelow(rank) => ControlTyped'
<1>1. \A p \in PcSet : Step(p) => ControlTyped'
  BY DEF TypeOK, ControlTyped, Step
<1>2. \A p \in PcSet, l \in Locals : StepWith(p, l) => ControlTyped'
  BY DEF TypeOK, ControlTyped, StepWith
<1>3. Fail => ControlTyped'
  BY DEF TypeOK, ControlTyped, Fail, PcSet
<1>4. ASSUME NEW v \in ClockSpeed \cup {"None", "Skipped"}, Finish(v)
      PROVE  ControlTyped'
  <2>1. [loc EXCEPT !.speed = v] \in Locals
    BY LocalsUpdates
  <2> QED
    BY <1>4, <2>1 DEF ControlTyped, Finish, PcSet
<1>5. ASSUME TryHighSpeed PROVE ControlTyped'
  <2>1. [loc EXCEPT !.switch = "HighSpeed"] \in Locals
    BY LocalsUpdates
  <2> QED
    BY <1>2, <1>4, <1>5, <2>1 DEF TryHighSpeed, PcSet
<1>6. ASSUME NEW rank, TryBelow(rank) PROVE ControlTyped'
  <2>1. \A m \in Offered : [loc EXCEPT !.cand = m] \in Locals
    BY LocalsUpdates, LocalTypes
  <2> QED
    BY <1>2, <1>4, <1>6, <2>1 DEF TryBelow, PcSet
<1> QED
  BY <1>1, <1>2, <1>3, <1>4, <1>5, <1>6

\* Every call of init, and every call of the user, keeps the types.
LEMMA TypeInductive == TypeOK /\ ControlInv /\ [Next]_vars => TypeOK'
<1> SUFFICES ASSUME TypeOK, ControlInv, [Next]_vars PROVE TypeOK'
  OBVIOUS
<1>0. inits + 1 \in Nat
  BY DEF TypeOK
<1>6. CASE Acmd41
  <2>0. WithOcr \in Locals
    BY LocalsUpdates, LocalTypes DEF WithOcr
  <2>1. ControlTyped'
    BY <1>6, ControlSteps, LocalsUpdates, <2>0 DEF Acmd41, Exchange, Poll, PcSet
  <2>2. RecordsTyped'
    BY <1>6, DeviceUpdates, DriverUpdates DEF TypeOK, Exchange, HostCall, RecordsTyped, Acmd41, CardStates
  <2> QED
    BY <2>1, <2>2 DEF ControlTyped, RecordsTyped, TypeOK
<1>7. CASE Cmd1Query
  <2>0. WithOcr \in Locals
    BY LocalsUpdates, LocalTypes DEF WithOcr
  <2>1. ControlTyped'
    BY <1>7, ControlSteps, LocalsUpdates, <2>0 DEF Cmd1Query, OpCond, Exchange, PcSet
  <2>2. RecordsTyped'
    BY <1>7, DeviceUpdates, DriverUpdates DEF TypeOK, Exchange, HostCall, RecordsTyped, Cmd1Query, OpCond, CardStates
  <2> QED
    BY <2>1, <2>2 DEF ControlTyped, RecordsTyped, TypeOK
<1>8. CASE Cmd1
  <2>0. WithOcr \in Locals
    BY LocalsUpdates, LocalTypes DEF WithOcr
  <2>1. ControlTyped'
    BY <1>8, ControlSteps, LocalsUpdates, <2>0 DEF Cmd1, OpCond, Exchange, Poll, PcSet
  <2>2. RecordsTyped'
    BY <1>8, DeviceUpdates, DriverUpdates DEF TypeOK, Exchange, HostCall, RecordsTyped, Cmd1, OpCond, CardStates
  <2> QED
    BY <2>1, <2>2 DEF ControlTyped, RecordsTyped, TypeOK
<1>12. CASE Cmd7
  <2>1. ControlTyped'
    BY <1>12, ControlSteps DEF Cmd7, Exchange, PcSet
  <2>2. /\ [dev EXCEPT !.state = "tran"] \in Device
        /\ [drv EXCEPT !.highCapacity = loc.ccs] \in Driver
    BY DeviceUpdates, DriverUpdates, LocalTypes DEF CardStates
  <2>3. RecordsTyped'
    BY <1>12, <2>2 DEF TypeOK, Cmd7, Exchange, RecordsTyped
  <2> QED
    BY <2>1, <2>3 DEF ControlTyped, RecordsTyped, TypeOK
<1>16. CASE SetDefault
  <2>1. ControlTyped'
    BY <1>16, ControlSteps, Names DEF SetDefault, HostCall
  <2>2. RecordsTyped'
    BY <1>16, HostUpdates, Names DEF TypeOK, Exchange, HostCall, RecordsTyped, SetDefault
  <2> QED
    BY <2>1, <2>2 DEF ControlTyped, RecordsTyped, TypeOK
<1>22. CASE ModeStatus
  <2>1. ControlTyped'
    BY <1>22, ControlSteps, LocalTypes DEF ModeStatus, TryNext, Exchange, ControlInv, ModePcs, PcSet
  <2>2. RecordsTyped'
    BY <1>22 DEF TypeOK, Exchange, HostCall, RecordsTyped, ModeStatus
  <2> QED
    BY <2>1, <2>2 DEF ControlTyped, RecordsTyped, TypeOK
<1>23. CASE Tune19
  <2>1. ControlTyped'
    BY <1>23, ControlSteps, LocalTypes DEF Tune19, TryNext, HostCall, ControlInv, ModePcs
  <2>2. RecordsTyped'
    BY <1>23, HostUpdates DEF TypeOK, Exchange, HostCall, RecordsTyped, Tune19
  <2> QED
    BY <2>1, <2>2 DEF ControlTyped, RecordsTyped, TypeOK
<1>27. CASE Cmd13Poll
  <2>1. ControlTyped'
    BY <1>27, ControlSteps, LocalsUpdates, Names DEF Cmd13Poll, Exchange, Poll, SwitchFailed, SwitchDone, TryTiming, ControlInv, SwitchPcs, PcSet
  <2>2. RecordsTyped'
    BY <1>27, DeviceUpdates, DriverUpdates, Names DEF TypeOK, Exchange, HostCall, RecordsTyped, Cmd13Poll
  <2> QED
    BY <2>1, <2>2 DEF ControlTyped, RecordsTyped, TypeOK
<1>33. CASE HsClock
  <2>1. ControlTyped'
    BY <1>33, ControlSteps, Names DEF HsClock, HostCall
  <2>2. RecordsTyped'
    BY <1>33, HostUpdates, Names DEF TypeOK, Exchange, HostCall, RecordsTyped, HsClock
  <2> QED
    BY <2>1, <2>2 DEF ControlTyped, RecordsTyped, TypeOK
<1>26. CASE Cmd6Switch
  <2>0. pc = "Cmd6Switch" /\ loc.switch \in {"Bit8", "Bit4", "Hs200", "HighSpeed"}
    BY <1>26, LocalTypes DEF Cmd6Switch, ControlInv, SwitchPcs
  <2>1. loc.switch \in BusWidth \cup ClockSpeed
    BY <2>0, Names
  <2>2. Switched \in Device /\ [dev EXCEPT !.switchError = TRUE] \in Device
    BY <2>1, DeviceUpdates DEF Switched
  <2>3. [loc EXCEPT !.polls = 0] \in Locals
    BY LocalsUpdates
  <2>4. ControlTyped'
    <3>1. \/ StepWith("Cmd13Poll", [loc EXCEPT !.polls = 0])
          \/ StepWith("SetWidthMmc", [loc EXCEPT !.switch = "Bit4"])
          \/ Step("Hs200Voltage") \/ TryHighSpeed \/ Finish("None")
      BY <1>26 DEF Cmd6Switch, Exchange, SwitchFailed, TryTiming
    <3> QED
      BY <3>1, <2>3, ControlSteps, LocalsUpdates DEF PcSet
  <2>5. RecordsTyped'
    BY <1>26, <2>2 DEF TypeOK, Cmd6Switch, Exchange, RecordsTyped
  <2> QED
    BY <2>4, <2>5 DEF ControlTyped, RecordsTyped, TypeOK
<1>31. CASE Hs200Verify
  <2>1. RecordsTyped'
    BY <1>31 DEF TypeOK, Hs200Verify, Exchange, RecordsTyped
  <2>2. ControlTyped'
    BY <1>31, ControlSteps, Names DEF Hs200Verify, Exchange, PcSet
  <2> QED
    BY <2>1, <2>2 DEF ControlTyped, RecordsTyped, TypeOK
<1> USE DEF TypeOK, PcSet, Exchange, HostCall, Step, StepWith, Fail, Finish, Poll
<1>1. CASE SetBit1 BY <1>1, HostUpdates DEF SetBit1, BusWidth
<1>2. CASE SetIdClock BY <1>2, HostUpdates DEF SetIdClock, ClockSpeed
<1>3. CASE Cmd0 BY <1>3, PoweredCardType DEF Cmd0, ResetCard, Device
<1>4. CASE Cmd8 BY <1>4, LocalsUpdates DEF Cmd8
<1>5. CASE Cmd55 BY <1>5 DEF Cmd55
<1>9. CASE Cmd2 BY <1>9, DeviceUpdates DEF Cmd2, CardStates
<1>10. CASE Cmd3
  <2>1. PICK rca \in Nat :
           Exchange(dev.state = "ident", [dev EXCEPT !.state = "stby", !.rca = rca],
                    [drv EXCEPT !.rca = rca], Step("Cmd9"), Fail)
    BY <1>10, RcasAssumption DEF Cmd3
  <2> QED
    BY <1>10, <2>1, DeviceUpdates, DriverUpdates
<1>11. CASE Cmd9 BY <1>11 DEF Cmd9
<1>13. CASE Cmd55Rca BY <1>13 DEF Cmd55Rca
<1>14. CASE Acmd6 BY <1>14, DeviceUpdates DEF Acmd6, BusWidth
<1>15. CASE SetBit4 BY <1>15, HostUpdates, DriverUpdates DEF SetBit4, BusWidth
<1>17. CASE SpeedQuery BY <1>17, LocalsUpdates, LocalTypes, TryBelowSteps DEF SpeedQuery
<1>18. CASE Cmd11 BY <1>18, DeviceUpdates, LocalsUpdates, LocalTypes, TryBelowSteps DEF Cmd11, TryNext
<1>19. CASE SdVoltage BY <1>19, HostUpdates, LocalsUpdates, LocalTypes, TryBelowSteps DEF SdVoltage, TryNext
<1>20. CASE SwitchMode
  <2>1. [dev EXCEPT !.timing = loc.cand] \in Device
    BY <1>20, DeviceUpdates, LocalTypes DEF SwitchMode, ControlInv, ModePcs
  <2> QED
    BY <1>20, <2>1, TryBelowSteps, LocalsUpdates, LocalTypes DEF SwitchMode, TryNext
<1>21. CASE ModeClock BY <1>21, HostUpdates, LocalsUpdates, LocalTypes, TryBelowSteps DEF ModeClock, TryNext, ControlInv, ModePcs
<1>24. CASE ReadExtCsd BY <1>24, LocalsUpdates DEF ReadExtCsd
<1>25. CASE SetWidthMmc BY <1>25, HostUpdates, LocalsUpdates, LocalTypes, TryHighSpeedSteps DEF SetWidthMmc, SwitchFailed, TryTiming, BusWidth, ControlInv
<1>28. CASE Hs200Voltage BY <1>28, HostUpdates, DeviceUpdates, LocalsUpdates, TryHighSpeedSteps DEF Hs200Voltage
<1>29. CASE Hs200Clock BY <1>29, HostUpdates DEF Hs200Clock, ClockSpeed
<1>30. CASE Tune21 BY <1>30, HostUpdates DEF Tune21
<1>32. CASE Rollback BY <1>32, HostUpdates, LocalsUpdates, Names, TryHighSpeedSteps DEF Rollback
<1>34. CASE CallInit
  <2>1. loc' \in Locals
    BY <1>34 DEF CallInit, Locals
  <2> QED
    BY <1>0, <1>34, <2>1 DEF CallInit
<1>35. CASE SwapCard BY <1>35, PoweredCardType, LocalTypes DEF SwapCard, PoweredCard, Host, SignalVoltage
<1>36. CASE \E e \in BOOLEAN : SetSdSpeedSelectionEnabled(e)
  BY <1>36, DriverUpdates DEF SetSdSpeedSelectionEnabled
<1>37. CASE UNCHANGED vars BY <1>37 DEF vars
<1> QED
  BY <1>1, <1>2, <1>3, <1>4, <1>5, <1>6, <1>7, <1>8, <1>9, <1>10, <1>11, <1>12,
     <1>13, <1>14, <1>15, <1>16, <1>17, <1>18, <1>19, <1>20, <1>21, <1>22, <1>23,
     <1>24, <1>25, <1>26, <1>27, <1>28, <1>29, <1>30, <1>31, <1>32, <1>33, <1>34,
     <1>35, <1>36, <1>37
  DEF Next, InitStep, Identify, NegotiateSd, NegotiateMmc, User

\* Every step hands the next one the locals it reads (candidate, switch).
LEMMA ControlInductive == TypeOK /\ ControlInv /\ [Next]_vars => ControlInv'
<1> SUFFICES ASSUME TypeOK, ControlInv, [Next]_vars PROVE ControlInv'
  OBVIOUS
<1> USE DEF ControlInv, ModePcs, SwitchPcs, Exchange, HostCall, Step, StepWith, Fail, Finish, Poll
<1>1. CASE SetBit1 BY <1>1, LocalTypes, Names DEF TypeOK, Locals, SetBit1
<1>2. CASE SetIdClock BY <1>2, LocalTypes, Names DEF TypeOK, Locals, SetIdClock
<1>3. CASE Cmd0 BY <1>3, LocalTypes, Names DEF TypeOK, Locals, Cmd0
<1>4. CASE Cmd8 BY <1>4, LocalTypes, Names DEF TypeOK, Locals, Cmd8
<1>5. CASE Cmd55 BY <1>5, LocalTypes, Names DEF TypeOK, Locals, Cmd55
<1>6. CASE Acmd41 BY <1>6, LocalTypes, Names DEF TypeOK, Locals, Acmd41, WithOcr
<1>7. CASE Cmd1Query BY <1>7, LocalTypes, Names DEF TypeOK, Locals, Cmd1Query, OpCond, WithOcr
<1>8. CASE Cmd1 BY <1>8, LocalTypes, Names DEF TypeOK, Locals, Cmd1, OpCond, WithOcr
<1>9. CASE Cmd2 BY <1>9, LocalTypes, Names DEF TypeOK, Locals, Cmd2
<1>10. CASE Cmd3 BY <1>10, LocalTypes, Names DEF TypeOK, Locals, Cmd3
<1>11. CASE Cmd9 BY <1>11, LocalTypes, Names DEF TypeOK, Locals, Cmd9
<1>12. CASE Cmd7 BY <1>12, LocalTypes, Names DEF TypeOK, Locals, Cmd7
<1>13. CASE Cmd55Rca BY <1>13, LocalTypes, Names DEF TypeOK, Locals, Cmd55Rca
<1>14. CASE Acmd6 BY <1>14, LocalTypes, Names DEF TypeOK, Locals, Acmd6
<1>15. CASE SetBit4 BY <1>15, LocalTypes, Names DEF TypeOK, Locals, SetBit4
<1>16. CASE SetDefault BY <1>16, LocalTypes, Names DEF TypeOK, Locals, SetDefault
<1>17. CASE SpeedQuery BY <1>17, LocalTypes, Names, TryBelowSteps DEF TypeOK, Locals, SpeedQuery
<1>18. CASE Cmd11 BY <1>18, LocalTypes, Names, TryBelowSteps DEF TypeOK, Locals, Cmd11, TryNext
<1>19. CASE SdVoltage BY <1>19, LocalTypes, Names, TryBelowSteps DEF TypeOK, Locals, SdVoltage, TryNext
<1>20. CASE SwitchMode BY <1>20, LocalTypes, Names, TryBelowSteps DEF TypeOK, Locals, SwitchMode, TryNext
<1>21. CASE ModeClock BY <1>21, LocalTypes, Names, TryBelowSteps DEF TypeOK, Locals, ModeClock, TryNext
<1>22. CASE ModeStatus BY <1>22, LocalTypes, Names, TryBelowSteps DEF TypeOK, Locals, ModeStatus, TryNext
<1>23. CASE Tune19 BY <1>23, LocalTypes, Names, TryBelowSteps DEF TypeOK, Locals, Tune19, TryNext
<1>24. CASE ReadExtCsd BY <1>24, LocalTypes, Names DEF TypeOK, Locals, ReadExtCsd
<1>25. CASE SetWidthMmc BY <1>25, LocalTypes, Names, TryHighSpeedSteps DEF TypeOK, Locals, SetWidthMmc, SwitchFailed, TryTiming
<1>26. CASE Cmd6Switch BY <1>26, LocalTypes, Names, TryHighSpeedSteps DEF TypeOK, Locals, Cmd6Switch, SwitchFailed, TryTiming
<1>27. CASE Cmd13Poll BY <1>27, LocalTypes, Names, TryHighSpeedSteps DEF TypeOK, Locals, Cmd13Poll, SwitchFailed, SwitchDone, TryTiming
<1>28. CASE Hs200Voltage BY <1>28, LocalTypes, Names, TryHighSpeedSteps DEF TypeOK, Locals, Hs200Voltage
<1>29. CASE Hs200Clock BY <1>29, LocalTypes, Names DEF TypeOK, Locals, Hs200Clock
<1>30. CASE Tune21 BY <1>30, LocalTypes, Names DEF TypeOK, Locals, Tune21
<1>31. CASE Hs200Verify BY <1>31, LocalTypes, Names, TryHighSpeedSteps DEF TypeOK, Locals, Hs200Verify
<1>32. CASE Rollback BY <1>32, LocalTypes, Names, TryHighSpeedSteps DEF TypeOK, Locals, Rollback
<1>33. CASE HsClock BY <1>33, LocalTypes, Names DEF TypeOK, Locals, HsClock
<1>34. CASE CallInit BY <1>34, LocalTypes, Names DEF TypeOK, Locals, CallInit
<1>35. CASE SwapCard BY <1>35, LocalTypes, Names DEF TypeOK, Locals, SwapCard
<1>36. CASE \E e \in BOOLEAN : SetSdSpeedSelectionEnabled(e)
  BY <1>36 DEF SetSdSpeedSelectionEnabled
<1>37. CASE UNCHANGED vars BY <1>37 DEF vars
<1> QED
  BY <1>1, <1>2, <1>3, <1>4, <1>5, <1>6, <1>7, <1>8, <1>9, <1>10, <1>11, <1>12,
     <1>13, <1>14, <1>15, <1>16, <1>17, <1>18, <1>19, <1>20, <1>21, <1>22, <1>23,
     <1>24, <1>25, <1>26, <1>27, <1>28, <1>29, <1>30, <1>31, <1>32, <1>33, <1>34,
     <1>35, <1>36, <1>37
  DEF Next, InitStep, Identify, NegotiateSd, NegotiateMmc, User

\* No step moves the card away from the address and state init relies on.
LEMMA AddressInductive == TypeOK /\ ControlInv /\ AddressInv /\ [Next]_vars => AddressInv'
<1> SUFFICES ASSUME TypeOK, ControlInv, AddressInv, [Next]_vars PROVE AddressInv'
  OBVIOUS
<1> USE DEF TypeOK, Device, Driver, AddressInv, Addressed, Selection, Negotiation, ControlInv,
        Exchange, HostCall, Step, StepWith, Fail, Finish, Poll
<1>1. CASE SetBit1 BY <1>1 DEF SetBit1
<1>2. CASE SetIdClock BY <1>2 DEF SetIdClock
<1>3. CASE Cmd0 BY <1>3 DEF Cmd0, ResetCard
<1>4. CASE Cmd8 BY <1>4 DEF Cmd8
<1>5. CASE Cmd55 BY <1>5 DEF Cmd55
<1>6. CASE Acmd41 BY <1>6 DEF Acmd41, WithOcr
<1>7. CASE Cmd1Query BY <1>7 DEF Cmd1Query, OpCond, WithOcr
<1>8. CASE Cmd1 BY <1>8 DEF Cmd1, OpCond, WithOcr
<1>9. CASE Cmd2 BY <1>9 DEF Cmd2
<1>10. CASE Cmd3
  <2>0. (IF drv.kind = "Sd" THEN CardRcas ELSE {1}) \subseteq Nat \ {0}
    BY RcasAssumption
  <2>1. PICK rca \in Nat \ {0} :
           Exchange(dev.state = "ident", [dev EXCEPT !.state = "stby", !.rca = rca],
                    [drv EXCEPT !.rca = rca], Step("Cmd9"), Fail)
    BY <1>10, <2>0, Zenon DEF Cmd3
  <2>2. CASE pc' = "Cmd9"
    <3>1. dev' = [dev EXCEPT !.state = "stby", !.rca = rca] /\ drv' = [drv EXCEPT !.rca = rca]
      BY <2>1, <2>2
    <3>2. dev'.state = "stby" /\ dev'.rca = rca /\ drv'.rca = rca
      BY <3>1
    <3> QED
      BY <2>2, <3>2
  <2>3. CASE pc' = "Idle"
    BY <2>3
  <2> QED
    BY <2>1, <2>2, <2>3
<1>11. CASE Cmd9 BY <1>11 DEF Cmd9
<1>12. CASE Cmd7 BY <1>12 DEF Cmd7
<1>13. CASE Cmd55Rca BY <1>13 DEF Cmd55Rca
<1>14. CASE Acmd6 BY <1>14 DEF Acmd6
<1>15. CASE SetBit4 BY <1>15 DEF SetBit4
<1>16. CASE SetDefault BY <1>16 DEF SetDefault
<1>17. CASE SpeedQuery BY <1>17, TryBelowSteps DEF SpeedQuery
<1>18. CASE Cmd11 BY <1>18, TryBelowSteps DEF Cmd11, TryNext
<1>19. CASE SdVoltage BY <1>19, TryBelowSteps DEF SdVoltage, TryNext
<1>20. CASE SwitchMode BY <1>20, TryBelowSteps DEF SwitchMode, TryNext
<1>21. CASE ModeClock BY <1>21, TryBelowSteps DEF ModeClock, TryNext
<1>22. CASE ModeStatus BY <1>22, TryBelowSteps DEF ModeStatus, TryNext
<1>23. CASE Tune19 BY <1>23, TryBelowSteps DEF Tune19, TryNext
<1>24. CASE ReadExtCsd BY <1>24 DEF ReadExtCsd
<1>25. CASE SetWidthMmc BY <1>25, TryHighSpeedSteps DEF SetWidthMmc, SwitchFailed, TryTiming
<1>26. CASE Cmd6Switch BY <1>26, TryHighSpeedSteps DEF Cmd6Switch, SwitchFailed, TryTiming, Switched
<1>27. CASE Cmd13Poll BY <1>27, TryHighSpeedSteps DEF Cmd13Poll, SwitchFailed, SwitchDone, TryTiming
<1>28. CASE Hs200Voltage BY <1>28, TryHighSpeedSteps DEF Hs200Voltage
<1>29. CASE Hs200Clock BY <1>29 DEF Hs200Clock
<1>30. CASE Tune21 BY <1>30 DEF Tune21
<1>31. CASE Hs200Verify BY <1>31, TryHighSpeedSteps DEF Hs200Verify
<1>32. CASE Rollback BY <1>32, TryHighSpeedSteps DEF Rollback
<1>33. CASE HsClock BY <1>33 DEF HsClock
<1>34. CASE CallInit BY <1>34 DEF CallInit
<1>35. CASE SwapCard BY <1>35 DEF SwapCard
<1>36. CASE \E e \in BOOLEAN : SetSdSpeedSelectionEnabled(e)
  BY <1>36 DEF SetSdSpeedSelectionEnabled, TypeOK, Driver
<1>37. CASE UNCHANGED vars BY <1>37 DEF vars
<1> QED
  BY <1>1, <1>2, <1>3, <1>4, <1>5, <1>6, <1>7, <1>8, <1>9, <1>10, <1>11, <1>12,
     <1>13, <1>14, <1>15, <1>16, <1>17, <1>18, <1>19, <1>20, <1>21, <1>22, <1>23,
     <1>24, <1>25, <1>26, <1>27, <1>28, <1>29, <1>30, <1>31, <1>32, <1>33, <1>34,
     <1>35, <1>36, <1>37
  DEF Next, InitStep, Identify, NegotiateSd, NegotiateMmc, User

\* Every step keeps the OCR and the family those of the card in the slot.
LEMMA IdentityInductive == TypeOK /\ ControlInv /\ IdentityInv /\ [Next]_vars => IdentityInv'
<1> SUFFICES ASSUME TypeOK, ControlInv, IdentityInv, [Next]_vars PROVE IdentityInv'
  OBVIOUS
<1> USE DEF TypeOK, Driver, Locals, IdentityInv, IdentityIsReal, ControlInv, BeforeOcr, Selection, Negotiation,
        Exchange, HostCall, Step, StepWith, Fail, Finish, Poll
<1>1. CASE SetBit1 BY <1>1 DEF SetBit1
<1>2. CASE SetIdClock BY <1>2 DEF SetIdClock
<1>3. CASE Cmd0 BY <1>3 DEF Cmd0
<1>4. CASE Cmd8 BY <1>4 DEF Cmd8
<1>5. CASE Cmd55 BY <1>5 DEF Cmd55
<1>6. CASE Acmd41
  <2>1. CASE pc' = "Cmd2"
    <3>1. /\ loc' = WithOcr /\ drv' = [drv EXCEPT !.kind = "Sd"]
          /\ card.family # "Mmc" /\ card' = card /\ result' = "running"
      BY <1>6, <2>1 DEF Acmd41
    <3>2. loc'.ccs = card.ccs /\ drv'.kind = "Sd"
      BY <3>1 DEF WithOcr
    <3> QED
      BY <2>1, <3>1, <3>2
  <2>2. CASE pc' # "Cmd2"
    BY <1>6, <2>2 DEF Acmd41
  <2> QED
    BY <2>1, <2>2
<1>7. CASE Cmd1Query
  <2>1. CASE pc' = "Cmd2"
    <3>1. /\ loc' = WithOcr /\ drv' = [drv EXCEPT !.kind = "Mmc"]
          /\ card.family = "Mmc" /\ card' = card /\ result' = "running"
      BY <1>7, <2>1 DEF Cmd1Query, OpCond
    <3>2. loc'.ccs = card.ccs /\ drv'.kind = "Mmc"
      BY <3>1 DEF WithOcr
    <3> QED
      BY <2>1, <3>1, <3>2
  <2>2. CASE pc' # "Cmd2"
    BY <1>7, <2>2 DEF Cmd1Query, OpCond
  <2> QED
    BY <2>1, <2>2
<1>8. CASE Cmd1
  <2>1. CASE pc' = "Cmd2"
    <3>1. /\ loc' = WithOcr /\ drv' = [drv EXCEPT !.kind = "Mmc"]
          /\ card.family = "Mmc" /\ card' = card /\ result' = "running"
      BY <1>8, <2>1 DEF Cmd1, OpCond
    <3>2. loc'.ccs = card.ccs /\ drv'.kind = "Mmc"
      BY <3>1 DEF WithOcr
    <3> QED
      BY <2>1, <3>1, <3>2
  <2>2. CASE pc' # "Cmd2"
    BY <1>8, <2>2 DEF Cmd1, OpCond
  <2> QED
    BY <2>1, <2>2
<1>9. CASE Cmd2 BY <1>9 DEF Cmd2
<1>10. CASE Cmd3 BY <1>10 DEF Cmd3
<1>11. CASE Cmd9 BY <1>11 DEF Cmd9
<1>12. CASE Cmd7 BY <1>12 DEF Cmd7
<1>13. CASE Cmd55Rca BY <1>13 DEF Cmd55Rca
<1>14. CASE Acmd6 BY <1>14 DEF Acmd6
<1>15. CASE SetBit4 BY <1>15 DEF SetBit4
<1>16. CASE SetDefault BY <1>16 DEF SetDefault
<1>17. CASE SpeedQuery BY <1>17, TryBelowSteps DEF SpeedQuery
<1>18. CASE Cmd11 BY <1>18, TryBelowSteps DEF Cmd11, TryNext
<1>19. CASE SdVoltage BY <1>19, TryBelowSteps DEF SdVoltage, TryNext
<1>20. CASE SwitchMode BY <1>20, TryBelowSteps DEF SwitchMode, TryNext
<1>21. CASE ModeClock BY <1>21, TryBelowSteps DEF ModeClock, TryNext
<1>22. CASE ModeStatus BY <1>22, TryBelowSteps DEF ModeStatus, TryNext
<1>23. CASE Tune19 BY <1>23, TryBelowSteps DEF Tune19, TryNext
<1>24. CASE ReadExtCsd BY <1>24 DEF ReadExtCsd
<1>25. CASE SetWidthMmc BY <1>25, TryHighSpeedSteps DEF SetWidthMmc, SwitchFailed, TryTiming
<1>26. CASE Cmd6Switch BY <1>26, TryHighSpeedSteps DEF Cmd6Switch, SwitchFailed, TryTiming
<1>27. CASE Cmd13Poll BY <1>27, TryHighSpeedSteps DEF Cmd13Poll, SwitchFailed, SwitchDone, TryTiming
<1>28. CASE Hs200Voltage BY <1>28, TryHighSpeedSteps DEF Hs200Voltage
<1>29. CASE Hs200Clock BY <1>29 DEF Hs200Clock
<1>30. CASE Tune21 BY <1>30 DEF Tune21
<1>31. CASE Hs200Verify BY <1>31, TryHighSpeedSteps DEF Hs200Verify
<1>32. CASE Rollback BY <1>32, TryHighSpeedSteps DEF Rollback
<1>33. CASE HsClock BY <1>33 DEF HsClock
<1>34. CASE CallInit BY <1>34 DEF CallInit
<1>35. CASE SwapCard BY <1>35 DEF SwapCard
<1>36. CASE \E e \in BOOLEAN : SetSdSpeedSelectionEnabled(e)
  BY <1>36 DEF SetSdSpeedSelectionEnabled, TypeOK, Driver
<1>37. CASE UNCHANGED vars BY <1>37 DEF vars
<1> QED
  BY <1>1, <1>2, <1>3, <1>4, <1>5, <1>6, <1>7, <1>8, <1>9, <1>10, <1>11, <1>12,
     <1>13, <1>14, <1>15, <1>16, <1>17, <1>18, <1>19, <1>20, <1>21, <1>22, <1>23,
     <1>24, <1>25, <1>26, <1>27, <1>28, <1>29, <1>30, <1>31, <1>32, <1>33, <1>34,
     <1>35, <1>36, <1>37
  DEF Next, InitStep, Identify, NegotiateSd, NegotiateMmc, User

\* In a first init no step publishes a width that one end has not taken.
LEMMA WidthInductive == TypeOK /\ ControlInv /\ WidthInv /\ [Next]_vars => WidthInv'
<1> SUFFICES ASSUME TypeOK, ControlInv, WidthInv, [Next]_vars PROVE WidthInv'
  OBVIOUS
<1> USE DEF TypeOK, Driver, Host, Device, Locals, WidthInv, WidthIsReal, Published, ControlInv, SwitchPcs,
        Identification, Selection, BeforeOcr,
        Exchange, HostCall, Step, StepWith, Fail, Finish, Poll
<1>1. CASE SetBit1 BY <1>1 DEF SetBit1, SetWidth
<1>2. CASE SetIdClock BY <1>2 DEF SetIdClock, SetClock
<1>3. CASE Cmd0 BY <1>3 DEF Cmd0, ResetCard, PoweredCard
<1>4. CASE Cmd8 BY <1>4 DEF Cmd8
<1>5. CASE Cmd55 BY <1>5 DEF Cmd55
<1>6. CASE Acmd41 BY <1>6 DEF Acmd41, WithOcr
<1>7. CASE Cmd1Query BY <1>7 DEF Cmd1Query, OpCond, WithOcr
<1>8. CASE Cmd1 BY <1>8 DEF Cmd1, OpCond, WithOcr
<1>9. CASE Cmd2 BY <1>9 DEF Cmd2
<1>10. CASE Cmd3 BY <1>10 DEF Cmd3
<1>11. CASE Cmd9 BY <1>11 DEF Cmd9
<1>12. CASE Cmd7 BY <1>12 DEF Cmd7
<1>13. CASE Cmd55Rca BY <1>13 DEF Cmd55Rca
<1>14. CASE Acmd6 BY <1>14 DEF Acmd6
<1>15. CASE SetBit4 BY <1>15 DEF SetBit4, SetWidth
<1>16. CASE SetDefault BY <1>16 DEF SetDefault, SetClock
<1>17. CASE SpeedQuery BY <1>17, TryBelowSteps DEF SpeedQuery
<1>18. CASE Cmd11 BY <1>18, TryBelowSteps DEF Cmd11, TryNext
<1>19. CASE SdVoltage BY <1>19, TryBelowSteps DEF SdVoltage, TryNext
<1>20. CASE SwitchMode BY <1>20, TryBelowSteps DEF SwitchMode, TryNext
<1>21. CASE ModeClock BY <1>21, TryBelowSteps DEF ModeClock, TryNext, SetClock
<1>22. CASE ModeStatus BY <1>22, TryBelowSteps DEF ModeStatus, TryNext
<1>23. CASE Tune19 BY <1>23, TryBelowSteps DEF Tune19, TryNext
<1>24. CASE ReadExtCsd BY <1>24 DEF ReadExtCsd
<1>25. CASE SetWidthMmc BY <1>25, TryHighSpeedSteps, Names DEF SetWidthMmc, SwitchFailed, TryTiming, SetWidth
<1>26. CASE Cmd6Switch BY <1>26, TryHighSpeedSteps, Names DEF Cmd6Switch, SwitchFailed, TryTiming, Switched
<1>27. CASE Cmd13Poll BY <1>27, TryHighSpeedSteps, Names DEF Cmd13Poll, SwitchFailed, SwitchDone, TryTiming
<1>28. CASE Hs200Voltage BY <1>28, TryHighSpeedSteps, Names DEF Hs200Voltage
<1>29. CASE Hs200Clock BY <1>29 DEF Hs200Clock, SetClock
<1>30. CASE Tune21 BY <1>30 DEF Tune21
<1>31. CASE Hs200Verify BY <1>31, TryHighSpeedSteps, Names DEF Hs200Verify
<1>32. CASE Rollback BY <1>32, TryHighSpeedSteps, Names DEF Rollback, SetClock
<1>33. CASE HsClock BY <1>33 DEF HsClock, SetClock
<1>34. CASE CallInit BY <1>34 DEF CallInit
<1>35. CASE SwapCard BY <1>35 DEF SwapCard
<1>36. CASE \E e \in BOOLEAN : SetSdSpeedSelectionEnabled(e)
  BY <1>36 DEF SetSdSpeedSelectionEnabled, TypeOK, Driver
<1>37. CASE UNCHANGED vars BY <1>37 DEF vars
<1> QED
  BY <1>1, <1>2, <1>3, <1>4, <1>5, <1>6, <1>7, <1>8, <1>9, <1>10, <1>11, <1>12,
     <1>13, <1>14, <1>15, <1>16, <1>17, <1>18, <1>19, <1>20, <1>21, <1>22, <1>23,
     <1>24, <1>25, <1>26, <1>27, <1>28, <1>29, <1>30, <1>31, <1>32, <1>33, <1>34,
     <1>35, <1>36, <1>37
  DEF Next, InitStep, Identify, NegotiateSd, NegotiateMmc, User

\* Every step of the negotiation builds on what the earlier ones achieved.
LEMMA SpeedInductive == TypeOK /\ ControlInv /\ SpeedInv /\ [Next]_vars => SpeedInv'
<1> SUFFICES ASSUME TypeOK, ControlInv, SpeedInv, [Next]_vars PROVE SpeedInv'
  OBVIOUS
<1>10. CASE Cmd3
  <2>1. PICK rca :
           Exchange(dev.state = "ident", [dev EXCEPT !.state = "stby", !.rca = rca],
                    [drv EXCEPT !.rca = rca], Step("Cmd9"), Fail)
    BY <1>10, Zenon DEF Cmd3
  <2>2. \/ pc' = "Cmd9" /\ result' = result /\ pc = "Cmd3"
        \/ pc' = "Idle" /\ result' = "err"
    BY <1>10, <2>1, Zenon DEF Cmd3, Exchange, Step, Fail
  <2>3. dev'.timing = dev.timing /\ (dev'.state # "tran" => dev.state # "tran")
    BY <2>1 DEF Exchange, TypeOK, Device
  <2> QED
    BY <2>2, <2>3
    DEF SpeedInv, SpeedIsReal, Selection, ModePcs, SwitchPcs, ControlInv
<1> USE Names DEF TypeOK, Driver, Host, Device, Locals, SpeedInv, SpeedIsReal, ControlInv, SwitchPcs, ModePcs,
        Selection, NeedsTuning,
        Exchange, HostCall, Step, StepWith, Fail, Finish, Poll
<1>1. CASE SetBit1 BY <1>1 DEF SetBit1, SetWidth
<1>2. CASE SetIdClock BY <1>2 DEF SetIdClock, SetClock
<1>3. CASE Cmd0 BY <1>3 DEF Cmd0, ResetCard, PoweredCard
<1>4. CASE Cmd8 BY <1>4 DEF Cmd8
<1>5. CASE Cmd55 BY <1>5 DEF Cmd55
<1>6. CASE Acmd41 BY <1>6 DEF Acmd41, WithOcr
<1>7. CASE Cmd1Query BY <1>7 DEF Cmd1Query, OpCond, WithOcr
<1>8. CASE Cmd1 BY <1>8 DEF Cmd1, OpCond, WithOcr
<1>9. CASE Cmd2 BY <1>9 DEF Cmd2
<1>11. CASE Cmd9 BY <1>11 DEF Cmd9
<1>12. CASE Cmd7 BY <1>12 DEF Cmd7, Addressed
<1>13. CASE Cmd55Rca BY <1>13 DEF Cmd55Rca
<1>14. CASE Acmd6 BY <1>14 DEF Acmd6
<1>15. CASE SetBit4 BY <1>15 DEF SetBit4, SetWidth
<1>16. CASE SetDefault
  <2>1. CASE result' = "ok"
    <3>1. /\ pc' = "Idle" /\ host' = SetClock("Default") /\ dev' = dev
          /\ loc' = [loc EXCEPT !.speed = "Default"]
      BY <1>16, <2>1 DEF SetDefault
    <3>2. host'.clock = "Default" /\ loc'.speed = "Default" /\ dev'.timing = "Default"
      BY <1>16, <3>1 DEF SetDefault, SetClock
    <3> QED
      BY <3>1, <3>2
  <2>2. CASE result' # "ok"
    BY <1>16, <2>2 DEF SetDefault
  <2> QED
    BY <2>1, <2>2
<1>17. CASE SpeedQuery BY <1>17, TryBelowSteps DEF SpeedQuery
<1>18. CASE Cmd11 BY <1>18, TryBelowSteps DEF Cmd11, TryNext
<1>19. CASE SdVoltage BY <1>19, TryBelowSteps DEF SdVoltage, TryNext
<1>20. CASE SwitchMode BY <1>20, TryBelowSteps DEF SwitchMode, TryNext
<1>21. CASE ModeClock
  <2>1. CASE pc' = "ModeStatus"
    <3>1. /\ host' = SetClock(loc.cand) /\ dev' = dev /\ loc' = loc /\ result' = "running"
      BY <1>21, <2>1, TryBelowSteps DEF ModeClock, TryNext
    <3>2. host'.clock = loc.cand /\ host'.volt = host.volt
      BY <3>1 DEF SetClock
    <3> QED
      BY <1>21, <2>1, <3>1, <3>2 DEF ModeClock
  <2>2. CASE pc' # "ModeStatus"
    BY <1>21, <2>2, TryBelowSteps DEF ModeClock, TryNext
  <2> QED
    BY <2>1, <2>2
<1>22. CASE ModeStatus
  <2>1. host' = host /\ dev' = dev
    BY <1>22 DEF ModeStatus
  <2>2. \/ Finish(loc.cand) /\ loc.cand \notin NeedsTuning
        \/ Step("Tune19") /\ loc.cand \in NeedsTuning
        \/ TryBelow(Rank[loc.cand])
    BY <1>22 DEF ModeStatus, TryNext
  <2>3. CASE Finish(loc.cand) /\ loc.cand \notin NeedsTuning
    BY <1>22, <2>1, <2>3, LocalTypes DEF ModeStatus
  <2>4. CASE Step("Tune19") /\ loc.cand \in NeedsTuning
    BY <1>22, <2>1, <2>4 DEF ModeStatus
  <2>5. CASE TryBelow(Rank[loc.cand])
    BY <2>1, <2>5, <1>22, TryBelowSteps DEF ModeStatus
  <2> QED
    BY <2>2, <2>3, <2>4, <2>5
<1>23. CASE Tune19 BY <1>23, TryBelowSteps DEF Tune19, TryNext
<1>24. CASE ReadExtCsd BY <1>24 DEF ReadExtCsd
<1>25. CASE SetWidthMmc BY <1>25, TryHighSpeedSteps DEF SetWidthMmc, SwitchFailed, TryTiming, SetWidth
<1>26. CASE Cmd6Switch BY <1>26, TryHighSpeedSteps DEF Cmd6Switch, SwitchFailed, TryTiming, Switched
<1>27. CASE Cmd13Poll BY <1>27, TryHighSpeedSteps DEF Cmd13Poll, SwitchFailed, SwitchDone, TryTiming
<1>28. CASE Hs200Voltage BY <1>28, TryHighSpeedSteps DEF Hs200Voltage
<1>29. CASE Hs200Clock BY <1>29 DEF Hs200Clock, SetClock
<1>30. CASE Tune21 BY <1>30 DEF Tune21
<1>31. CASE Hs200Verify BY <1>31, TryHighSpeedSteps DEF Hs200Verify
<1>32. CASE Rollback BY <1>32, TryHighSpeedSteps DEF Rollback, SetClock
<1>33. CASE HsClock
  <2>1. CASE Finish("HighSpeed")
    <3>1. host' = SetClock("HighSpeed") /\ dev' = dev
      BY <1>33, <2>1 DEF HsClock
    <3>2. host'.clock = "HighSpeed" /\ dev'.timing = "HighSpeed" /\ loc'.speed = "HighSpeed"
      BY <1>33, <2>1, <3>1 DEF HsClock, SetClock
    <3> QED
      BY <1>33, <2>1, <3>1, <3>2 DEF HsClock
  <2>2. CASE Finish("None")
    BY <1>33, <2>2 DEF HsClock
  <2> QED
    BY <1>33, <2>1, <2>2 DEF HsClock
<1>34. CASE CallInit BY <1>34 DEF CallInit
<1>35. CASE SwapCard
  <2>1. dev'.timing = "Default" /\ result' = "none" /\ UNCHANGED <<pc, loc, host>>
    BY <1>35 DEF SwapCard, PoweredCard
  <2> QED
    BY <2>1, <1>35 DEF SwapCard
<1>36. CASE \E e \in BOOLEAN : SetSdSpeedSelectionEnabled(e)
  BY <1>36 DEF SetSdSpeedSelectionEnabled, TypeOK, Driver
<1>37. CASE UNCHANGED vars BY <1>37 DEF vars
<1> QED
  BY <1>1, <1>2, <1>3, <1>4, <1>5, <1>6, <1>7, <1>8, <1>9, <1>10, <1>11, <1>12,
     <1>13, <1>14, <1>15, <1>16, <1>17, <1>18, <1>19, <1>20, <1>21, <1>22, <1>23,
     <1>24, <1>25, <1>26, <1>27, <1>28, <1>29, <1>30, <1>31, <1>32, <1>33, <1>34,
     <1>35, <1>36, <1>37
  DEF Next, InitStep, Identify, NegotiateSd, NegotiateMmc, User

-----------------------------------------------------------------------------
(* The theorems.                                                           *)

\* The inductive invariant holds of the state before any init.
LEMMA InitEstablishes == Init => TypeOK /\ IInv
<1> SUFFICES ASSUME Init PROVE TypeOK /\ IInv
  OBVIOUS
<1>1. loc \in Locals /\ host \in Host /\ drv \in Driver
  BY DEF Init, Locals, Host, Driver, SignalVoltage, BusWidth, ClockSpeed
<1>2. TypeOK
  BY <1>1, PoweredCardType DEF Init, TypeOK, PcSet
<1>3. IInv
  BY DEF Init, PoweredCard, IInv, ControlInv, AddressInv, IdentityInv, IdentityIsReal, WidthInv,
         WidthIsReal, SpeedInv, SpeedIsReal, ModePcs, SwitchPcs, BeforeOcr,
         Identification, Selection, Negotiation, Published
<1> QED
  BY <1>2, <1>3

\* The conjunction of the five parts, with the types, holds of every
\* reachable state of init and of its user.
THEOREM InductiveInvariant == Spec => [](TypeOK /\ IInv)
<1>1. TypeOK /\ IInv /\ [Next]_vars => (TypeOK /\ IInv)'
  BY TypeInductive, ControlInductive, AddressInductive, IdentityInductive,
     WidthInductive, SpeedInductive DEF IInv
<1> QED
  BY InitEstablishes, <1>1, PTL DEF Spec

\* The state of driver, host and card keeps its type.
THEOREM TypeCorrect == Spec => []TypeOK
BY InductiveInvariant, PTL

\* Every command that carries the published address reaches the card it is
\* meant for, in the state the command needs.
THEOREM AddressesCorrect == Spec => []AddressesTheCard
<1>1. IInv => AddressesTheCard
  BY DEF IInv, AddressInv, AddressesTheCard, AddressPcs, Selection, Negotiation
<1> QED
  BY <1>1, InductiveInvariant, PTL

\* A speed that init reports is one that card and host agree on, tuned and at
\* the right level.
THEOREM SpeedCorrect == Spec => []SpeedIsReal
<1>1. IInv => SpeedIsReal
  BY DEF IInv, SpeedInv
<1> QED
  BY <1>1, InductiveInvariant, PTL

\* The width published by a first init is the width of both ends.
THEOREM WidthCorrect == Spec => []WidthIsReal
<1>1. IInv => WidthIsReal
  BY DEF IInv, WidthInv
<1> QED
  BY <1>1, InductiveInvariant, PTL

\* A successful init knows the addressing and the family of its card.
THEOREM IdentityCorrect == Spec => []IdentityIsReal
<1>1. IInv => IdentityIsReal
  BY DEF IInv, IdentityInv
<1> QED
  BY <1>1, InductiveInvariant, PTL

\* The host clock is raised to a fast mode only after the card took its timing.
THEOREM ClockFollows == Spec => ClockFollowsCard
<1> DEFINE Raised == host'.clock # host.clock
                       /\ host'.clock \notin {"Identification", "Default"}
<1>1. TypeOK /\ IInv /\ [Next]_vars => [Raised => dev.timing = host'.clock]_vars
  <2> SUFFICES ASSUME TypeOK, IInv, Next, Raised PROVE dev.timing = host'.clock
    OBVIOUS
  <2>1. \A c : SetClock(c).clock = c
    BY DEF TypeOK, Host, SetClock
  <2>2. \A w : SetWidth(w).clock = host.clock
    BY DEF TypeOK, Host, SetWidth
  <2>3. [host EXCEPT !.volt = "V180"].clock = host.clock
        /\ [host EXCEPT !.tuned = TRUE].clock = host.clock
    BY DEF TypeOK, Host
  <2>4. \/ ModeClock /\ host' = SetClock(loc.cand)
        \/ Hs200Clock /\ host' = SetClock("Hs200")
        \/ HsClock /\ host' = SetClock("HighSpeed")
    <3>1. CASE Identify
      BY <2>1, <2>2, <3>1 DEF Identify, SetBit1, SetIdClock, Cmd0, Cmd8, Cmd55, Acmd41,
         Cmd1Query, Cmd1, OpCond, Cmd2, Cmd3, Cmd9, Cmd7, Exchange, HostCall
    <3>2. CASE NegotiateSd
      BY <2>1, <2>2, <2>3, <3>2 DEF NegotiateSd, Cmd55Rca, Acmd6, SetBit4, SetDefault,
         SpeedQuery, Cmd11, SdVoltage, SwitchMode, ModeClock, ModeStatus, Tune19,
         Exchange, HostCall
    <3>3. CASE NegotiateMmc
      BY <2>1, <2>2, <2>3, <3>3 DEF NegotiateMmc, ReadExtCsd, SetWidthMmc, Cmd6Switch,
         Cmd13Poll, Hs200Voltage, Hs200Clock, Tune21, Hs200Verify, Rollback, HsClock,
         Exchange, HostCall
    <3>4. CASE User
      BY <3>4 DEF User, CallInit, SwapCard, SetSdSpeedSelectionEnabled
    <3> QED
      BY <3>1, <3>2, <3>3, <3>4 DEF Next, InitStep
  <2> QED
    BY <2>1, <2>4 DEF ModeClock, Hs200Clock, HsClock, IInv, SpeedInv
<1> QED
  BY <1>1, InductiveInvariant, PTL DEF Spec, ClockFollowsCard

-----------------------------------------------------------------------------
(* init implements BringUp.                                                *)

\* A call of init is a step of BringUp, or leaves its view unchanged.
LEMMA StepImplements ==
    TypeOK /\ IInv /\ [Next]_vars => [Abstract!Next]_(Abstract!vars)
<1> SUFFICES ASSUME TypeOK, IInv, [Next]_vars
             PROVE  [Abstract!Next]_(Abstract!vars)
  OBVIOUS
<1> USE DEF TypeOK, Driver, IInv, ControlInv, AddressInv, ModePcs, SwitchPcs,
        Exchange, HostCall, Step, StepWith, Fail, Finish, Poll,
        Phase, Negotiation, Selection, Abstract!Next, Abstract!vars, Abstract!Begin,
        Abstract!Remove, Abstract!Publish, Abstract!Select, Abstract!Negotiate,
        Abstract!Widen, Abstract!Succeed, Abstract!Fail
<1>1. CASE SetBit1 BY <1>1 DEF SetBit1
<1>2. CASE SetIdClock BY <1>2 DEF SetIdClock
<1>3. CASE Cmd0 BY <1>3 DEF Cmd0
<1>4. CASE Cmd8 BY <1>4 DEF Cmd8
<1>5. CASE Cmd55 BY <1>5 DEF Cmd55
<1>6. CASE Acmd41 BY <1>6 DEF Acmd41, WithOcr
<1>7. CASE Cmd1Query BY <1>7 DEF Cmd1Query, OpCond, WithOcr
<1>8. CASE Cmd1 BY <1>8 DEF Cmd1, OpCond, WithOcr
<1>9. CASE Cmd2 BY <1>9 DEF Cmd2
<1>10. CASE Cmd3
  <2>1. (IF drv.kind = "Sd" THEN CardRcas ELSE {1}) \subseteq Nat \ {0}
    BY RcasAssumption
  <2>2. PICK rca \in Nat \ {0} :
           Exchange(dev.state = "ident", [dev EXCEPT !.state = "stby", !.rca = rca],
                    [drv EXCEPT !.rca = rca], Step("Cmd9"), Fail)
    BY <1>10, <2>1, Zenon DEF Cmd3
  <2>3. CASE drv' = drv
    BY <1>10, <2>2, <2>3 DEF Cmd3
  <2>4. CASE drv' = [drv EXCEPT !.rca = rca] /\ Step("Cmd9")
    <3>1. drv'.rca = rca /\ drv'.busWidth = drv.busWidth
      BY <2>4
    <3> QED
      BY <1>10, <2>4, <3>1 DEF Cmd3
  <2> QED
    BY <2>2, <2>3, <2>4
<1>11. CASE Cmd9 BY <1>11 DEF Cmd9
<1>12. CASE Cmd7 BY <1>12 DEF Cmd7
<1>13. CASE Cmd55Rca BY <1>13 DEF Cmd55Rca
<1>14. CASE Acmd6 BY <1>14 DEF Acmd6
<1>15. CASE SetBit4 BY <1>15 DEF SetBit4
<1>16. CASE SetDefault BY <1>16 DEF SetDefault
<1>17. CASE SpeedQuery BY <1>17, TryBelowSteps DEF SpeedQuery
<1>18. CASE Cmd11 BY <1>18, TryBelowSteps DEF Cmd11, TryNext
<1>19. CASE SdVoltage BY <1>19, TryBelowSteps DEF SdVoltage, TryNext
<1>20. CASE SwitchMode BY <1>20, TryBelowSteps DEF SwitchMode, TryNext
<1>21. CASE ModeClock BY <1>21, TryBelowSteps DEF ModeClock, TryNext
<1>22. CASE ModeStatus BY <1>22, TryBelowSteps DEF ModeStatus, TryNext
<1>23. CASE Tune19 BY <1>23, TryBelowSteps DEF Tune19, TryNext
<1>24. CASE ReadExtCsd BY <1>24 DEF ReadExtCsd
<1>25. CASE SetWidthMmc BY <1>25, TryHighSpeedSteps, Names DEF SetWidthMmc, SwitchFailed, TryTiming
<1>26. CASE Cmd6Switch BY <1>26, TryHighSpeedSteps, Names DEF Cmd6Switch, SwitchFailed, TryTiming, Switched
<1>27. CASE Cmd13Poll
  <2>1. \/ drv' = drv
        \/ drv' = [drv EXCEPT !.busWidth = loc.switch] /\ loc.switch \in {"Bit8", "Bit4"}
    <3>1. loc.switch \in BusWidth => loc.switch \in {"Bit8", "Bit4"}
      BY LocalTypes, Names
    <3> QED
      BY <1>27, <3>1 DEF Cmd13Poll
  <2>2. drv'.rca = drv.rca /\ drv'.busWidth \in {drv.busWidth, "Bit8", "Bit4"}
    BY <2>1
  <2>3. \/ pc' = "Idle" /\ result' = "ok"
        \/ pc' \in Negotiation /\ result' = result
    BY <1>27, TryHighSpeedSteps DEF Cmd13Poll, SwitchFailed, SwitchDone, TryTiming
  <2> QED
    BY <1>27, <2>2, <2>3 DEF Cmd13Poll
<1>28. CASE Hs200Voltage BY <1>28, TryHighSpeedSteps, Names DEF Hs200Voltage
<1>29. CASE Hs200Clock BY <1>29 DEF Hs200Clock
<1>30. CASE Tune21 BY <1>30 DEF Tune21
<1>31. CASE Hs200Verify BY <1>31, TryHighSpeedSteps, Names DEF Hs200Verify
<1>32. CASE Rollback BY <1>32, TryHighSpeedSteps, Names DEF Rollback
<1>33. CASE HsClock BY <1>33 DEF HsClock
<1>34. CASE CallInit BY <1>34 DEF CallInit
<1>35. CASE SwapCard BY <1>35 DEF SwapCard
<1>36. CASE \E e \in BOOLEAN : SetSdSpeedSelectionEnabled(e)
  BY <1>36 DEF SetSdSpeedSelectionEnabled, TypeOK, Driver
<1>37. CASE UNCHANGED vars BY <1>37 DEF vars
<1> QED
  BY <1>1, <1>2, <1>3, <1>4, <1>5, <1>6, <1>7, <1>8, <1>9, <1>10, <1>11, <1>12,
     <1>13, <1>14, <1>15, <1>16, <1>17, <1>18, <1>19, <1>20, <1>21, <1>22, <1>23,
     <1>24, <1>25, <1>26, <1>27, <1>28, <1>29, <1>30, <1>31, <1>32, <1>33, <1>34,
     <1>35, <1>36, <1>37
  DEF Next, InitStep, Identify, NegotiateSd, NegotiateMmc, User

\* init is a bring-up: it can fail only before it negotiates, and publishes the
\* address and the width only in the phases in which the card can take them.
THEOREM Implements == Spec => ImplementsBringUp
<1>1. Init => Abstract!Init
  <2> SUFFICES ASSUME Init PROVE Abstract!Init
    OBVIOUS
  <2>1. drv.rca = 0 /\ drv.busWidth = "Bit1"
    BY DEF Init
  <2>2. Phase = "Off"
    BY DEF Init, Phase, Negotiation, Selection
  <2> QED
    BY <2>1, <2>2 DEF Abstract!Init
<1> QED
  BY <1>1, StepImplements, InductiveInvariant, PTL DEF Spec, ImplementsBringUp, Abstract!Spec
=============================================================================
