------------------------------ MODULE DwMmcBus ------------------------------
(***************************************************************************)
(* The bus settings of a DesignWare controller (crates/dwmmc-host).        *)
(*                                                                         *)
(* The clock registers act only when the card interface unit takes them,   *)
(* which an "update clock" command asks for.  program_clock sends three of *)
(* them and waits for each.  One that is late is still taken, with what    *)
(* the registers hold by then.                                             *)
(***************************************************************************)
EXTENDS HostCalls

CONSTANT RefHz    \* the reference clocks of set_reference_clock

\* ena, div: CLKENA and CLKDIV; unit: what the card interface unit uses;
\* updating: the start bit of an update command is set; ddr, volt: UHS.
VARIABLE dw

\* The eight bits of CLKDIV.
Divisors == 0 .. 255

Registers == [ref : RefHz, ena : BOOLEAN, div : Divisors, updating : BOOLEAN,
              unit : [ena : BOOLEAN, div : Divisors],
              ddr : BOOLEAN, volt : BOOLEAN, width : {"Bit1", "Bit4", "Bit8"}]

Off == [ena |-> FALSE, div |-> 0]

Clocked == dw.unit.ena
Rate == Divided(dw.ref, dw.unit.div)

Init ==
    \E r \in RefHz :
        dw = [ref |-> r, ena |-> FALSE, div |-> 0,
              updating |-> FALSE, unit |-> Off, ddr |-> FALSE, volt |-> FALSE,
              width |-> "Bit1"]

-----------------------------------------------------------------------------

\* The divider is rounded up, and cut off at the 8 bits of its field.
Divider(ref, target) ==
    IF target >= ref THEN 0
    ELSE LET raw == CeilDiv(ref, 2 * target) IN IF raw > 255 THEN 255 ELSE raw

\* send_update_clock, up to its wait.
Update(r) == [r EXCEPT !.updating = TRUE]

\* Mutant: the enable bit is left set.
GateLeftOpen(r) == Update(r)

\* The first step of program_clock.
Gate(r) == Update([r EXCEPT !.ena = FALSE])

\* The registers that the reset and reset_and_init clear.
Reset(r) == [ref |-> r.ref, ena |-> r.ena, div |-> r.div, updating |-> r.updating,
             unit |-> Off, ddr |-> FALSE, volt |-> FALSE, width |-> "Bit1"]

\* reset_and_init: the reset ends, or the driver stops waiting for it.
ResetAndInit ==
    /\ Asked("bring_up")
    /\ \/ dw' = Gate(Reset(dw)) /\ Await("Gate")
       \/ dw' = [dw EXCEPT !.ena = FALSE] /\ Answer("err")

SetBusWidth ==
    Asked("width") /\ dw' = [dw EXCEPT !.width = call.arg] /\ Answer("ok")

\* Mutant: the DDR bit is only ever set.
TimedSticky(speed) == [dw EXCEPT !.ddr = @ \/ speed = "Ddr50"]

Timed(speed) == [dw EXCEPT !.ddr = speed = "Ddr50"]

SetClock == Asked("clock") /\ dw' = Gate(Timed(call.arg)) /\ Await("Gate")

\* The rate program_clock was called with.
Target == IF call.op = "bring_up" THEN Hz["Identification"] ELSE Hz[call.arg]

\* The update that program_clock waits for is done: its next step.
Updated ==
    /\ ~dw.updating
    /\ \/ /\ step = "Gate" /\ Await("Divide")
          /\ dw' = Update([dw EXCEPT !.div = Divider(dw.ref, Target)])
       \/ step = "Divide" /\ Await("Ungate") /\ dw' = Update([dw EXCEPT !.ena = TRUE])
       \/ step = "Ungate" /\ Answer("ok") /\ UNCHANGED dw

Updating == step \in {"Gate", "Divide", "Ungate"} /\ dw.updating

\* Mutant: the wait for an update has no end.
UpdateAwaited == Updating /\ Await(step) /\ UNCHANGED dw

UpdateExpires == Updating /\ Answer("err") /\ UNCHANGED dw

\* What the unit uses once it has taken the registers.
Taken(r) == [r EXCEPT !.unit = [ena |-> r.ena, div |-> r.div]]

\* The unit takes the registers, in a call or after it.
UnitTakes ==
    /\ dw.updating
    /\ dw' = [Taken(dw) EXCEPT !.updating = FALSE]
    /\ UNCHANGED <<call, answer, step>>

SwitchVoltage ==
    /\ Asked("voltage")
    /\ IF call.arg = "V120" THEN Answer("err") /\ UNCHANGED dw
       ELSE Answer("ok") /\ dw' = [dw EXCEPT !.volt = call.arg = "V180"]

\* The trait's default: not supported.
ExecuteTuning == Asked("tuning") /\ Answer("err") /\ UNCHANGED dw

Step == \/ ResetAndInit \/ SetBusWidth \/ SetClock \/ Updated \/ UpdateExpires
        \/ SwitchVoltage \/ ExecuteTuning
=============================================================================
