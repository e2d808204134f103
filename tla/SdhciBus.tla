------------------------------ MODULE SdhciBus ------------------------------
(***************************************************************************)
(* The bus settings of an SDHCI controller (crates/sdhci-host): width,     *)
(* clock, signaling voltage and tuning.                                    *)
(*                                                                         *)
(* A call is split where somebody else acts: the platform's clock callback,*)
(* the internal clock that becomes stable, the controller that tunes.  All *)
(* register accesses between two such points are one step.                 *)
(***************************************************************************)
EXTENDS HostCalls

CONSTANT BaseMHz    \* the base clocks of the capabilities register

\* base: base_clock_hz(); external: ext_clock is set; ref: what feeds the
\* divider; clk: CLOCK_CONTROL; highSpeed, width: HOST_CONTROL1; v18,
\* sampling: HOST_CONTROL2.
VARIABLE sd

MHz == 1000000

\* What base_clock_hz() returns; the ten bits of the divider.
Bases == {m * MHz : m \in BaseMHz}
Divisors == 0 .. 1023

ClockControl == [internal : BOOLEAN, div : Divisors, enable : BOOLEAN]

Registers == [base : Bases, external : BOOLEAN, ref : Nat, clk : ClockControl,
              highSpeed : BOOLEAN, width : {"Bit1", "Bit4"}, v18 : BOOLEAN,
              sampling : BOOLEAN]

Clocked == sd.clk.internal /\ sd.clk.enable
Rate == Divided(sd.ref, sd.clk.div)

\* The registers after reset_all and set_power.
Reset(b, e, r) ==
    [base |-> b, external |-> e, ref |-> r,
     clk |-> [internal |-> FALSE, div |-> 0, enable |-> FALSE],
     highSpeed |-> FALSE, width |-> "Bit1", v18 |-> FALSE, sampling |-> FALSE]

Init == \E b \in Bases, e \in BOOLEAN : sd = Reset(b, e, b)

-----------------------------------------------------------------------------

\* The smallest n with base/2n at most the target.  When there is none the
\* loop leaves 0, the bypass.
Divider(base, target) ==
    LET fits == {n \in 1 .. 1023 : base \div (2 * n) <= target}
    IN  IF base > target /\ fits # {}
        THEN CHOOSE n \in fits : \A m \in fits : n <= m ELSE 0

\* Mutant: the upper two bits of the divider are lost.
RestartEightBits(r, div) ==
    [r EXCEPT !.clk = [internal |-> TRUE, div |-> div % 256, enable |-> FALSE]]

\* enable_clock and enable_clock_external: the clock is stopped, the divider
\* set, and the internal clock has to become stable.
Restart(r, div) == [r EXCEPT !.clk = [internal |-> TRUE, div |-> div, enable |-> FALSE]]

\* The SD clock enable bit, read, changed and written back.
Enable(r, bit) == [r EXCEPT !.clk = [internal |-> r.clk.internal, div |-> r.clk.div,
                                     enable |-> bit]]

Retuned(r, target) == Restart([r EXCEPT !.ref = target], 0)

\* The board's start: reset_all, set_power, enable_interrupts, then
\* enable_clock at 400 kHz, or enable_clock_external behind a clock unit set
\* to it.  A start needs a base clock or the clock unit.
BringUp ==
    /\ Asked("bring_up")
    /\ LET reset == Reset(sd.base, sd.external, sd.ref)
       IN  \/ /\ sd.external /\ sd' = Retuned(reset, Hz["Identification"])
              /\ Await("Stabilise")
           \/ /\ ~sd.external /\ sd.base > 0
              /\ sd' = Restart(reset, Divider(sd.base, Hz["Identification"]))
              /\ Await("Stabilise")
           \/ Answer("err") /\ UNCHANGED sd       \* the reset bit does not clear

\* Mutant: 8 bits are taken for granted.
SetBusWidthUnchecked ==
    Asked("width") /\ Answer("ok") /\ sd' = [sd EXCEPT !.width = call.arg]

SetBusWidth ==
    /\ Asked("width")
    /\ IF call.arg = "Bit8" THEN Answer("err") /\ UNCHANGED sd
       ELSE Answer("ok") /\ sd' = [sd EXCEPT !.width = call.arg]

\* The High Speed Enable bit is written first, under the old clock.
Timed(speed) == [sd EXCEPT !.highSpeed = speed \notin {"Identification", "Default"}]

SetClock ==
    /\ Asked("clock")
    /\ \/ sd.external /\ sd' = Enable(Timed(call.arg), FALSE) /\ Await("Callback")
       \/ /\ ~sd.external /\ sd.base > 0
          /\ sd' = Restart(Timed(call.arg), Divider(sd.base, Hz[call.arg]))
          /\ Await("Stabilise")
       \/ ~sd.external /\ sd.base = 0 /\ sd' = Timed(call.arg) /\ Answer("err")

\* The platform retunes the reference, or refuses and may have moved it all
\* the same.  A refusal leaves the clock gated.
Callback ==
    /\ step = "Callback"
    /\ \/ sd' = Retuned(sd, Hz[call.arg]) /\ Await("Stabilise")
       \/ (\E r \in {sd.ref, Hz[call.arg]} : sd' = [sd EXCEPT !.ref = r]) /\ Answer("err")

\* The internal clock becomes stable and is let out; or the wait ends.
Stabilise ==
    /\ step = "Stabilise"
    /\ \/ sd' = Enable(sd, TRUE) /\ Answer("ok")
       \/ UNCHANGED sd /\ Answer("err")

\* The clock is gated, the level changed and the enable bit set again,
\* whatever it was before.  1.2 V is refused behind the gate.
SwitchVoltage ==
    /\ Asked("voltage")
    /\ IF call.arg = "V120" THEN sd' = Enable(sd, FALSE) /\ Answer("err")
       ELSE /\ sd' = Enable([sd EXCEPT !.v18 = call.arg = "V180"], TRUE)
            /\ Answer("ok")

\* The driver sets the execute bit, which stays set until the sweep ends.
ExecuteTuning == Asked("tuning") /\ Await("Tune") /\ UNCHANGED sd

\* The controller ends the sweep and says whether it found a phase; or the
\* driver stops waiting and clears the bit.
TuningEnds ==
    /\ step = "Tune"
    /\ \/ Clocked /\ sd' = [sd EXCEPT !.sampling = TRUE] /\ Answer("ok")
       \/ /\ \E s \in {FALSE, sd.sampling} : sd' = [sd EXCEPT !.sampling = s]
          /\ Answer("err")

Step == \/ BringUp \/ SetBusWidth \/ SetClock \/ Callback \/ Stabilise
        \/ SwitchVoltage \/ ExecuteTuning \/ TuningEnds
=============================================================================
