----------------------------- MODULE HostCalls -----------------------------
(***************************************************************************)
(* The calls of the SdioHost trait (src/sdio.rs) that set the bus up, as   *)
(* a channel between the protocol driver and a host controller: the driver *)
(* puts a call, the controller answers it, at once or after steps of its   *)
(* own between which somebody else acts.                                   *)
(***************************************************************************)
EXTENDS Integers

\* step: what the call in progress waits for in the controller.
VARIABLES call, answer, step

\* The clock of each speed, in Hz; both controllers have the same table.
Hz == [Identification |-> 400000, Default |-> 25000000, HighSpeed |-> 50000000,
       Sdr50 |-> 50000000, Ddr50 |-> 50000000, Sdr104 |-> 104000000,
       Hs200 |-> 200000000]

Speeds == DOMAIN Hz

Calls == [op : {"bring_up", "command"}, arg : {"none"}]
         \cup [op : {"width"}, arg : {"Bit1", "Bit4", "Bit8"}]
         \cup [op : {"clock"}, arg : Speeds]
         \cup [op : {"voltage"}, arg : {"V330", "V180", "V120"}]
         \cup [op : {"tuning"}, arg : {"Cmd19", "Cmd21"}]
         \cup [op : {"none"}, arg : {"none"}]

Steps == {"Idle", "Callback", "Stabilise", "Tune", "Gate", "Divide", "Ungate"}

ChannelTypeOK == call \in Calls /\ answer \in {"none", "ok", "err"} /\ step \in Steps

Asked(op) == call.op = op /\ answer = "none" /\ step = "Idle"

Answer(a) == answer' = a /\ step' = "Idle" /\ UNCHANGED call

\* The call goes on when s has come.
Await(s) == step' = s /\ UNCHANGED <<call, answer>>

CeilDiv(a, b) == (a + b - 1) \div b

\* The frequency, rounded up, that a divider makes of a reference: 0 is a
\* bypass, n divides by 2n.
Divided(ref, div) == IF div = 0 THEN ref ELSE CeilDiv(ref, 2 * div)
=============================================================================
