------------------------------ MODULE SpiDriver ------------------------------
(***************************************************************************)
(* SpiSdmmc (src/spi.rs): the driver of a card in SPI mode.  One action    *)
(* for every command frame with its answer and for every data phase, each  *)
(* with the polling it does and the chip select it drives.                 *)
(*                                                                         *)
(* SPI mode has no transactions of its own: what a byte means is decided   *)
(* by what the card believes it is doing.  The driver looks only at        *)
(* whether an R1 is well formed, not at its error flags, so a command that *)
(* the card refused, or took for noise while it was sending or busy, goes  *)
(* on as if it had been executed; the data phase is where it comes out.    *)
(*                                                                         *)
(* The card is external code, modelled from the way the driver uses it.    *)
(***************************************************************************)
EXTENDS Naturals, Sequences

CONSTANTS
    Cards,         \* the cards that may sit in the socket
    ChipSelects,   \* whether the transport drives CS: a subset of BOOLEAN
    NumBlocks,     \* blocks of a card
    BlockLen,      \* bytes in a block
    Addrs,         \* the block addresses callers use
    Data,          \* what a block may hold
    Contents,      \* what a card may store when it is put into the socket
    Garbage,       \* what a block holds that was garbled on the bus
    MaxCount,      \* blocks in the longest multi-block call
    Faults,        \* what may go wrong, see FaultTypes
    InitPolls,     \* ACMD41 polls before the init timeout
    MaxCalls       \* bound: calls made on the driver, and cards swapped

Blocks == 0 .. NumBlocks - 1

CardType == [sdV2 : BOOLEAN, ccs : BOOLEAN, highSpeed : BOOLEAN]

\* silent: no answer to a command; refused: an answer with an error flag;
\* crc: a block garbled on its way; errorToken: an error token in its place;
\* rejected: a data response other than "accepted"; slow: a timeout expires;
\* bus: the transport fails after the card has acted.
FaultTypes == {"silent", "refused", "crc", "errorToken", "rejected", "slow", "bus"}

ASSUME CardsAssumption == Cards \subseteq CardType /\ Cards # {}
ASSUME SizesAssumption == NumBlocks \in Nat \ {0} /\ BlockLen \in Nat \ {0, 1}
ASSUME CallsAssumption == Addrs \subseteq Nat /\ Garbage \notin Data
ASSUME ContentsAssumption == Contents \subseteq [Blocks -> Data]
ASSUME FaultsAssumption == Faults \subseteq FaultTypes /\ ChipSelects \subseteq BOOLEAN
ASSUME BoundsAssumption == MaxCount \in Nat /\ InitPolls \in Nat /\ MaxCalls \in Nat

VARIABLES
    pc,       \* what the running call does next; "Idle" outside a call
    op,       \* the call: its kind, first block, number of blocks, data
    result,   \* "none", "running", "ok" or "err": how op stands
    moved,    \* the blocks op has delivered or sent
    polls,    \* turns of the ACMD41 loop
    calls,    \* calls made and cards swapped
    trusted,  \* no call has failed since the last init
    drv,      \* the fields of SpiSdmmc
    cs,       \* chip select is asserted
    wired,    \* the transport drives chip select
    card,     \* the card in the socket
    dev,      \* what the card believes it is doing
    store     \* what it stores

vars == <<pc, op, result, moved, polls, calls, trusted, drv, cs, wired, card, dev, store>>

ReadKinds == {"readBlock", "readBlocks"}
WriteKinds == {"writeBlock", "writeBlocks"}
Multi == {"readBlocks", "writeBlocks"}
Kinds == {"init", "switch"} \cup ReadKinds \cup WriteKinds

Operation == [kind : Kinds, first : Nat, count : Nat, data : Seq(Data)]

Driver == [sdV2 : BOOLEAN, highCapacity : BOOLEAN, verify : BOOLEAN]

\* "native": powered, not in SPI mode.  "status": sending a register or the
\* status of CMD6.  `block' is the one that is sent or received next.
CardStates == {"native", "idle", "tran", "data", "status", "rcv", "busy"}
Device == [state : CardStates, block : Nat, multi : BOOLEAN, highSpeed : BOOLEAN]

PcSet == {"Idle", "Cmd0", "Cmd8", "Cmd55", "Acmd41", "Cmd58", "Cmd9", "Cmd10",
          "Cmd16", "ReadCommand", "ReadData", "Cmd12", "WriteCommand",
          "WriteData", "Busy", "StopTran", "Cmd6"}

Delivered == Data \cup {Garbage, "highSpeed", "default"}

TypeOK ==
    /\ pc \in PcSet
    /\ op \in Operation
    /\ result \in {"none", "running", "ok", "err"}
    /\ moved \in Seq(Delivered) /\ Len(moved) <= op.count
    /\ polls \in 0 .. InitPolls
    /\ calls \in Nat
    /\ trusted \in BOOLEAN
    /\ drv \in Driver
    /\ cs \in BOOLEAN
    /\ wired \in BOOLEAN /\ (~wired => cs)
    /\ card \in Cards
    /\ dev \in Device
    /\ store \in [Blocks -> Data]

-----------------------------------------------------------------------------
(* The card.                                                               *)

Do(state) == [dev EXCEPT !.state = state, !.multi = FALSE]

\* The states in which the card takes the bytes it sees for a command.
Listening == dev.state \in {"idle", "tran"}

Sending == dev.state \in {"data", "status"}

\* A stray frame was clocked out of the card while it was sending.
Drained == IF dev.multi THEN dev ELSE Do("tran")

AfterBlock == IF dev.multi THEN [dev EXCEPT !.block = @ + 1] ELSE Do("tran")

AfterBusy == IF dev.multi THEN [dev EXCEPT !.state = "rcv"] ELSE Do("tran")

\* The block a card makes of an address on the wire, and whether there is one.
Selected(wire) == IF card.ccs THEN wire ELSE wire \div BlockLen
Selects(wire) == Selected(wire) \in Blocks /\ (card.ccs \/ wire % BlockLen = 0)

-----------------------------------------------------------------------------
(* Control.                                                                *)

Goto(next) == pc' = next /\ UNCHANGED <<result, trusted>>

\* A `?': the error reaches the caller.
Fail == pc' = "Idle" /\ result' = "err" /\ trusted' = FALSE

Finish ==
    /\ pc' = "Idle" /\ result' = "ok"
    /\ trusted' = (trusted \/ op.kind = "init")

Released == ~wired

\* A command frame and its R1.  Chip select stays asserted when a data phase
\* follows (hold), and after every error.
Command(hold, legal, after, Ok, Err) ==
    \/ /\ cs' = (hold \/ Released)
       /\ \/ Listening /\ legal /\ dev' = after
          \/ Listening /\ (~legal \/ "refused" \in Faults) /\ dev' = dev
          \/ dev.state = "busy" /\ dev' = dev
          \/ Sending /\ dev' = Drained
       /\ Ok
    \/ /\ cs' = TRUE
       /\ \/ ("silent" \in Faults \/ ~Listening) /\ dev' = dev
          \/ Listening /\ legal /\ "bus" \in Faults /\ dev' = after
          \/ Sending /\ dev' = Drained
       /\ Err

-----------------------------------------------------------------------------
(* The callers.                                                            *)

Init ==
    /\ pc = "Idle" /\ result = "none" /\ moved = <<>> /\ polls = 0
    /\ calls = 0 /\ trusted = FALSE
    /\ op = [kind |-> "init", first |-> 0, count |-> 0, data |-> <<>>]
    /\ drv = [sdV2 |-> FALSE, highCapacity |-> FALSE, verify |-> TRUE]
    /\ wired \in ChipSelects /\ cs = ~wired
    /\ card \in Cards
    /\ dev = [state |-> "native", block |-> 0, multi |-> FALSE, highSpeed |-> FALSE]
    /\ store \in Contents

Call(kind, first, count, data, next) ==
    /\ pc = "Idle" /\ calls < MaxCalls
    /\ calls' = calls + 1
    /\ op' = [kind |-> kind, first |-> first, count |-> count, data |-> data]
    /\ pc' = next /\ result' = "running" /\ moved' = <<>>
    /\ UNCHANGED <<drv, cs, wired, card, dev, store>>

CallInit ==
    /\ Call("init", 0, 0, <<>>, "Cmd0")
    /\ polls' = 0 /\ trusted' = FALSE

\* init comes first; nobody is kept from going on after it has failed.
BlockCall ==
    /\ result # "none"
    /\ \/ \E a \in Addrs : Call("readBlock", a, 1, <<>>, "ReadCommand")
       \/ \E a \in Addrs, d \in Data : Call("writeBlock", a, 1, <<d>>, "WriteCommand")
       \/ \E a \in Addrs, n \in 0 .. MaxCount :
             Call("readBlocks", a, n, <<>>, "ReadCommand")
       \/ \E a \in Addrs, n \in 0 .. MaxCount : \E data \in [1 .. n -> Data] :
             Call("writeBlocks", a, n, data, "WriteCommand")
       \/ Call("switch", 0, 1, <<>>, "Cmd6")
    /\ UNCHANGED <<polls, trusted>>

SetVerifyDataCrc(on) ==
    /\ pc = "Idle"
    /\ drv' = [drv EXCEPT !.verify = on]
    /\ UNCHANGED <<pc, op, result, moved, polls, calls, trusted, cs, wired, card, dev, store>>

\* The card is replaced by another.
SwapCard ==
    /\ pc = "Idle" /\ result # "none" /\ calls < MaxCalls
    /\ calls' = calls + 1
    /\ card' \in Cards
    /\ store' \in Contents
    /\ dev' = [state |-> "native", block |-> 0, multi |-> FALSE, highSpeed |-> FALSE]
    /\ trusted' = FALSE
    /\ UNCHANGED <<pc, op, result, moved, polls, drv, cs, wired>>

\* The card finishes what a timed-out call did not wait for.
BusyEnds ==
    /\ dev.state = "busy"
    /\ dev' = AfterBusy
    /\ UNCHANGED <<pc, op, result, moved, polls, calls, trusted, drv, cs, wired, card, store>>

-----------------------------------------------------------------------------
(* init.                                                                   *)

\* Mutant: one turn too many.
PollOnceMore(again) ==
    IF polls > InitPolls THEN Fail /\ UNCHANGED polls
                         ELSE Goto(again) /\ polls' = polls + 1

\* One more turn of the ACMD41 loop unless its time is up.
Poll(again) ==
    IF polls >= InitPolls THEN Fail /\ UNCHANGED polls
                          ELSE Goto(again) /\ polls' = polls + 1

\* CMD0 resets a card in any state, unless it is too busy to hear; what it was
\* sending may still pass for a malformed R1, and the R1 is not looked at.
Cmd0 ==
    /\ pc = "Cmd0"
    /\ \/ /\ dev' = [Do("idle") EXCEPT !.highSpeed = FALSE]
          /\ \/ cs' = Released /\ Goto("Cmd8")
             \/ cs' = TRUE /\ Fail /\ (Sending \/ "bus" \in Faults)
       \/ /\ dev' = dev
          /\ \/ cs' = TRUE /\ Fail /\ "silent" \in Faults
             \/ cs' = Released /\ Goto("Cmd8") /\ dev.state = "busy"
             \/ cs' = Released /\ Goto("Cmd8") /\ Listening /\ "refused" \in Faults
    /\ UNCHANGED <<op, moved, polls, calls, drv, wired, card, store>>

\* check_cmd8: no echo and no answer mean "not v2".  An illegal command and a
\* timeout return before chip select is released.
Cmd8 ==
    /\ pc = "Cmd8"
    /\ LET legal == card.sdV2 /\ dev.state = "idle"
       IN  \/ /\ legal /\ dev' = dev /\ cs' = Released
              /\ drv' = [drv EXCEPT !.sdV2 = TRUE]
              /\ Goto("Cmd55")
           \/ /\ ~legal \/ Faults \cap {"silent", "refused"} # {}
              /\ dev' = (IF Sending THEN Drained ELSE dev)
              /\ cs' \in {TRUE, Released}
              /\ drv' = [drv EXCEPT !.sdV2 = FALSE]
              /\ Goto("Cmd55")
           \/ /\ "bus" \in Faults \/ Sending
              /\ dev' = (IF Sending THEN Drained ELSE dev)
              /\ cs' = TRUE /\ UNCHANGED drv
              /\ Fail
    /\ UNCHANGED <<op, moved, polls, calls, wired, card, store>>

Cmd55 ==
    /\ pc = "Cmd55"
    /\ Command(FALSE, dev.state = "idle", dev, Goto("Acmd41"), Fail)
    /\ UNCHANGED <<op, moved, polls, calls, drv, wired, card, store>>

\* An R1 without the idle bit ends the loop, with or without error flags.
Acmd41 ==
    /\ pc = "Acmd41"
    /\ \E ready \in BOOLEAN :
          Command(FALSE, ready /\ dev.state = "idle" /\ (card.ccs => drv.sdV2),
                  Do("tran"),
                  IF dev'.state = "idle" THEN Poll("Cmd55")
                  ELSE \/ Goto("Cmd58") /\ UNCHANGED polls
                       \/ Sending /\ Poll("Cmd55"),
                  Fail /\ UNCHANGED polls)
    /\ UNCHANGED <<op, moved, calls, drv, wired, card, store>>

\* The OCR is read whatever the R1 was: a card that refused leaves the bus high.
OcrCcs ==
    CASE dev.state = "busy" -> {FALSE}
      [] Sending            -> BOOLEAN
      [] OTHER              -> {card.ccs} \cup (IF "refused" \in Faults THEN {TRUE} ELSE {})

Cmd58 ==
    /\ pc = "Cmd58"
    /\ Command(FALSE, dev.state = "tran", dev,
               /\ Goto("Cmd9")
               /\ \E ccs \in OcrCcs :
                     drv' = [drv EXCEPT !.highCapacity = ccs \/ drv.sdV2],
               Fail /\ UNCHANGED drv)
    /\ UNCHANGED <<op, moved, polls, calls, wired, card, store>>

\* CMD9 and CMD10: a register comes as a data block of its own.
Register(Ok, Err) ==
    \/ /\ dev.state = "tran" \/ (Sending /\ ~drv.verify)
       /\ dev' = (IF Sending THEN Drained ELSE dev) /\ cs' = Released
       /\ Ok
    \/ /\ \/ dev' = dev /\ (dev.state # "tran" \/ Faults # {})
          \/ dev' = Do("status") /\ dev.state = "tran" /\ "slow" \in Faults
          \/ dev' = Drained /\ Sending
       /\ cs' = TRUE
       /\ Err

Cmd9 ==
    /\ pc = "Cmd9"
    /\ Register(Goto("Cmd10"), Fail)
    /\ UNCHANGED <<op, moved, polls, calls, drv, wired, card, store>>

\* The CID is read, and an error of it swallowed.
Cmd10 ==
    /\ pc = "Cmd10"
    /\ LET next == IF drv.highCapacity THEN Finish ELSE Goto("Cmd16")
       IN  Register(next, next)
    /\ UNCHANGED <<op, moved, polls, calls, drv, wired, card, store>>

Cmd16 ==
    /\ pc = "Cmd16"
    /\ Command(FALSE, dev.state = "tran", dev, Finish, Fail)
    /\ UNCHANGED <<op, moved, polls, calls, drv, wired, card, store>>

-----------------------------------------------------------------------------
(* The block calls.                                                        *)

\* Mutant: no card is addressed in bytes.
BlockAddrInBlocks(addr) == addr

\* block_addr_of: the address that goes on the wire.
BlockAddrOf(addr) == IF drv.highCapacity THEN addr ELSE addr * BlockLen

\* The address of the call names a block of the card.
Addressed == dev.state = "tran" /\ Selects(BlockAddrOf(op.first))

Start(state) == [dev EXCEPT !.state = state, !.multi = op.kind \in Multi,
                            !.block = Selected(BlockAddrOf(op.first))]

ReadCommand ==
    /\ pc = "ReadCommand"
    /\ Command(TRUE, Addressed, Start("data"),
               Goto(IF op.count = 0 THEN "Cmd12" ELSE "ReadData"), Fail)
    /\ UNCHANGED <<op, moved, polls, calls, drv, wired, card, store>>

\* switch_function: CMD6 of a card that has the high-speed function.
Cmd6 ==
    /\ pc = "Cmd6"
    /\ Command(TRUE, dev.state = "tran",
               [Do("status") EXCEPT !.highSpeed = card.highSpeed],
               Goto("ReadData"), Fail)
    /\ UNCHANGED <<op, moved, polls, calls, drv, wired, card, store>>

Expected == dev.state = (IF op.kind = "switch" THEN "status" ELSE "data")

\* The start token can come: the card hears the clock and has something to send.
Readable == cs /\ Expected /\ (dev.state = "data" => dev.block \in Blocks)

Content == IF op.kind # "switch" THEN store[dev.block]
           ELSE IF dev.highSpeed THEN "highSpeed" ELSE "default"

\* One block has been read.  Chip select is released after each of them.
Accept(content) ==
    /\ moved' = Append(moved, content)
    /\ cs' = Released
    /\ IF op.kind \notin Multi THEN Finish
       ELSE Goto(IF Len(moved') = op.count THEN "Cmd12" ELSE "ReadData")

\* read_data_into, and the deselect after it.
ReadData ==
    /\ pc = "ReadData"
    /\ \/ Readable /\ dev' = AfterBlock /\ Accept(Content)
       \/ /\ cs /\ Sending /\ (~Expected \/ (Readable /\ "crc" \in Faults))
          /\ dev' = AfterBlock
          /\ IF drv.verify THEN Fail /\ UNCHANGED <<moved, cs>> ELSE Accept(Garbage)
       \/ /\ \/ dev' = dev /\ (~Readable \/ Faults \cap {"slow", "errorToken", "bus"} # {})
             \/ dev' = Drained /\ cs /\ Sending
                /\ (~Readable \/ "errorToken" \in Faults)
          /\ Fail /\ UNCHANGED <<moved, cs>>
    /\ UNCHANGED <<op, polls, calls, drv, wired, card, store>>

\* CMD12 with its busy, and the two calls after it.  The byte that follows the
\* command belongs to the stream and may pass for a malformed R1.
Cmd12 ==
    /\ pc = "Cmd12"
    /\ \/ ~Sending /\ Command(FALSE, FALSE, dev, Finish, Fail)
       \/ /\ Sending /\ dev' = Do("tran")
          /\ \/ cs' = Released /\ Finish
             \/ cs' = TRUE /\ Fail
       \/ Sending /\ "silent" \in Faults /\ dev' = dev /\ cs' = TRUE /\ Fail
    /\ UNCHANGED <<op, moved, polls, calls, drv, wired, card, store>>

WriteCommand ==
    /\ pc = "WriteCommand"
    /\ Command(TRUE, Addressed, Start("rcv"),
               Goto(IF op.count = 0 THEN "StopTran" ELSE "WriteData"), Fail)
    /\ UNCHANGED <<op, moved, polls, calls, drv, wired, card, store>>

Sent == op.data[Len(moved) + 1]

\* Start token, payload, CRC and the data response.  The card does not check
\* the CRC: SPI mode starts without, and nothing turns it on.
WriteData ==
    /\ pc = "WriteData"
    /\ \/ /\ dev.state = "rcv" /\ dev.block \in Blocks
          /\ store' = [store EXCEPT ![dev.block] = Sent]
          /\ dev' = [dev EXCEPT !.state = "busy", !.block = @ + 1]
          /\ \/ moved' = Append(moved, Sent) /\ Goto("Busy")
             \/ moved' = Append(moved, Sent) /\ "bus" \in Faults /\ Fail
       \/ /\ dev.state = "rcv"
          /\ dev.block \notin Blocks \/ "rejected" \in Faults
          /\ dev' = (IF dev.multi THEN dev ELSE Do("tran"))
          /\ UNCHANGED <<store, moved>> /\ Fail
       \/ /\ dev.state # "rcv" \/ Faults \cap {"silent", "bus"} # {}
          /\ UNCHANGED <<dev, store, moved>> /\ Fail
       \/ /\ Sending /\ dev' = Drained
          /\ moved' = Append(moved, Sent) /\ UNCHANGED store /\ Goto("Busy")
    /\ UNCHANGED <<op, polls, calls, drv, cs, wired, card>>

\* Mutant: a multi-block write ends without a stop token.
BusyWithoutStop ==
    /\ pc = "Busy"
    /\ dev' = (IF dev.state = "busy" THEN AfterBusy ELSE dev)
    /\ IF Len(moved) = op.count THEN cs' = Released /\ Finish
       ELSE UNCHANGED cs /\ Goto("WriteData")
    /\ UNCHANGED <<op, moved, polls, calls, drv, wired, card, store>>

\* wait_not_busy after a block.
Busy ==
    /\ pc = "Busy"
    /\ \/ /\ dev' = (IF dev.state = "busy" THEN AfterBusy ELSE dev)
          /\ IF op.kind = "writeBlock" THEN cs' = Released /\ Finish
             ELSE /\ UNCHANGED cs
                  /\ Goto(IF Len(moved) = op.count THEN "StopTran" ELSE "WriteData")
       \/ /\ (dev.state = "busy" /\ "slow" \in Faults) \/ "bus" \in Faults \/ Sending
          /\ UNCHANGED <<dev, cs>> /\ Fail
    /\ UNCHANGED <<op, moved, polls, calls, drv, wired, card, store>>

\* The stop token ends a multi-block write, after one more busy.
StopTran ==
    /\ pc = "StopTran"
    /\ \/ /\ dev' = (IF dev.state = "rcv" THEN Do("tran") ELSE dev)
          /\ cs' = Released /\ Finish
       \/ /\ Faults \cap {"slow", "bus"} # {} \/ ~Listening
          /\ dev' \in {dev, IF dev.state = "rcv" THEN Do("busy") ELSE dev}
          /\ UNCHANGED cs /\ Fail
    /\ UNCHANGED <<op, moved, polls, calls, drv, wired, card, store>>

-----------------------------------------------------------------------------

DriverStep ==
    \/ Cmd0 \/ Cmd8 \/ Cmd55 \/ Acmd41 \/ Cmd58 \/ Cmd9 \/ Cmd10 \/ Cmd16
    \/ ReadCommand \/ ReadData \/ Cmd12
    \/ WriteCommand \/ WriteData \/ Busy \/ StopTran
    \/ Cmd6

User == CallInit \/ BlockCall \/ SwapCard \/ \E on \in BOOLEAN : SetVerifyDataCrc(on)

Next == DriverStep \/ User \/ BusyEnds

Spec == Init /\ [][Next]_vars

-----------------------------------------------------------------------------
(* Properties.                                                             *)

IsBlockCall == op.kind \in ReadKinds \cup WriteKinds

\* Driver and card agree: no call has failed since init, blocks are checked and
\* the driver addresses the card the way this card wants it.
InStep == trusted /\ drv.verify /\ drv.highCapacity = card.ccs

\* The block calls implement BlockDevice: while driver and card are in step, a
\* read delivers what is stored, a write stores all of it, in order and nowhere
\* else, and a failed one a prefix.
Abstract == INSTANCE BlockDevice WITH
    call <- [op |-> IF op.kind \in ReadKinds THEN "read" ELSE "write",
             first |-> op.first, count |-> op.count, data |-> op.data],
    moved <- IF IsBlockCall THEN moved ELSE <<>>,
    reply <- IF IsBlockCall THEN result ELSE "none",
    Erased <- Garbage,
    inStep <- InStep
ImplementsBlockDevice == Abstract!Spec

\* A block call that succeeds leaves the card listening for the next command and
\* chip select released: no open stream, no missing stop token.
LeavesCardReady ==
    result = "ok" /\ IsBlockCall /\ trusted =>
        dev.state = "tran" /\ cs = Released

-----------------------------------------------------------------------------
(* What the documents say, and the code does not do.                       *)

\* README.md: "For SDSC cards, block addresses are converted to byte addresses
\* internally", whichever version of the standard the SDSC card follows.
SdscIsByteAddressed ==
    pc \in {"ReadCommand", "WriteCommand"} /\ ~card.ccs =>
        BlockAddrOf(op.first) = op.first * BlockLen

\* spi.rs, read_blocks: "Read multiple blocks starting at `addr`".  Where nothing
\* goes wrong and the card has the blocks, the call succeeds.
ReadBlocksReadsThem ==
    op.kind = "readBlocks" /\ Faults = {} /\ op.first + op.count <= NumBlocks =>
        result # "err"
=============================================================================
