---------------------------- MODULE SdhciTransfer ----------------------------
(***************************************************************************)
(* Block calls over an SDHCI controller: SdioSdmmc (src/sdio.rs) above     *)
(* Sdhci (crates/sdhci-host), one action for every wait of the driver.     *)
(*                                                                         *)
(* A data command is first tried with ADMA2 and, whatever went wrong,      *)
(* issued again with the CPU moving the data (PIO).  The PIO waits reset   *)
(* the command and data lines when they fail; the ADMA2 wait does not, so  *)
(* a transfer that was given up may go on behind the driver's back.        *)
(*                                                                         *)
(* The engine of the controller that moves blocks while the driver polls   *)
(* is external: modelled from the way the driver uses it.  Bus width, clock*)
(* and voltage are those SdioInit has set.                                 *)
(***************************************************************************)
EXTENDS BlockCalls

CONSTANTS
    CountLimit,    \* the 16-bit BLOCK_COUNT register wraps here
    DescLimit      \* blocks the ADMA2 descriptors can describe

ASSUME LimitsAssumption ==
    CountLimit \in Nat \ {0, 1} /\ DescLimit \in 0 .. CountLimit - 1

\* dat: what occupies the data lines.  left: what BLOCK_COUNT still asks for.
\* dma: the engine moves the blocks.  complete: Transfer Complete is pending.
Host == [dat : {"idle", "read", "write", "busy"}, left : 0 .. CountLimit - 1,
         dma : BOOLEAN, complete : BOOLEAN]

PcSet == {"Idle", "Attempt", "DmaIssue", "DmaWait", "PioIssue", "PioBlock",
          "PioWait", "Cmd12", "Cmd13", "Cmd32", "Cmd33", "Cmd38"}

TypeOK == CallsTypeOK /\ pc \in PcSet /\ host \in Host

-----------------------------------------------------------------------------
(* The blocks that pass between the controller and the card.               *)

Quiet == [dat |-> "idle", left |-> 0, dma |-> FALSE, complete |-> FALSE]

\* There is a block to read, or room for one.
CanRead ==
    /\ host.dat = "read" /\ host.left > 0
    /\ dev.state = "status" \/ (dev.state = "data" /\ dev.block \in Blocks)
CanWrite ==
    /\ host.dat = "write" /\ host.left > 0
    /\ dev.state = "rcv" /\ dev.block \in Blocks

CanEnd == dev.state = "prg" /\ host.left = 0 /\ host.dat \in {"write", "busy"}

\* Nothing more will happen on the data lines.
Stuck == host.dat # "idle" /\ ~CanRead /\ ~CanWrite /\ ~CanEnd

\* A block has passed.  After the last one the controller sends CMD12 by itself
\* where there were several; a card that does not hear it stays where it is.
BlockPasses ==
    LET last == host.left = 1
        more == [dev EXCEPT !.block = @ + 1]
        done == Do(IF host.dat = "read" THEN "tran" ELSE "prg")
    IN  \/ /\ last /\ dev' = done
           /\ host' = IF host.dat = "write" THEN [host EXCEPT !.left = 0]
                      ELSE [Quiet EXCEPT !.complete = TRUE]
        \/ /\ last /\ dev.multi /\ "stop" \in Faults /\ dev' = more
           /\ host' = [host EXCEPT !.left = 0]
        \/ ~last /\ dev' = more /\ host' = [host EXCEPT !.left = @ - 1]

\* A block into the caller's buffer, or out of it.
TakeBlock == Moved(at + 1, Content) /\ at' = at + 1 /\ UNCHANGED store
GiveBlock ==
    /\ Moved(at + 1, op.data[at + 1]) /\ at' = at + 1
    /\ store' = [store EXCEPT ![dev.block] = op.data[at + 1]]

\* The controller's engine moves a block between card and memory.  While the
\* driver waits for it the memory is the caller's; later it may be anything.
EngineMoves ==
    /\ host.dma
    /\ \/ CanRead /\ pc = "DmaWait" /\ TakeBlock
       \/ CanRead /\ pc # "DmaWait" /\ UNCHANGED <<moved, at, store>>
       \/ CanWrite /\ pc = "DmaWait" /\ GiveBlock
       \/ /\ CanWrite /\ pc # "DmaWait"
          /\ \E d \in Data : store' = [store EXCEPT ![dev.block] = d]
          /\ UNCHANGED <<moved, at>>
    /\ BlockPasses
    /\ UNCHANGED <<pc, op, result, base, calls, inStep, setup>>

\* The card ends its busy period; a controller that waited for it notices.
BusyEnds ==
    /\ dev.state = "prg"
    /\ dev' = [dev EXCEPT !.state = "tran"]
    /\ host' = IF CanEnd THEN [Quiet EXCEPT !.complete = TRUE] ELSE host
    /\ UNCHANGED <<pc, op, result, base, at, moved, calls, inStep, setup, store>>

\* A card sends its one block although nobody takes it any more.
Unheard ==
    /\ dev.state = "status" \/ (dev.state = "data" /\ ~dev.multi)
    /\ host.dat # "read"
    /\ dev' = Do("tran")
    /\ UNCHANGED <<pc, op, result, base, at, moved, calls, inStep, setup, host, store>>

-----------------------------------------------------------------------------
(* issue_command.                                                          *)

\* A command without data: only the command line has to be free, and a failure
\* resets only the command line.  An answer with an error bit is an answer.
Send(cmd, Ok) ==
    LET heard == [host EXCEPT !.complete = FALSE]
        after == CASE cmd.index \in {"stop", "erase"} /\ Obeyed(cmd).state = "prg" ->
                          [Quiet EXCEPT !.dat = "busy"]
                   [] cmd.index = "stop" /\ Obeyed(cmd).state # "prg" -> Quiet
                   [] OTHER -> heard
    IN  \/ /\ Legal(cmd) /\ dev' = Obeyed(cmd) /\ store' = StoreAfter(cmd)
           /\ host' = after /\ Ok
        \/ /\ ~Legal(cmd) \/ "silent" \in Faults
           /\ UNCHANGED <<dev, store>> /\ host' = heard /\ Fail
        \/ /\ Legal(cmd) /\ "garbled" \in Faults
           /\ dev' = Obeyed(cmd) /\ store' = StoreAfter(cmd) /\ host' = heard /\ Fail

\* configure_data_phase: what the controller is told.
Programmed(dma) ==
    [dat |-> IF op.kind \in WriteKinds THEN "write" ELSE "read",
     left |-> Count % CountLimit, dma |-> dma, complete |-> FALSE]

\* A command with data: the data lines have to be free as well, and a failure
\* of the command resets both.
DataCommand(dma, Ok, Err) ==
    \/ /\ host.dat # "idle" /\ (Stuck \/ "slow" \in Faults)
       /\ UNCHANGED <<dev, host, at>> /\ Err
    \/ /\ host.dat = "idle" /\ at' = 0
       /\ LET legal == Legal(TransferCommand)
              obeyed == Obeyed(TransferCommand)
          IN  \/ legal /\ dev' = obeyed /\ host' = Programmed(dma) /\ Ok
              \/ /\ ~legal \/ "silent" \in Faults
                 /\ dev' = dev /\ host' = Quiet /\ Err
              \/ legal /\ "garbled" \in Faults /\ dev' = obeyed /\ host' = Quiet /\ Err

-----------------------------------------------------------------------------
(* read_data and write_data.                                               *)

\* try_adma2_*: ADMA2 is for whole blocks, where there is a mapping for them and
\* the descriptors suffice.  read_blocks of nothing succeeds at once.
Attempt ==
    /\ pc = "Attempt"
    /\ LET usable == /\ setup.dma \/ op.kind \in DmaKinds
                     /\ op.kind # "switch" /\ Count <= DescLimit
       IN  \/ op.count = 0 /\ Finish
           \/ op.count > 0 /\ usable /\ Goto("DmaIssue")
           \/ op.count > 0 /\ (~usable \/ "map" \in Faults) /\ Retry
    /\ UNCHANGED <<op, at, moved, calls, inStep, setup, host, dev, store>>

DmaIssue ==
    /\ pc = "DmaIssue"
    /\ DataCommand(TRUE, Goto("DmaWait"), Retry)
    /\ UNCHANGED <<op, moved, calls, inStep, setup, store>>

\* Mutant: a wait that has expired counts as complete.
DmaWaitExpires ==
    /\ pc = "DmaWait"
    /\ host.complete \/ "slow" \in Faults \/ Stuck
    /\ host' = [host EXCEPT !.complete = FALSE] /\ Transferred
    /\ UNCHANGED <<op, at, moved, calls, inStep, setup, dev, store>>

\* wait_data_complete_with_adma: nothing is reset when it fails.
DmaWait ==
    /\ pc = "DmaWait"
    /\ \/ /\ host.complete /\ Transferred
          /\ host' = [host EXCEPT !.complete = FALSE]
          /\ UNCHANGED <<inStep, dev>>
       \/ /\ ~host.complete /\ ("slow" \in Faults \/ Stuck)
          /\ Retry /\ inStep' = (inStep /\ Stuck)
          /\ UNCHANGED <<host, dev>>
       \/ /\ (CanRead \/ CanWrite) /\ "data" \in Faults
          /\ dev' = BlockLost /\ host' \in {Quiet, [host EXCEPT !.left = 0]}
          /\ Retry /\ UNCHANGED inStep
    /\ UNCHANGED <<op, at, moved, calls, setup, store>>

PioIssue ==
    /\ pc = "PioIssue"
    /\ DataCommand(FALSE, Goto("PioBlock"), Fail)
    /\ UNCHANGED <<op, moved, calls, inStep, setup, store>>

\* wait_buffer_ready and the block that is then copied.
PioBlock ==
    /\ pc = "PioBlock"
    /\ \/ /\ (CanRead /\ TakeBlock) \/ (CanWrite /\ GiveBlock)
          /\ BlockPasses
          /\ Goto(IF at' = Count THEN "PioWait" ELSE "PioBlock")
       \/ /\ (CanRead \/ CanWrite) /\ "data" \in Faults
          /\ dev' = BlockLost /\ host' = Quiet
          /\ UNCHANGED <<at, moved, store>> /\ Fail
       \/ /\ ~(CanRead \/ CanWrite) \/ "slow" \in Faults
          /\ host' = Quiet /\ UNCHANGED <<at, moved, dev, store>> /\ Fail
    /\ UNCHANGED <<op, calls, inStep, setup>>

\* wait_data_complete.
PioWait ==
    /\ pc = "PioWait"
    /\ \/ /\ host.complete /\ Transferred
          /\ host' = [host EXCEPT !.complete = FALSE]
       \/ /\ ~host.complete /\ ("slow" \in Faults \/ Stuck)
          /\ host' = Quiet /\ Fail
    /\ UNCHANGED <<op, at, moved, calls, inStep, setup, dev, store>>

-----------------------------------------------------------------------------
(* SdioSdmmc.                                                              *)

Init == CallsInit /\ host = Quiet

\* A call can begin.
Ready == host.dat = "idle" /\ dev.state = "tran"

\* A bring-up, with or without reset_all before it.  CMD0 takes the card out of
\* whatever it was doing, and what follows into the transfer state (SdioInit);
\* only reset_all frees the data lines of the controller.
BringUp(reset) ==
    /\ BringUpCall(reset)
    /\ result' = "ok" /\ dev' = Do("tran")
    /\ host' = IF reset \/ CanEnd THEN Quiet ELSE [host EXCEPT !.complete = FALSE]

\* handle_irq acknowledges whatever is pending.
HandleIrq ==
    /\ pc = "Idle"
    /\ host' = [host EXCEPT !.complete = FALSE]
    /\ UNCHANGED <<pc, op, result, base, at, moved, calls, inStep, setup, dev, store>>

-----------------------------------------------------------------------------
(* The commands without data.                                              *)

Plain == UNCHANGED <<op, at, moved, calls, inStep, setup>>

Cmd12 == pc = "Cmd12" /\ Send(Command("stop", 0), Finish) /\ Plain
Cmd13 == pc = "Cmd13" /\ Send(Command("status", 0), Finish) /\ Plain

\* Mutant: the range ends one block late.
Cmd33OneLate ==
    pc = "Cmd33" /\ Send(Command("eraseEnd", op.first + op.count), Goto("Cmd38")) /\ Plain

Cmd32 == pc = "Cmd32" /\ Send(Command("eraseStart", op.first), Goto("Cmd33")) /\ Plain
Cmd33 ==
    /\ pc = "Cmd33"
    /\ Send(Command("eraseEnd", op.first + op.count - 1), Goto("Cmd38"))
    /\ Plain

\* The call returns while the card is erasing.
Cmd38 == pc = "Cmd38" /\ Send(Command("erase", 0), Finish) /\ Plain

-----------------------------------------------------------------------------

DriverStep ==
    \/ Attempt \/ DmaIssue \/ DmaWait \/ PioIssue \/ PioBlock \/ PioWait
    \/ Cmd12 \/ Cmd13 \/ Cmd32 \/ Cmd33 \/ Cmd38

User ==
    \/ (CallRead \/ CallWrite \/ CallDma \/ CallErase \/ CallOther) /\ inStep' = Ready
    \/ \E reset \in BOOLEAN : BringUp(reset)
    \/ HandleIrq

Hardware == EngineMoves \/ BusyEnds \/ Unheard

Next == DriverStep \/ User \/ Hardware

Spec == Init /\ [][Next]_vars

-----------------------------------------------------------------------------
(* Properties.                                                             *)

\* A read that returns success has delivered what the card stores in its range,
\* and a write has stored all of its data there, whatever attempts failed and
\* were repeated on the way and whatever state earlier calls left behind.
OkIsTrue ==
    [][result = "running" /\ result' = "ok" /\ op.kind \in ReadKinds \cup WriteKinds =>
          /\ Len(moved) = op.count
          /\ \A i \in 1 .. op.count : moved[i] = store[op.first + i - 1]
          /\ op.kind \in WriteKinds => moved = op.data]_vars

\* After a block call that succeeded the card waits for a command and the data
\* lines are free: the next call can begin.
LeavesCardReady ==
    result = "ok" /\ op.kind \in ReadKinds \cup WriteKinds /\ op.count > 0 =>
        dev.state = "tran" /\ host.dat = "idle"

\* The block calls implement BlockDevice.  They begin in step where controller
\* and card are ready, and stay in step unless an ADMA2 transfer is given up
\* that then goes on by itself.
ImplementsBlockDevice == Abstract!Spec

-----------------------------------------------------------------------------
(* What the documents say, and the code does not do.                       *)

\* docs/sdhci-usage.md: several blocks are transferred by the protocol layer and
\* AutoCMD12.  Where nothing goes wrong and the card has the blocks, a call of
\* several blocks succeeds.
MultiBlockCallsSucceed ==
    /\ op.kind \in {"readBlocksInto", "writeBlocks"} /\ inStep /\ Faults = {}
    /\ op.first + op.count <= NumBlocks /\ op.count < CountLimit
    => result # "err"
=============================================================================
