---------------------------- MODULE DwMmcTransfer ----------------------------
(***************************************************************************)
(* Block calls over a DesignWare controller: SdioSdmmc (src/sdio.rs) above *)
(* DwMmc (crates/dwmmc-host), one action for every wait of the driver.     *)
(*                                                                         *)
(* A data command is first tried with the internal DMA engine (IDMAC) and, *)
(* whatever went wrong, issued again with the CPU moving the data (PIO).   *)
(* Both go through one FIFO.  A command waits in the controller until the  *)
(* data path is idle (wait_prvdata_complete), and stays there when the     *)
(* driver has given it up.                                                 *)
(*                                                                         *)
(* The data path, the FIFO and the engine are external: modelled from the  *)
(* way the driver uses them and what its comments say of them.             *)
(***************************************************************************)
EXTENDS BlockCalls

CONSTANT FifoDepth   \* in blocks

ASSUME FifoAssumption == FifoDepth \in Nat \ {0}

Fill == Data \cup {"switched"}

CommandType == [index : DataIndex \cup PlainIndex, block : Nat, count : Nat]

\* path: what the data path does.  left: blocks it still has to move.
\* dma: IDMAC is enabled.  over, error: Data Transfer Over and an error bit are
\* set in RINTSTS.  queued: the command whose start_cmd has not cleared.
\* gated: a bring-up has switched the card clock off and failed.
Host == [path : {"idle", "read", "write"}, left : Nat, fifo : Seq(Fill), dma : BOOLEAN,
         over : BOOLEAN, error : BOOLEAN,
         queued : Seq(CommandType), gated : BOOLEAN]

PcSet == {"Idle", "Attempt", "DmaArm", "DmaIssue", "DmaCommand", "DmaWait",
          "PioIssue", "PioCommand", "PioRead", "PioWrite", "Cmd12", "Cmd13",
          "Cmd32", "Cmd33", "Cmd38", "Await12", "Await13", "Await32", "Await33",
          "Await38"}

TypeOK ==
    /\ CallsTypeOK
    /\ pc \in PcSet
    /\ host \in Host
    /\ Len(host.fifo) <= FifoDepth /\ Len(host.queued) <= 1

Quiet == [path |-> "idle", left |-> 0, fifo |-> <<>>, dma |-> FALSE, over |-> FALSE,
          error |-> FALSE, queued |-> <<>>, gated |-> FALSE]

-----------------------------------------------------------------------------
(* The controller and the card.                                            *)

Sends == dev.state = "status" \/ (dev.state = "data" /\ dev.block \in Blocks)
Takes == dev.state = "rcv" /\ dev.block \in Blocks

Room == Len(host.fifo) < FifoDepth
Filled == host.fifo # <<>>

CanReceive == host.path = "read" /\ host.left > 0 /\ Sends /\ Room
CanTransmit == host.path = "write" /\ host.left > 0 /\ Takes /\ Filled

\* The card does not take its part; the controller notices.
CanFail ==
    /\ host.left > 0
    /\ \/ host.path = "read" /\ ~Sends
       \/ host.path = "write" /\ ~Takes /\ Filled

\* The path ends when IDMAC has moved what it received, and after a write when the
\* card is no longer busy.
CanEnd ==
    /\ host.left = 0
    /\ \/ host.path = "read" /\ (host.dma => ~Filled \/ at = Count)
       \/ host.path = "write" /\ dev.state # "prg"

CanFetch == host.dma /\ host.path = "write" /\ at < Count /\ Room
CanStore == host.dma /\ host.path = "read" /\ at < Count /\ Filled

CanGoOut == host.queued # <<>> /\ host.path = "idle" /\ ~host.gated

\* Nothing more will happen by itself.
Stuck ==
    /\ ~CanReceive /\ ~CanTransmit /\ ~CanFail /\ ~CanEnd
    /\ ~CanFetch /\ ~CanStore /\ ~CanGoOut /\ dev.state # "prg"

Expires == Stuck \/ "slow" \in Faults

HardwareOnly == UNCHANGED <<pc, op, result, base, calls, inStep, setup>>

\* A block from the card into the FIFO.
Receive ==
    /\ CanReceive
    /\ host' = [host EXCEPT !.fifo = Append(@, Content), !.left = @ - 1]
    /\ dev' = IF dev.multi THEN [dev EXCEPT !.block = @ + 1] ELSE Do("tran")
    /\ UNCHANGED <<at, moved, store>>
    /\ HardwareOnly

\* A block from the FIFO to the card: while the call is in step, the next of its
\* own.  A word that is no block is written as some block.
Transmit ==
    /\ CanTransmit
    /\ host' = [host EXCEPT !.fifo = Tail(@), !.left = @ - 1]
    /\ dev' = IF dev.multi THEN [dev EXCEPT !.block = @ + 1] ELSE Do("prg")
    /\ \E d \in Data :
          /\ Head(host.fifo) \in Data => d = Head(host.fifo)
          /\ store' = [store EXCEPT ![dev.block] = d]
          /\ IF inStep /\ result = "running" /\ op.kind \in WriteKinds
             THEN Moved(Count - host.left + 1, d) ELSE UNCHANGED moved
    /\ UNCHANGED at
    /\ HardwareOnly

Ended == [host EXCEPT !.path = "idle", !.left = 0, !.over = TRUE]

PathEnds ==
    /\ CanEnd
    /\ host' = Ended
    /\ UNCHANGED <<at, moved, dev, store>>
    /\ HardwareOnly

\* A block is lost, or the card does not take its part.  The path ends, or one that
\* reads goes on; what was received of the block may be in the FIFO, what was to be
\* sent of it may be gone from there.
PathFails ==
    /\ CanFail \/ ((CanReceive \/ CanTransmit) /\ "data" \in Faults)
    /\ dev' = IF CanFail THEN dev ELSE BlockLost
    /\ \E fifo \in {host.fifo}
                   \cup (IF CanReceive THEN {Append(host.fifo, d) : d \in Data} ELSE {})
                   \cup (IF CanTransmit THEN {Tail(host.fifo)} ELSE {}) :
          \/ host' = [Ended EXCEPT !.error = TRUE, !.fifo = fifo]
          \/ /\ host.path = "read"
             /\ host' = [host EXCEPT !.error = TRUE, !.fifo = fifo, !.left = @ - 1]
    /\ UNCHANGED <<at, moved, store>>
    /\ HardwareOnly

\* IDMAC moves a block between the FIFO and the memory of the call.  What comes
\* after an error does not count: the attempt has failed.
EngineMoves ==
    /\ \/ CanFetch /\ \E d \in Data :
             /\ op.kind \in WriteKinds => d = op.data[at + 1]
             /\ host' = [host EXCEPT !.fifo = Append(@, d)]
             /\ UNCHANGED moved
       \/ CanStore /\ host' = [host EXCEPT !.fifo = Tail(@)]
          /\ IF op.kind \in ReadKinds /\ ~host.error THEN Moved(at + 1, Head(host.fifo))
                                      ELSE UNCHANGED moved
    /\ at' = at + 1
    /\ UNCHANGED <<dev, store>>
    /\ HardwareOnly

\* The command that waits goes out as soon as the path is idle.  A card that does
\* not answer sets an error bit; after a garbled answer the path may run or not.
GoesOut ==
    /\ CanGoOut
    /\ LET cmd == host.queued[1]
           sent == [host EXCEPT !.queued = <<>>]
           failed == [sent EXCEPT !.error = TRUE]
           run(h) == IF cmd.index \in DataIndex
                     THEN [h EXCEPT !.left = cmd.count,
                                    !.path = IF cmd.index = "write" THEN "write" ELSE "read"]
                     ELSE h
       IN  \/ /\ Legal(cmd) /\ dev' = Obeyed(cmd) /\ store' = StoreAfter(cmd)
              /\ \/ host' = run(sent)
                 \/ "garbled" \in Faults /\ host' \in {failed, run(failed)}
           \/ /\ ~Legal(cmd) \/ "silent" \in Faults
              /\ host' = failed /\ UNCHANGED <<dev, store>>
    /\ UNCHANGED <<at, moved>>
    /\ HardwareOnly

\* The busy period ends, and with it a write path that only waited for that.
BusyEnds ==
    /\ dev.state = "prg"
    /\ dev' = [dev EXCEPT !.state = "tran"]
    /\ host' = IF host.path = "write" /\ host.left = 0 THEN Ended ELSE host
    /\ UNCHANGED <<at, moved, store>>
    /\ HardwareOnly

\* A card sends its one block although nobody takes it any more.
Unheard ==
    /\ dev.state = "status" \/ (dev.state = "data" /\ ~dev.multi)
    /\ host.path # "read"
    /\ dev' = Do("tran")
    /\ UNCHANGED <<at, moved, host, store>>
    /\ HardwareOnly

-----------------------------------------------------------------------------
(* issue_command.                                                          *)

Cleared == [host EXCEPT !.over = FALSE, !.error = FALSE]

\* wait_inhibit, which waits for a busy card only before data, and the write of CMD.
Issue(cmd, next, Err) ==
    LET free == host.queued = <<>> /\ (cmd.index \in DataIndex => dev.state # "prg")
    IN  \/ free /\ host' = [Cleared EXCEPT !.queued = <<cmd>>] /\ Goto(next)
        \/ ~free /\ Expires /\ host' = host /\ Err

\* Mutant: polls for the end of the command without a limit.
AwaitForever(Ok, Err) ==
    \/ host.queued = <<>> /\ ~host.error /\ Ok
    \/ host.error /\ Err
    \/ host.queued # <<>> /\ ~host.error /\ UNCHANGED <<pc, result, base, host>>

\* wait_command_done: a million polls, in which a command that can go out does.  One
\* that is given up still waits in the controller.
Await(Ok, Err) ==
    \/ host.queued = <<>> /\ ~host.error /\ Ok
    \/ (host.error \/ (host.queued # <<>> /\ ~CanGoOut /\ Expires)) /\ Err

\* Mutant: the words of the failed attempt stay in the FIFO.
RecoveredStale ==
    LET reset == [Cleared EXCEPT !.dma = FALSE]
    IN  IF host.path = "read" THEN [reset EXCEPT !.path = "idle", !.left = 0] ELSE reset

\* reset_fifo, and what disable_idmac and recover_after_idmac_error leave: the
\* abort ends a path that reads, not one that writes.
FifoReset == [host EXCEPT !.fifo = <<>>]
Recovered ==
    LET reset == [Cleared EXCEPT !.fifo = <<>>, !.dma = FALSE]
    IN  IF host.path = "read" THEN [reset EXCEPT !.path = "idle", !.left = 0] ELSE reset

Local == UNCHANGED <<op, calls, inStep, setup>>
CardAlone == UNCHANGED <<dev, store>>

-----------------------------------------------------------------------------
(* read_data and write_data.                                               *)

\* try_idmac_*: IDMAC is for whole blocks, where there is a mapping for them.
\* read_blocks of nothing succeeds at once.
Attempt ==
    /\ pc = "Attempt"
    /\ LET usable == (setup.dma \/ op.kind \in DmaKinds) /\ op.kind # "switch"
       IN  \/ op.count = 0 /\ Finish
           \/ op.count > 0 /\ usable /\ Goto("DmaArm")
           \/ op.count > 0 /\ (~usable \/ "map" \in Faults) /\ Retry
    /\ UNCHANGED <<at, moved, host>> /\ CardAlone /\ Local

\* reset_dma_for_phase, then the descriptors are handed over.
DmaArm ==
    /\ pc = "DmaArm"
    /\ at' = 0
    /\ \/ host' = [Cleared EXCEPT !.dma = TRUE] /\ Goto("DmaIssue")
       \/ "slow" \in Faults /\ host' = Cleared /\ Retry
    /\ UNCHANGED moved /\ CardAlone /\ Local

GiveUp == host' = Recovered /\ Retry

DmaIssue ==
    /\ pc = "DmaIssue"
    /\ LET free == host.queued = <<>> /\ dev.state # "prg"
       IN  \/ free /\ host' = [Cleared EXCEPT !.queued = <<TransferCommand>>]
              /\ Goto("DmaCommand")
           \/ ~free /\ Expires /\ GiveUp
    /\ UNCHANGED <<at, moved>> /\ CardAlone /\ Local

DmaCommand ==
    /\ pc = "DmaCommand"
    /\ Await(host' = host /\ Goto("DmaWait"), GiveUp)
    /\ UNCHANGED <<at, moved>> /\ CardAlone /\ Local

\* The DMA interface of the host sends CMD12 itself.
DmaDone ==
    IF op.kind \in DmaKinds /\ op.count > 1 THEN Goto("Cmd12") ELSE Transferred

\* wait_dma_complete.
DmaWait ==
    /\ pc = "DmaWait"
    /\ \/ ~host.error /\ host.over
          /\ host' = [Cleared EXCEPT !.dma = FALSE] /\ DmaDone
       \/ (host.error \/ (~host.over /\ Expires)) /\ GiveUp
    /\ UNCHANGED <<at, moved>> /\ CardAlone /\ Local

PioIssue ==
    /\ pc = "PioIssue"
    /\ at' = 0
    /\ Issue(TransferCommand, "PioCommand", Fail)
    /\ UNCHANGED moved /\ CardAlone /\ Local

PioCommand ==
    /\ pc = "PioCommand"
    /\ Await(Goto(IF op.kind \in WriteKinds THEN "PioWrite" ELSE "PioRead"), Fail)
    /\ UNCHANGED <<at, moved, host>> /\ CardAlone /\ Local

\* pio_read: takes what the FIFO holds, keeps as much as was asked for, and is done
\* when the path is over.  Only an error bit resets the FIFO.
PioRead ==
    /\ pc = "PioRead"
    /\ \/ host.error /\ host' = FifoReset /\ Fail /\ UNCHANGED <<at, moved>>
       \/ /\ ~host.error /\ Filled /\ host' = [host EXCEPT !.fifo = Tail(@)]
          /\ IF at < Count THEN Moved(at + 1, Head(host.fifo)) /\ at' = at + 1
                           ELSE UNCHANGED <<at, moved>>
          /\ Goto("PioRead")
       \/ /\ ~host.error /\ ~Filled /\ at = Count /\ host.over
          /\ host' = [host EXCEPT !.over = FALSE]
          /\ Transferred /\ UNCHANGED <<at, moved>>
       \/ /\ ~host.error /\ ~Filled /\ (at < Count \/ ~host.over) /\ Expires
          /\ Fail /\ UNCHANGED <<at, moved, host>>
    /\ CardAlone /\ Local

\* Mutant: a write is done when the FIFO is empty.
PioWriteEarly ==
    /\ pc = "PioWrite"
    /\ \/ host.error /\ host' = (IF at < Count THEN FifoReset ELSE host) /\ Fail
          /\ UNCHANGED at
       \/ /\ ~host.error /\ at < Count /\ Room
          /\ host' = [host EXCEPT !.fifo = Append(@, op.data[at + 1])]
          /\ at' = at + 1 /\ Goto("PioWrite")
       \/ ~host.error /\ at = Count /\ ~Filled /\ Transferred /\ UNCHANGED <<at, host>>
    /\ UNCHANGED moved /\ CardAlone /\ Local

\* pio_write: an error bit resets the FIFO while there are words to push; the wait
\* for the end of the path resets nothing.
PioWrite ==
    /\ pc = "PioWrite"
    /\ \/ host.error /\ host' = (IF at < Count THEN FifoReset ELSE host) /\ Fail
          /\ UNCHANGED at
       \/ /\ ~host.error /\ at < Count /\ Room
          /\ host' = [host EXCEPT !.fifo = Append(@, op.data[at + 1])]
          /\ at' = at + 1 /\ Goto("PioWrite")
       \/ /\ ~host.error /\ at = Count /\ host.over
          /\ host' = [host EXCEPT !.over = FALSE]
          /\ Transferred /\ UNCHANGED at
       \/ /\ ~host.error /\ (IF at < Count THEN ~Room ELSE ~host.over) /\ Expires
          /\ Fail /\ UNCHANGED <<at, host>>
    /\ UNCHANGED moved /\ CardAlone /\ Local

-----------------------------------------------------------------------------
(* SdioSdmmc.                                                              *)

Init == CallsInit /\ host = Quiet

\* A call can begin; data will wait for a card that is busy.
Ready ==
    /\ host.path = "idle" /\ host.fifo = <<>> /\ host.queued = <<>> /\ ~host.gated
    /\ dev.state \in {"tran", "prg"}

\* A bring-up, with or without reset_and_init before it.  Without it the update of
\* the clock queues behind a path that is not idle or a command that waits: the
\* card clock is off in the end, and the bring-up fails.  With it, or where the
\* controller is free, CMD0 takes the card out of whatever it was doing (SdioInit);
\* the first data phase may take away what is left in the FIFO.
BringUp(reset) ==
    /\ BringUpCall(reset)
    /\ ~CanGoOut
    /\ IF reset \/ (host.path = "idle" /\ (host.queued = <<>> \/ host.gated))
       THEN /\ result' = "ok" /\ dev' = Do("tran")
            /\ host' \in IF reset THEN {Quiet}
                         ELSE {Quiet, [Quiet EXCEPT !.fifo = host.fifo]}
       ELSE result' = "err" /\ host' = [host EXCEPT !.gated = TRUE] /\ UNCHANGED dev

\* handle_irq acknowledges whatever is pending.
HandleIrq ==
    /\ pc = "Idle" /\ host' = Cleared
    /\ UNCHANGED <<pc, result, base, at, moved>> /\ CardAlone /\ Local

\* The commands without data.  The DMA interface does not look at how its CMD12
\* went.
PlainCommand(first, cmd, second) ==
    pc = first /\ Issue(cmd, second, IF op.kind \in DmaKinds THEN Finish ELSE Fail)

PlainAnswer(second, Ok) ==
    /\ pc = second
    /\ Await(Ok, IF op.kind \in DmaKinds THEN Finish ELSE Fail)
    /\ UNCHANGED host

PlainStep ==
    /\ \/ PlainCommand("Cmd12", Command("stop", 0), "Await12")
       \/ PlainAnswer("Await12", Finish)
       \/ PlainCommand("Cmd13", Command("status", 0), "Await13")
       \/ PlainAnswer("Await13", Finish)
       \/ PlainCommand("Cmd32", Command("eraseStart", op.first), "Await32")
       \/ PlainAnswer("Await32", Goto("Cmd33"))
       \/ PlainCommand("Cmd33", Command("eraseEnd", op.first + op.count - 1), "Await33")
       \/ PlainAnswer("Await33", Goto("Cmd38"))
       \/ PlainCommand("Cmd38", Command("erase", 0), "Await38")
       \/ PlainAnswer("Await38", Finish)
    /\ UNCHANGED <<at, moved>> /\ CardAlone /\ Local

-----------------------------------------------------------------------------

DriverStep ==
    \/ Attempt \/ DmaArm \/ DmaIssue \/ DmaCommand \/ DmaWait
    \/ PioIssue \/ PioCommand \/ PioRead \/ PioWrite \/ PlainStep

User ==
    \/ /\ CallRead \/ CallWrite \/ CallDma \/ CallErase \/ CallOther
       /\ inStep' = Ready
    \/ \E reset \in BOOLEAN : BringUp(reset)
    \/ HandleIrq

Hardware ==
    \/ Receive \/ Transmit \/ PathEnds \/ PathFails \/ EngineMoves
    \/ GoesOut \/ BusyEnds \/ Unheard

Next == DriverStep \/ User \/ Hardware

\* The driver polls until it is done, and what the hardware can do it does.
Spec == Init /\ [][Next]_vars /\ WF_vars(DriverStep) /\ WF_vars(Hardware)

-----------------------------------------------------------------------------
(* Properties.                                                             *)

\* After a block call of SdioSdmmc that began on a ready controller and succeeded,
\* whatever attempts failed on the way, the next one can begin: the path is idle,
\* no command and no word of it is left in the controller, and the card waits for
\* a command or will when it has finished writing.
LeavesCardReady ==
    /\ result = "ok" /\ inStep /\ op.count > 0
    /\ op.kind \in (ReadKinds \cup WriteKinds) \ DmaKinds
    => Ready /\ ~host.dma

\* The block calls implement BlockDevice: one that begins on a ready controller and
\* succeeds has moved all of its blocks between its buffer and the range it names,
\* in order, and one that fails a prefix of them.
ImplementsBlockDevice == Abstract!Spec

\* Every call returns, also when the controller is stuck behind a path that has no
\* data or a command that never goes out.
CallReturns == (pc # "Idle") ~> (pc = "Idle")

-----------------------------------------------------------------------------
(* What a comment says, and the code does not do.                          *)

\* data.rs: errors raised through RINTSTS are translated and the FIFO is reset
\* before propagating so the next transfer starts clean.
ErrorResetsFifo ==
    [][host.error /\ pc \in {"PioRead", "PioWrite"} /\ result' = "err" =>
          host'.fifo = <<>>]_vars
=============================================================================
