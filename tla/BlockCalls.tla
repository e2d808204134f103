------------------------------- MODULE BlockCalls -------------------------------
(***************************************************************************)
(* What the block calls of SdioSdmmc (src/sdio.rs) and the card have in    *)
(* common over every host controller: the calls, how they go on after a    *)
(* command or a data phase, and what the card does when it obeys a         *)
(* command.  SdhciTransfer and DwMmcTransfer extend this module with the   *)
(* two controllers.                                                        *)
(*                                                                         *)
(* The card is external: modelled from the way the drivers use it.         *)
(***************************************************************************)
EXTENDS Naturals, Sequences

CONSTANTS
    HighCapacity,  \* which cards: a subset of BOOLEAN
    DmaInstalled,  \* whether set_dma was called: a subset of BOOLEAN
    NumBlocks,     \* blocks of a card
    BlockLen,      \* bytes in a block
    Addrs,         \* the block addresses callers use
    Data,          \* what a block may hold
    Erased,        \* what it holds after an erase
    Contents,      \* what a card may store at first
    Payloads,      \* what callers write: sequences of blocks
    MaxCount,      \* blocks in the longest read
    Faults,        \* what may go wrong, see FaultTypes
    MaxCalls       \* bound: calls made, resets and init included

Blocks == 0 .. NumBlocks - 1

\* silent: a command or its answer lost; garbled: the answer garbled after the
\* card has acted; data: a block lost in a CRC or engine error; slow: a wait
\* of the driver expires; stop: AUTO_CMD12 gets no answer; map: no DMA mapping.
FaultTypes == {"silent", "garbled", "data", "slow", "stop", "map"}

ASSUME SetupAssumption == HighCapacity \subseteq BOOLEAN /\ DmaInstalled \subseteq BOOLEAN
ASSUME SizesAssumption == NumBlocks \in Nat \ {0} /\ BlockLen \in Nat \ {0, 1}
ASSUME CallsAssumption == Addrs \subseteq Nat /\ Payloads \subseteq Seq(Data) \ {<<>>}
ASSUME ContentsAssumption == Contents \subseteq [Blocks -> Data] /\ Erased \in Data
ASSUME FaultsAssumption == Faults \subseteq FaultTypes
ASSUME CallBoundsAssumption == MaxCount \in Nat /\ MaxCalls \in Nat

VARIABLES
    pc,       \* what the running call does next; "Idle" outside a call
    op,       \* the call: its kind, first block, number of blocks, data
    result,   \* "none", "running", "ok" or "err": how op stands
    base,     \* read_blocks: the blocks of its earlier turns
    at,       \* blocks moved by the present data phase
    moved,    \* the blocks op has moved; a retry moves some of them again
    calls,    \* calls made
    inStep,   \* controller and card were ready when op began, and it has not
              \* given up a transfer that goes on
    setup,    \* the fields of the host and of SdioSdmmc that do not change here
    host,     \* the data path of the controller
    dev,      \* what the card is doing
    store     \* what it stores

vars == <<pc, op, result, base, at, moved, calls, inStep, setup, host, dev, store>>

ReadKinds == {"readBlock", "readBlocks", "readBlocksInto", "dmaRead"}
WriteKinds == {"writeBlock", "writeBlocks", "dmaWrite"}
DmaKinds == {"dmaRead", "dmaWrite"}
Kinds == ReadKinds \cup WriteKinds \cup {"erase", "status", "switch", "init", "reset"}

Operation == [kind : Kinds, first : Nat, count : Nat, data : Seq(Data)]

\* "status": sending the status of CMD6.  "prg": programming or erasing.
\* block: the one sent or received next.  seq: the addresses of an erase.
CardStates == {"tran", "data", "status", "rcv", "prg"}
Device == [state : CardStates, block : Nat, multi : BOOLEAN, seq : Seq(Nat)]

\* The commands that move data, and the others.
DataIndex == {"read", "write", "switch"}
PlainIndex == {"stop", "status", "eraseStart", "eraseEnd", "erase"}

CallsTypeOK ==
    /\ op \in Operation
    /\ result \in {"none", "running", "ok", "err"}
    /\ base \in Nat /\ at \in Nat
    /\ moved \in Seq(Data \cup {"switched"}) /\ Len(moved) <= op.count
    /\ calls \in Nat
    /\ inStep \in BOOLEAN
    /\ setup \in [highCapacity : BOOLEAN, dma : BOOLEAN]
    /\ dev \in Device
    /\ store \in [Blocks -> Data]

CallsInit ==
    /\ pc = "Idle" /\ result = "none" /\ base = 0 /\ at = 0 /\ moved = <<>>
    /\ calls = 0 /\ inStep = FALSE
    /\ op = [kind |-> "init", first |-> 0, count |-> 0, data |-> <<>>]
    /\ setup \in [highCapacity : HighCapacity, dma : DmaInstalled]
    /\ dev = [state |-> "tran", block |-> 0, multi |-> FALSE, seq |-> <<>>]
    /\ store \in Contents

-----------------------------------------------------------------------------
(* Control.                                                                *)

Goto(next) == pc' = next /\ UNCHANGED <<result, base>>

\* A `?': the error reaches the caller.
Fail == pc' = "Idle" /\ result' = "err" /\ UNCHANGED base

Finish == pc' = "Idle" /\ result' = "ok" /\ UNCHANGED base

\* The blocks of one data command: read_blocks reads one at a time.
Count == IF op.kind = "readBlocks" THEN 1 ELSE op.count

\* block_addr_of: the address that goes on the wire.
BlockAddrOf(addr) == IF setup.highCapacity THEN addr ELSE addr * BlockLen

\* Mutant: read_blocks does not advance.
StartOfCall == op.first

Start == op.first + base

\* What follows a failed DMA attempt: the same command again, or, from the DMA
\* interface of the host, the error.
Retry == IF op.kind \in DmaKinds THEN Fail ELSE Goto("PioIssue")

\* The data phase and its command have succeeded.
\* read_blocks goes on with the next block; the calls of several blocks send
\* CMD12; those of the DMA interface return.
Transferred ==
    CASE op.kind = "readBlocks" /\ base + 1 < op.count ->
             pc' = "Attempt" /\ base' = base + 1 /\ UNCHANGED result
      [] op.kind \in {"readBlocksInto", "writeBlocks"} /\ op.count > 1 -> Goto("Cmd12")
      [] OTHER -> Finish

\* Mutant: a retry goes on behind what the failed attempt has moved.
MovedOn(position, content) == moved' = Append(moved, content)

\* The block at a position of the data phase has been moved, perhaps not for
\* the first time.
Moved(position, content) ==
    LET place == base + position
    IN  moved' = IF place <= Len(moved) THEN [moved EXCEPT ![place] = content]
                                        ELSE Append(moved, content)

-----------------------------------------------------------------------------
(* The card.                                                               *)

Selected(wire) == IF setup.highCapacity THEN wire ELSE wire \div BlockLen

Do(state) == [dev EXCEPT !.state = state, !.seq = <<>>]

Content == IF dev.state = "status" THEN "switched" ELSE store[dev.block]

\* A command on the wire: the block it names and the blocks it will move.
Command(index, addr) ==
    [index |-> index, block |-> Selected(BlockAddrOf(addr)), count |-> Count]

\* The data command of the running call.
TransferCommand ==
    Command(CASE op.kind \in ReadKinds -> "read" [] op.kind \in WriteKinds -> "write"
              [] OTHER -> "switch", Start)

\* A card answers the commands of its state only.
Legal(cmd) ==
    CASE cmd.index = "status" -> TRUE
      [] cmd.index = "stop"   -> dev.state \in {"data", "rcv"}
      [] OTHER                -> dev.state = "tran"

\* CMD32 and CMD33 name the blocks to erase.  The card forgets them at an address
\* it does not have, and at any other command; an end is taken only after a start.
Named(before, block) ==
    [dev EXCEPT !.seq = IF block \in Blocks THEN Append(before, block) ELSE <<>>]

\* The card as it is after a legal command.  An address it does not have is
\* answered, with an error bit, and left at that; so is a CMD38 without a range.
Obeyed(cmd) ==
    LET data(state, multi) == [Do(state) EXCEPT !.multi = multi, !.block = cmd.block]
    IN CASE cmd.index \in {"read", "write"} /\ cmd.block \notin Blocks -> Do("tran")
         [] cmd.index = "read" /\ cmd.block \in Blocks  -> data("data", cmd.count > 1)
         [] cmd.index = "write" /\ cmd.block \in Blocks -> data("rcv", cmd.count > 1)
         [] cmd.index = "switch" -> [Do("status") EXCEPT !.multi = FALSE]
         [] cmd.index = "stop"   -> Do(IF dev.state = "rcv" THEN "prg" ELSE "tran")
         [] cmd.index = "status" -> dev
         [] cmd.index = "eraseStart" -> Named(<<>>, cmd.block)
         [] cmd.index = "eraseEnd" ->
                IF Len(dev.seq) = 1 THEN Named(dev.seq, cmd.block) ELSE Do("tran")
         [] cmd.index = "erase"  -> Do(IF Len(dev.seq) = 2 THEN "prg" ELSE "tran")

\* Its content after a legal command: CMD38 erases what has been named.
StoreAfter(cmd) ==
    IF cmd.index = "erase" /\ Len(dev.seq) = 2
    THEN [b \in Blocks |-> IF b \in dev.seq[1] .. dev.seq[2] THEN Erased ELSE store[b]]
    ELSE store

\* What is left of a block that was lost: a card that sends goes on, one that
\* receives waits for the block to come again.
BlockLost ==
    IF dev.multi THEN IF dev.state = "data" THEN [dev EXCEPT !.block = @ + 1] ELSE dev
                 ELSE Do("tran")

-----------------------------------------------------------------------------
(* The callers.                                                            *)

\* A call begins; nobody is kept from calling after an error.
Call(kind, first, count, data, next) ==
    /\ pc = "Idle" /\ calls < MaxCalls
    /\ calls' = calls + 1
    /\ op' = [kind |-> kind, first |-> first, count |-> count, data |-> data]
    /\ pc' = next /\ result' = "running" /\ moved' = <<>> /\ base' = 0 /\ at' = 0
    /\ UNCHANGED <<setup, host, dev, store>>

CallRead ==
    \E a \in Addrs, n \in 0 .. MaxCount :
       \/ n = 1 /\ Call("readBlock", a, n, <<>>, "Attempt")
       \/ Call("readBlocks", a, n, <<>>, "Attempt")
       \/ n > 0 /\ Call("readBlocksInto", a, n, <<>>, "Attempt")

\* write_blocks of one block is write_block.
CallWrite ==
    \E a \in Addrs, data \in Payloads :
       Call(IF Len(data) = 1 THEN "writeBlock" ELSE "writeBlocks", a, Len(data), data,
            "Attempt")

\* dma_read_blocks_into and dma_write_blocks_from of a host, given an address
\* that the caller has translated.
CallDma ==
    \E a \in Addrs :
       \/ \E n \in 1 .. MaxCount : Call("dmaRead", a, n, <<>>, "Attempt")
       \/ \E data \in Payloads : Call("dmaWrite", a, Len(data), data, "Attempt")

CallErase ==
    \E a, b \in Addrs : a <= b /\ Call("erase", a, b - a + 1, <<>>, "Cmd32")

CallOther ==
    \/ Call("status", 0, 0, <<>>, "Cmd13")
    \/ Call("switch", 0, 1, <<>>, "Attempt")

\* A bring-up of the card, with or without a reset of the controller before it.
BringUpCall(reset) ==
    /\ pc = "Idle" /\ calls < MaxCalls
    /\ calls' = calls + 1
    /\ op' = [kind |-> IF reset THEN "reset" ELSE "init", first |-> 0, count |-> 0,
              data |-> <<>>]
    /\ moved' = <<>> /\ base' = 0 /\ at' = 0 /\ inStep' = FALSE
    /\ UNCHANGED <<pc, setup, store>>
-----------------------------------------------------------------------------
(* What a caller sees of a call.                                           *)

IsBlockCall == op.kind \notin {"status", "switch", "init", "reset"}

\* An error puts caller and card out of step, until the next call begins.
InStep == inStep /\ result # "err"

Abstract == INSTANCE BlockDevice WITH
    call <- [op |-> IF op.kind \in ReadKinds THEN "read"
                    ELSE IF op.kind \in WriteKinds THEN "write" ELSE "erase",
             first |-> op.first, count |-> op.count, data |-> op.data],
    moved <- IF op.kind = "switch" THEN <<>> ELSE moved,
    reply <- IF IsBlockCall THEN result ELSE "none",
    inStep <- InStep
=============================================================================
