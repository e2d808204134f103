# A TLA+ verification of sdmmc-protocol

This directory keeps the TLA+ specifications of the `sdmmc-protocol` crate and
of the two host-controller crates beside it. Modules are checked with TLC on
small instances, and the results that matter most are proved with TLAPS for
every instance.

## 1. The system

The code is a set of `no_std` libraries without threads, interrupt handlers of
their own or dynamic memory. A driver runs in the caller's thread and makes
blocking calls on a trait. What makes it hard is not concurrency inside the
driver but that *three parties keep state about the same thing*, driver, host
controller and card, that no call changes all three at once, and that every
call can fail before or after the other side has acted on it.

| Component | State | Operations | Talks to |
|---|---|---|---|
| SDIO protocol driver, `src/sdio.rs` | RCA, addressing mode, bus width, kind of card | `init`; block reads, writes, erase, `status`, `switch_to_high_speed` | a `SdioHost` (calls), the card through it |
| SPI protocol driver, `src/spi.rs` | SD version, addressing mode, CRC option | `init`, block reads and writes, `switch_to_high_speed` | an `SpiTransport` (bytes and chip select), the card through it |
| SDHCI host, `crates/sdhci-host` | registers, pending data phase, DMA option, clock callback | the `SdioHost` trait, DMA entry points, `handle_irq` | the registers; the caller's interrupt handler |
| DesignWare host, `crates/dwmmc-host` | registers, FIFO, pending data phase, IDMAC descriptors | the `SdioHost` trait, DMA entry points, `handle_irq` | the registers; the caller's interrupt handler |
| Codecs, `cmd.rs`, `response.rs`, `ext_csd.rs`, `common.rs` | none | argument and packet encoding, CRC-7, CRC-16, CSD and EXT_CSD decoding, block addresses | pure functions |
| Errors, `error.rs`; register maps, `regs.rs` | none | enumerations, bit fields | |
| `examples/`, `scripts/`, `docs/`, `qemu/` | | smoke programs, an older copy of the crate, documentation | |

What makes each of them correct:

* **SDIO bring-up.** What `init` publishes (address, width, speed, addressing
  mode) is what card and host are really set to, whichever step failed on the
  way; the host clock never runs ahead of the card's timing; `init` returns, and
  from a known point on it cannot fail.
* **Block transfer** (SDIO and SPI). A read delivers what the card stores, a
  write that succeeds has stored everything, in order and nowhere else; a call
  that fails has moved a prefix; after a success the card is ready for the next
  command; after a failure a new `init` restores all this.
* **SDHCI host.** A data phase is prepared and consumed once; the PIO fallback
  of a failed ADMA2 attempt repeats the command, and what the call then reports
  is true of the card and of the buffer all the same; the clock
  that is gated for a voltage or frequency change is running again when the call
  returns; nobody stops a transfer twice.
* **DesignWare host.** Words of one transfer are never delivered as those of
  another although all of them go through one FIFO, and a command that the driver
  has given up is still in the controller; a call that succeeds leaves path, FIFO
  and card free; every call returns.
* **Bus settings** (both hosts). The card's clock is never faster than the speed
  it was asked for, its frequency changes only while it is stopped, and after a
  `set_clock` that succeeded it runs, with the timing of that speed, whatever
  calls have failed before or since; `init` returns, whatever is never answered.
* **Codecs.** What the driver asks is what the card hears, and what the card says
  is what the driver learns, over each of the three transports, or one of the
  two checksums shows that it is not; sizes and addresses agree at the limits of
  their widths.

The hazards behind these properties are listed with their lines in
`PROJECT.json` under `hazards`.

## 2. Modules

| Module | What it is |
|---|---|
| `BringUp` | abstract specification of `SdioSdmmc::init` |
| `SdioInit` | `SdioSdmmc::init`, one action for every call on `SdioHost` |
| `SdioInitProofs` | theorems about `SdioInit` |
| `BlockDevice` | abstract specification of the block calls of a driver |
| `SpiDriver` | `SpiSdmmc`, one action for every command frame and data phase |
| `SpiDriverProofs` | theorems about `SpiDriver` |
| `BlockCalls` | what the block calls of `SdioSdmmc` and the card have in common over both controllers |
| `SdhciTransfer`, `DwMmcTransfer` | the block calls over `Sdhci` and over `DwMmc`, one action for every wait; both extend `BlockCalls` |
| `BlockCallsProofs` | lemmas about `BlockCalls`, and about the steps of `BlockDevice` as its calls see them |
| `SdhciTransferProofs`, `DwMmcTransferProofs` | theorems about the two; both extend `BlockCallsProofs` |
| `HostCalls` | the calls of `SdioHost` that set the bus up, as a channel between driver and controller |
| `SdhciBus`, `DwMmcBus` | the controllers' side of that channel: clock registers, width, voltage, tuning |
| `HostBus` | the composition: the order in which `init` makes these calls, over either controller |
| `HostBusProofs` | theorems about `HostBus` |
| `Bits`, `Checksums` | words as sets of bits; CRC-7 and CRC-16 as the code computes them and as remainders of polynomials |
| `Commands`, `Responses` | `cmd.rs`; `response.rs` and `ext_csd.rs`; what each transport makes of them |
| `ChecksumsProofs` | theorems about `Checksums` |
| `Exchange` | driver, bus and card, bit by bit: a command and its answer through these codecs |
| `ExchangeProofs` | theorems about `Exchange`; extends `ChecksumsProofs` |
| `MC*` | instances for TLC |

How they fit: `SdioInit` is `init` over an abstract host that grants or refuses
each call at once; `HostBus` takes the same calls apart, over the two real
controllers, and abstracts from what the card does with a command. The transfer
modules begin where `init` has ended. All of these take commands and answers at
their meaning; `Exchange` shows that the codecs carry it.

Operators that are introduced by a comment beginning with "Mutant:" are variants
of the operator that follows them, each with one plausible mistake. They are
part of no specification. Put in the place of the original they make one of the
properties fail, which is how we know that the property depends on that code.

### 2.1 SdioInit

`pc` names the host call `init` makes next, and each action is that call with
everything the code does with its outcome. The correspondence is by name:
`Cmd8` is `check_cmd8`, `Cmd55` and `Acmd41` are the loop of `wait_ready_sd`,
`Cmd1Query` and `Cmd1` are `wait_ready_mmc`, `Cmd6Switch` and `Cmd13Poll` are
`mmc_switch` for each of its uses (8 lines, 4 lines, HS200, HS), `TryNext` is the
loop over the SD access modes, `Rollback` is `rollback_to_hs_compat`.

State: `drv` holds the fields of `SdioSdmmc`; `loc` the locals of `init` and of
its helpers (`loc.speed` is the result of the speed negotiation, which the code
only logs); `host` what the controller behind the trait is set to; `dev` the
state of the card; `card` what that card can do. `drv.busWidth` and `drv.rca`
keep their values from one `init` to the next, as the fields do.

Faults: a command can be lost, or its answer garbled after the card acted on it
(`CmdFaults`); the host can refuse any request (`Refusable`). `Exchange` and
`HostCall` are the only places where they occur, so every call has them. CMD0
has no response, so losing it is not an error. A `?` is an `Err` branch that
ends `init`; a swallowed error is one that goes on.

The model of the card is the one the code counts on. It accepts a CMD11 in the
transfer state because this is where `try_sd_uhs_mode` sends it; it answers only
when a command is legal in its state; it keeps 1.8 V signaling until it loses
power. CMD6 and CMD13 may answer that the switch did not happen.

Left out: the CID, CSD and EXT_CSD contents beyond what is branched on, and
timing other than the number of polls.

### 2.2 SpiDriver

The actions are a command frame with its R1 (`Command`, used by every `Cmd...`,
`ReadCommand` for CMD17/18 and `WriteCommand` for CMD24/25), a block read
(`ReadData`, `read_data_into` with the deselect after it), a block write
(`WriteData`), its busy period (`Busy`) and the ends of multi-block calls
(`Cmd12`, `StopTran`). The loops that wait for a byte are part of their action:
they exchange nothing else, and their outcomes are a byte or a timeout.

`dev.state` is what the card believes it is doing. `Command` shows the
consequence of SPI mode: the driver checks only that an R1 is well formed, so a
command that is refused, or sent to a card that is busy or sending, can go on as
if it had been executed. `Drained` is a card out of which a stray frame has
clocked a piece of what it was sending.

`trusted` is a history variable: no call has failed since the last successful
`init`. `InStep` adds that data CRCs are verified and that the driver addresses
the card as this card wants it. Both conditions are needed. Without the first,
an error can leave the card streaming, waiting for a block or busy, and the next
call is then answered by accident (TLC shows a write reported as done and stored
at the place of an earlier call, when a card ends its busy period after the
driver's timeout). Without the second, the model finds the mistake that is
recorded as `doc_spi_capacity`.

Assumed of the card: a CMD0 is heard in every state but busy; an answer byte
without redundancy (R1, data response) arrives as it was sent; a block or a
register that is read out of alignment does not pass its CRC-16, except for the
blocks of a stream, which are aligned. Garbled bytes towards the card are left
out: the driver never enables CRC in the card, so no property of what is
written could hold with them.

Left out: `SpiDeviceWrapper`, whose behaviour is that of the `SpiDevice` behind
it; block lengths other than 512; addresses whose byte address does not fit 32
bits.

### 2.3 BlockCalls and SdhciTransfer

`BlockCalls` has the calls of `SdioSdmmc`, of `handle_irq`'s caller and of the DMA
entry points of the hosts, how a call goes on after its command and its data
phase (`Transferred`, `Retry`), and the card (`Legal`, `Obeyed`, `StoreAfter`).
`SdhciTransfer` adds the data path of `Sdhci`, because
what makes them correct lies between the two: which command is repeated, and who
stops the card. `Attempt` is the choice of `try_adma2_*`; `DmaIssue` and
`DmaWait` are `dma_data_transfer_prepared`, `PioIssue`, `PioBlock` and `PioWait`
the fallback; `DataCommand` and `Command` are `issue_command` with and without
data. `Transferred` is what the calls do after their data phase. `readBlocks` is
a loop of single blocks, `writeBlocks` stands for `write_blocks` and
`write_blocks_from`, `dmaRead` and `dmaWrite` are the DMA interface of `Sdhci`,
reached through `host_mut`, which has neither fallback nor CMD12. `switch` is
CMD6 with its 64 bytes, always by PIO.

`host.dat` says what occupies the data lines and is what the inhibit bit shows;
`host.left` is BLOCK_COUNT; `host.complete` the Transfer Complete status. A wait
resolves when the hardware (`EngineMoves`, `BusyEnds`) has got there, or fails:
by a fault, or because nothing can happen any more (`Stuck`). Failing PIO waits
and failing commands set `host` to `Quiet`, their resets; a failing `DmaWait`
does not. Once a wait has been given up, the memory the engine works on is no
longer the caller's, and what it writes to the card can be anything.

`inStep` is set when a call begins, from what controller and card are doing, and
lost when a running transfer is given up. `moved` keeps its length when an
attempt is repeated: the retry moves the same blocks to the same places.

Assumed of the card: a command that is illegal in its state is not answered; an
address it does not have is answered with an error bit and without data; one
command erases whole blocks, all of them or none. Assumed of the controller: it
sends CMD12 after the last block of a transfer of several, and a BLOCK_COUNT of
zero moves nothing.

Left out: bus width, clock, voltage and tuning (2.5); the waits between the
blocks of a write, which only delay; byte addresses that do not fit 32 bits; the
4 GiB check of descriptor addresses.

### 2.4 DwMmcTransfer

The same calls over `DwMmc`. Here the driver and the hardware move separately:
`Hardware` is what path, FIFO, engine and card do while the driver polls, and
each poll loop of the driver is one or two actions that look at what has come of
it. `Attempt`, `DmaArm`, `DmaIssue`, `DmaCommand` and `DmaWait` are
`idmac_transfer_*`; `GiveUp` is `recover_after_idmac_error`; `PioIssue`,
`PioCommand`, `PioRead` and `PioWrite` the fallback; `PlainStep` the commands
without data.

`host.queued` is the command whose `start_cmd` bit has not cleared. It waits for
an idle path (`wait_prvdata_complete`), and goes out (`GoesOut`) when the path
becomes idle, whether the driver still waits for it or not. A path that has
nothing to move stays: the command that would end it waits behind it. Then
nothing happens any more (`Stuck`) and every wait of the driver runs out. A
`BringUp` without a reset meets the same: the update of its clock queues, and the
card clock is off (`gated`) when it fails.

Assumed of the controller: Data Transfer Over comes no later than the end of the
card's busy period; a path that writes ends at a lost block, one that reads may
go on; `BYTCNT` is taken when the command is written; a command that was given
up has gone out, with its late `command_done`, before the next is written; a
reset of the FIFO takes effect (its result is ignored by the code, its failure is
not modelled); what IDMAC moves after an error bit does not count as delivered,
the attempt having failed.

What is not claimed: out of step, `read_block` may return `Ok` with words that an
earlier transfer left in the FIFO. `LeavesCardReady` and `ImplementsBlockDevice`
are conditional on `inStep`: controller and card were ready when the call began.

### 2.5 HostCalls, SdhciBus, DwMmcBus and HostBus

`HostCalls` is the channel: `call` and `answer`, and `step`, which says what the
call in progress waits for in the controller. Between two such points all
register accesses of the code are one action, since nobody else acts.

`SdhciBus` waits where somebody else acts: the platform's clock callback
(`Callback`), the internal clock (`Stabilise`), the tuning sweep (`TuningEnds`).
`sd.ref` is what feeds the divider: the base clock, or what the callback has made
of the external one. `Restart` is `enable_clock`, `Retuned`
`enable_clock_external`; `Divider` is the search of `enable_clock` with its
fall-through value.

`DwMmcBus` keeps what the registers say (`ena`, `div`) apart from what the card
interface unit uses (`unit`). `program_clock` is `Gate`, then the divider, then
the enable bit, each with an update that the unit takes at some time
(`UnitTakes`), in the call or after the driver has given it up
(`UpdateExpires`): late updates are the hard part of this module.

`HostBus` has the calls of `init` in their order (`Doing`) with, for each result,
the calls that may follow. Where the card decides there are several. A command is
heard only while the clock runs and no update is pending (`Transmit`). `granted`,
`requested` and `refused` note what `set_clock` has answered. The order of the
calls is the one of `SdioInit`, which also has the conditions under which they
are made; `HostBus` keeps only the condition on `bus_width`. `PowerUp` is the
board's start, which the check list of `crates/sdhci-host/README.md` (lines
59 to 65) puts before `init`.

Left out: a `ref_clock_hz` of zero, which makes the DesignWare driver skip clock
programming; the power-on delays. Assumed: base clocks of 0 to 255 MHz (the eight
bits of the capabilities register); references that are not zero.

### 2.6 Bits, Checksums, Commands, Responses and Exchange

Words are sets of bits, so that the code's masks and shifts are `\cap` and `Shl`
with the width at which they lose bits. `Commands` has every constructor of
`cmd.rs`, with `to_spi_bytes`, the controllers' `encode_command` and
`block_addr_of`; `Responses` the parsers of `response.rs` and `ext_csd.rs` with what
their accessors return, and the ways in which the three transports get at the bits.
Accessors that test one bit or repeat part of another are left out: the `vdd_*` of
an OCR, `erase_reset`, `illegal_command`, `command_crc_failed` and `card_is_locked` of an R1, `high_speed_active`, and the halves of `verify` and of
`supports_hs200`; and so is the 2000 that `manufacture_date` adds to the year.

`Exchange` is a protocol: `Ask`, `StrikeCommand`, `CardTakes`, `StrikeReply`,
`HostTakes`. The card understands a command, and fills its registers, by tables of
bit fields (`Operations`, `Cid`, `MmcCid`, `Csds`, `MmcCsds`, `Bodies`, `Truth`) that
are written from the registers and not from the code: they are the reference. An MMC
card has tables of its own for CID and CSD. Its CID has other fields than an SD
card's, and its CSD counts its structure in another way (0, 1 and 2 for 1.0, 1.1 and
1.2, 3 for "see EXT_CSD") with the fields of SD's first version in each. The driver
reads both by SD's tables, so `Tells` asks of an MMC card's CID only what the two
layouts have in common, the manufacturer, and of its CSD that the capacity is right or
missing, unless its structure is 1, which the driver takes for SD's version 2. The
rest of what the driver reads there is not the card's; section 3 lists it among the
disagreements.

On a native bus the whole answer is on the wire (`NativeAnswer`): header, index or
ones, content, CRC-7 or ones, end bit. A controller takes it (`Captured`) if it has the
length, the frame and, where the driver has set it to check one, the checksum that it
computes over what has come; so an answer is not refused because it was struck, but
because the CRC-7 no longer fits. In SPI mode a register comes as a block with its
CRC-16, which the driver computes itself. Noise flips a burst of bits no longer than
the checksum is sure to notice: 7 in a command (`Noise`) and in a native answer
(`ReplyNoise`), 16 in a block (`BlockNoise`). `Fillings` is
what arguments and registers hold: a set of words, from which every field takes the
bits at its place. It is a constant, so that what is proved holds for every content
of the fields. The values that init itself gives to SWITCH, CMD6 and CMD8 are listed
(`Values`), so are the R1 a card in SPI mode begins its answer with (`Accept`: none
of its flags, idle, erase reset, and two errors at once), and a CSD of the first
version has a READ_BL_LEN of 9, 10 or 11, as the standard allows. An MMC card keeps
what SWITCH has written to its BUS_WIDTH and HS_TIMING from exchange to exchange.

Assumed: on the native bus frames and their CRC-7 are made and computed by the
controller's hardware; the data blocks of EXT_CSD and of the SWITCH status, behind an
R1 that may be struck, arrive as they were sent; erase commands go to SD cards only
(an MMC card has CMD35 and CMD36 in the place of CMD32 and CMD33, see section 3); a
card in SPI mode that was not told otherwise checks only CMD0 and CMD8; a command that
was heard as another one is not followed further. Left out: SWITCH commands other than
WRITE_BYTE to 183 and 185; the deprecated `R1Response::from_raw`, which only chooses
between the two parsers.

## 3. Properties and runs

`sdio_init` (`MCSdioInit`, 27 thousand states): six cards, one per case that
`init` tells apart (SD v1; SD v2 standard capacity; SD v2 UHS-I; MMC without
fast modes; eMMC with HS200 and HS; eMMC with HS200 only), two calls of `init`
with the card swapped in between, one poll in every loop, two addresses an SD
card can publish, every request refusable and every command losable.

* `TypeOK`.
* `AddressesTheCard`: a command that carries `self.rca` is sent only when that is
  the card's address and the card is in the state the command needs.
* `SpeedIsReal`: a speed that the negotiation reports is the one that host and
  card are at, tuned where the mode needs it, at the right signaling level,
  however many candidates failed half-way before.
* `WidthIsReal`: in the first `init` of a driver, a width above one line is the
  width of both ends. It is not stated for later ones: the code never resets
  `bus_width`, and a failing second `init` publishes the width of the first.
* `IdentityIsReal`: `init` succeeds with the family and addressing mode of the
  card in the slot.
* `ClockFollowsCard`: the host clock is raised only to a timing the card has
  already accepted.
* `ImplementsBringUp`: `init` implements `BringUp`: phases in order, no failure
  once the negotiation of widths or access modes has begun, address and width
  published only in their phase.
* `InitReturns`: an `init` that is called returns.
* `IInv`: the inductive invariant of the proofs.

Why the bounds are enough: the loops count only towards their limit, so one poll
shows both "again" and "timed out"; two calls of `init` show every stale field,
because the first sets each field and the second starts from it; two addresses
tell an old address from a new one.

`spi` (`MCSpiDriver`, 2.2 million states): an SD v1 card, an SD v2 card of
standard and one of high capacity, with three blocks of two possible contents, a
block length of two, every fault, transports that drive chip select and ones
that do not. Four calls or card changes are what it takes to bring a card up,
fail, bring it up again and use it. Neighbouring blocks start with different
contents, so that a read of the wrong block is seen; calls begin at block 0,
where two blocks are inside the card, and at block 2, where they end beyond it
and where an address in blocks and one in bytes name different blocks.

* `TypeOK`.
* `LeavesCardReady`: after a successful block call the card listens for the next
  command and chip select is released.
* `ImplementsBlockDevice`: the block calls implement `BlockDevice`.

`sdhci` (`MCSdhciTransfer`, 770 thousand states): cards of both capacities, with
and without DMA installed, four blocks, calls of up to four blocks from block 0
(inside the card) and 2 (beyond its end), every fault, three calls. BLOCK_COUNT
wraps at three and the descriptors suffice for two blocks, so that calls are
made of one block, of several by either way, of a count that is programmed as
zero and of one that is programmed as one; in the code these bounds are 65536
and 2047, in the same order. Three calls are a failure, a call that finds what
it left, and one more.

* `TypeOK`.
* `OkIsTrue`: a read that returns success has delivered what the card stores,
  and a write has stored all of its data; with no condition on what happened
  before.
* `LeavesCardReady`: after a successful block call the card waits for a command
  and the data lines are free.
* `ImplementsBlockDevice`: the block calls implement `BlockDevice`.

`dwmmc` (`MCDwMmcTransfer`, 547 thousand states): with and without DMA, three
blocks, calls of up to three blocks from blocks 0 and 1 (inside the card, and
beyond its end), a FIFO of two blocks, so that a call of three fills it and has
to wait, every fault, two calls: one that leaves something in path, FIFO, queue
or card, and one that meets it. Addressing does not depend on the controller and
is left to `sdhci`.

* `TypeOK`.
* `LeavesCardReady`: after a call that began on a ready controller and succeeded,
  whatever attempts failed on the way, the path is idle, the FIFO and the queue
  empty and the card waits for a command or finishes writing.
* `ImplementsBlockDevice`: the block calls implement `BlockDevice`.
* `CallReturns`: every call returns, also when path, command and driver wait for
  one another.

`bus` (`MCHostBus`, 38 thousand states): both controllers, base clocks at the ends
of their range and off the grid of the dividers, references up to 204 MHz, the
largest that eight bits divide down to 400 kHz; any call may fail at any of its
steps, any number of calls of `init`.

* `TypeOK`.
* `NeverTooFast`: the card's clock is not faster than the speed that was granted;
  behind DesignWare, which acts on late updates, not faster than one asked for
  since.
* `GrantedMeansSet`: after a `set_clock` that succeeded and until the next one,
  the clock runs at no less than half of the speed (or all of the reference), with
  the timing bits of that speed.
* `NoGlitch`: the frequency changes only while the clock is stopped.
* `NoRevival`: a voltage switch, which sets the enable bit, never starts a clock
  that a failed `set_clock` has left stopped.
* `InitReturns`: `init` returns.

`codecs` (`MCExchange`, 0.9 million states): SD cards of both capacities and an MMC
card over SPI, SDHCI and DesignWare; every command and every register with four
fillings of its fields: all ones; every third bit; half-bytes that alternate; every
second bit, with the lowest word empty. A bit, half-byte or byte that is moved to
its neighbour's place is seen with one of them, since the neighbours differ. Noise is
of single bits and bursts at both ends of the frame, in index, content and checksum
and across their borders: in a command, in a native answer of either length, and in
a block.

* `TypeOK`: with what init means to write as the type of EXT_CSD.
* `ObeysWhatWasAsked`: the card obeys exactly what was asked, every value in its
  field, and, where it checks commands, nothing that was damaged.
* `UndamagedMeansUnderstood`: every undamaged answer is decoded, except R4 and R5
  over SDHCI.
* `LearnsTheTruth`: what the driver learns is what the fields of the card's
  registers say; a damaged answer that carries a CRC is not believed. Of the CID and
  the CSD of an MMC card it asks only what `Tells` does (2.6). Two mutants break it:
  registers that are not shifted back, and a controller that is not told to check
  the CRC.
* `ReadsBackWhatWasWritten`: what EXT_CSD says of width and timing is what was last
  written without an error.
* `LastBlockHasAnAddress`: the last block of a byte-addressed card, by its CSD, has
  a byte address of 32 bits, an MMC card's too.

The remaining runs each show that the code does not do what a document says
(the quotations are in `PROJECT.json` under `findings`):

* `doc_voltage_fallback`: on a host without 1.8 V, the card is left at 1.8 V.
* `doc_spi_capacity`: SD v2 cards of standard capacity are addressed in blocks.
* `doc_spi_read_blocks`: `read_blocks` of more than one block fails on a
  transport that drives chip select.
* `doc_sdhci_auto_cmd12`: with SDHCI every call of several blocks fails at its
  own CMD12, the card having been stopped by the controller's.
* `doc_dwmmc_fifo_reset`: an error in the last wait of `pio_write` leaves words in
  the FIFO.
* `doc_native_r1`: the error flags of a native R1 are never looked at.

Smaller disagreements that the models show and no run records: when the CMD13
that verifies HS200 gets no answer, `try_hs200` returns without its rollback
(`sdio.rs:688`, against the comment at 639); an MMC card without a fast mode stays
at 400 kHz (`sdio.rs:357`, against 379 and 384); the wait of ADMA2 does not reset
the lines when it fails (`sdhci-host/src/command.rs:95`, against 93). Two lines of
the repository's `README.md` are older than the code: 186, by which the data CRC is
ignored in SPI mode, while the driver checks it by default (`spi.rs:109-115`, and the
test at 687), and 188, by which the CID is not parsed, while `response.rs` parses it
and `init` publishes it (`sdio.rs:303`). MMC cards are taken for SD cards in three
places. `init` decodes the CID of either family with `CidResponse` and publishes it as
"manufacturer / OEM / serial / date" (`sdio.rs:301-305` and 978), while
`response.rs:358-359` says that "only SD cards are decoded here. eMMC uses a different
field layout and is not supported": of an MMC card's CID only the manufacturer is
right, and product, revision, serial number and date are taken from bits of other
fields. The capacity of a CSD with structure 2 or 3 is missing, and of one with
structure 1 is SD's version 2, though `ext_csd.rs:71-73` sends the reader of a zero
SEC_COUNT to the CSD. And `erase` (`sdio.rs:899-911`) sends CMD32 and CMD33, which are
SD's, to a card of either family.

`CHECK_DEADLOCK` is on everywhere.

**Fairness.** `FairSpec` of `SdioInit` is weak fairness of the steps of `init`:
it is a function of one thread whose host calls return (the trait's contract;
the hosts' own loops are bounded by timeouts) and whose loops add their delay to
an elapsed time. Nothing obliges the user to call `init`, and nothing obliges
the card to become ready: the loops end by their timeouts. `HostBus` goes one
level down: weak fairness of the controller's steps and of the caller's. Each
wait of a controller ends, by its event or by its poll limit, and which of the
two is open: nothing obliges the callback to succeed, the clock to become stable
or an update to be taken. In `DwMmcTransfer` the driver and the hardware are each
weakly fair as a whole: the driver polls, and its polls are counted; the
hardware does something it can do. A wait may run out when nothing can happen any
more or under the fault `slow`, and must not be waited out otherwise.

## 4. Proofs

For each system there is one proof module with its inductive invariant, shown to be
established by `Init` and kept by every action (one lemma for an action or a group of
them), and the properties that follow from it. `BlockCallsProofs` and
`ChecksumsProofs` have the facts about operators that these proofs rest on. The
properties are not inductive as they stand:
most look at the end of a call, where driver, controller and card have been
brought to agree by different steps, and an induction needs what each step has
already achieved.

| Module | Theorems |
|---|---|
| `SdioInitProofs` | `InductiveInvariant` (`IInv`); `TypeCorrect`, `AddressesCorrect`, `SpeedCorrect`, `WidthCorrect`, `IdentityCorrect`, `ClockFollows`; `Implements` (`BringUp`) |
| `SpiDriverProofs` | `Inductive`; `TypeCorrect`, `CardReady`; `BlocksImplemented` (`BlockDevice`) |
| `SdhciTransferProofs` | `Inductive`; `TypeCorrect`, `CardReady`, `OkIsTrueHolds`; `BlocksImplemented` (`BlockDevice`) |
| `DwMmcTransferProofs` | `Inductive`; `TypeCorrect`, `CardReady`; `BlocksImplemented` (`BlockDevice`) |
| `HostBusProofs` | `ControlInvariant`; `TypeCorrect`, `NeverTooFastHolds`, `GrantedMeansSetHolds`, `NoGlitchHolds`, `NoRevivalHolds` |
| `ChecksumsProofs` | `Crc7IsTheRemainder`, `Crc16IsTheRemainder`, `BurstsAreNoticed` |
| `ExchangeProofs` | `OneFrame`, `NoiseIsNoticed`, `EveryCommand`; `InvariantHolds`; `TypesHold`, `CardsObey`, `EveryAnswerIsUnderstood`, `DriversLearnTheTruth`, `WritesAreReadBack`, `LastBlocksHaveAddresses` |

They hold for every value of the constants, that is for any cards, addresses,
faults and refusals, any number of blocks and contents, any content of arguments and
registers, and all bounds. The only
assumptions are the ones declared with the constants: `CardsAssumption`,
`RcasAssumption`, `FaultsAssumption`, `BoundsAssumption` (`SdioInit`);
`CardsAssumption`, `SizesAssumption`, `CallsAssumption`, `ContentsAssumption`,
`FaultsAssumption` (`SpiDriver`); `SizesAssumption`, `CallsAssumption`,
`ContentsAssumption`, `SetupAssumption`, `LimitsAssumption`,
`CallBoundsAssumption` (the transfer modules), `FifoAssumption` (`DwMmcTransfer`: the
FIFO holds a block); `BackendsAssumption`,
`BaseAssumption`, `RefAssumption` (`HostBus`); `LinksAssumption`, `CardsAssumption`,
`SettingsAssumption`, `NoiseAssumption`, `BurstAssumption`, `FillingsAssumption`
(`Exchange`). TLC evaluates them in the runs. `BurstAssumption` is one about the
environment: what noise flips at once is a burst of at most seven bits in a command
or a native answer, which end in a CRC-7, and of at most sixteen in a block of SPI
mode, which ends in a CRC-16. This is what checksums of these degrees can be relied
on to notice, and `BurstsAreNoticed` proves that they do; `StruckAnswer` and
`StruckOnWire` apply it to the answers, whose checksums the models compute.
`NeverTooFastHolds` has one hypothesis more: no reference is above 204 MHz
(510 times 400 kHz), the largest that the eight-bit divider brings down to the
speed of identification. The code does not check it.

**SdioInitProofs.** `SpeedInv` says what each step of the negotiation has
achieved of timing, clock, tuning and the two signaling levels. `AddressInv`
carries the address from CMD3 through the selection and the negotiation;
`IdentityInv` carries the OCR and the family from the loops that learn them to the
end; `WidthInv` says which side is already wide at which step; `ControlInv` ties
the locals to `pc`, so that a step finds the candidate or SWITCH it works on set.
An exchange with the card, or a request to the host, leaves three (or two)
possible results, and each part of the invariant is shown for each of them.
`TypeOK` is split into what control is made of and the records, which the lemma
`ControlSteps` and the lemmas on updates treat apart.

**SpiDriverProofs.** `SpiInv` is made of `TypeOK`; `CallInv`, the step fits the
call; `MovedInv`, how many blocks have been moved at which step; `ResetInv`, the
states in which the steps of `init` can find the card; `MultiInv`, a stream of
several blocks is open only in a data phase; and `TrustInv`: as long as no call
has failed since the last `init`, the card is in the state and at the block that
the call takes it to be in. `TrustInv` is what the code relies on without ever
looking. For the refinement, every step is silent, an outcome, a block delivered
or a block stored, and a step out of step is one that `BlockDevice` makes no
promise about.

**SdhciTransferProofs.** Here the same relation has three parties. `PhaseInv` says
how controller, card and engine stand to each other in a data phase; `TurnInv`
what is so between two turns of `read_blocks`; `ContentInv` that what has been
moved is what the card has stored, or stores; `DoneInv` that after a data phase
that was completed the lines are free. `Passing` is the lemma about a block that
passes, whoever moves it; `ObeyedData` and `ObeyedPlain` say what a card makes of
a command. `OkIsTrueHolds` follows with no condition on earlier failures, since
these parts speak of the call in progress only. What holds of calls that begin in
step is `StepInv` (`InStepInvariant`): nobody else uses the controller
(`AloneInv`), what has been moved stays (`KeptInv`), and the range of an erase is
the one that was asked for (`RangeInv`). The refinement rests on both. A repeated
attempt moves blocks that were moved before; in `BlockDevice` this is a step that
stores what is stored.

**DwMmcTransferProofs.** `DwInv` is what holds at every step: the types, and that the
step fits the call, its count and the state of the engine. All the rest is
`StepInv`, said of a call that is in step. Out of step the code is not right and the
model contains what goes wrong. `QueueInv`: the only command that waits in the
controller is the one the driver waits for. `RestInv`: outside a data phase the FIFO
is empty, and a path that is not idle is one that a write attempt has left behind
with nothing to send. `ReadInv` and `WriteInv` count the blocks of a data phase: those
the path still has to move, those in the FIFO, those the call has taken or given,
each at its place in the range, so that the words of a failed attempt can never be
taken for those of the next one. `KeptInv`: what has been moved is as it was.
`StopInv`: what state the card is in when the driver stops it, and after. `RangeInv`:
the card knows the range of the erase, or none. Each action has a lemma for `DwInv`
(`...Typed`) and one for `StepInv` (`...Steps`). For the refinement, `TakeStep`
(a block that leaves the FIFO, by the engine or the CPU) and `TransmitStep` (one
that reaches the card) show that it is the next of the call's, or one moved before
and moved again as it was; everything else moves nothing.

`BlockCallsProofs` is what the proofs of both controllers share: `Addressing` (the
address on the wire selects the block that was meant), what the card makes of a
command (`ObeyedData`, `ObeyedPlain`), how a call begins (`CallsBegin`), and one
lemma for each kind of step of `BlockDevice`.

**HostBusProofs.** `ControlInv` is made of `TypeOK`; `CallInv`, the call in the
channel fits the place of `init`; `PathInv`, wherever the clock has to be running
it is; `SdhciInv` and `DwMmcInv`, what the steps of the controllers have written so
far, where for DesignWare an update that is taken late cannot change the divider
of a running clock; `SetInv`, what a granted speed says of the registers.
`SdhciDivider` and `DwMmcDivider` are the arithmetic: the quotient the code computes
is never too small, and at most twice what it need be, for every base clock of 0 to
255 MHz and every reference. `SdhciEffects` and `DwMmcEffects` reduce the steps of the
controllers to six effects each, and the invariant is shown for the effects.

**ChecksumsProofs.** The reference is polynomial: the remainder of a message is the
sum of the powers of x modulo the generator at its bits. It is linear
(`RemainderXor`) and multiplied by x when the message is shifted
(`RemainderTimesX`). One bit through the shift register of `crc7` or `crc16_ccitt`
is one step of that kind (`Crc7Bit`, `Crc16Bit`), eight are a byte, and so the
register holds the remainder of the bytes that went in (`Crc7IsTheRemainder`,
`Crc16IsTheRemainder`, for messages of every length). A burst shifted down to bit 0
is a remainder of its own, and not empty; times x it is never empty, since the
generator ends in a one (`TimesXOfSomething`), and so it stays when it is shifted
back up (`BurstsAreNoticed`). These are inductions, over bits and bytes. The
library's induction theorems take an operator as a parameter, which the installed
provers cannot instantiate, so `AllNumbers` states induction for *sets* of numbers,
from the least member of a set that is not empty, and `ProductExists` and
`ProductUnique` say that the recursive functions in question exist and are the only
ones.

**ExchangeProofs.** First the way to the card. `to_spi_bytes` and the two
controllers' `encode_command` put the same 48 bits on the bus (`OneFrame`); a frame
that is struck is broken in its framing or its checksum (`NoiseIsNoticed`); and the
argument that each constructor builds has every value in the field where the card
looks for it (`EveryCommand`, with a lemma for each kind of constructor). Then the
steps. `Invariant` is made of `TypeOK`; `RegistersOK`, the shape of EXT_CSD and of
what the driver notes of it; `AskedOK`, what is asked exists on this bus and for
this card; `FrameOK` and `ReplyOK`, what is on the bus is what was sent, or that,
struck once; `SilenceOK`, a native card that has heard no command does not answer;
`WidthKnown` and `TimingKnown`, what the driver knows to have set EXT_CSD to is what
the card holds, but for a SWITCH under way; and the two properties that need the
steps, `ObeysWhatWasAsked` and `ReadsBackWhatWasWritten`. Last the way back: each
transport's layout of the response registers (`SdhciHolds`, `DwMmcHolds`,
`SpiHolds`), each parser against the table of its fields (`...IsTheTruth`), what an
undamaged answer tells (`NativeTells`, `SpiTells`), and what noise does to one under a
checksum. A native answer that passes the controller's CRC-7 although it was struck
has been struck outside of what the CRC covers, in the header of an R2, since a burst
inside leaves a remainder (`StruckAnswer`): its content is what was sent, and
`NativeTells` covers it, too. A block of SPI mode that was struck fails its CRC-16
(`SpiStruck`). `LastBlocksHaveAddresses` is
arithmetic on the capacity that the fields of the CSD give, which at its largest
leaves the last block just inside 32 bits.

**Only model-checked.** Liveness is beyond the prover, and with it `ENABLED`:
`InitReturns` of `SdioInit` and of `HostBus`, and `CallReturns` of `DwMmcTransfer`, are
checked by TLC alone. Every other property of a passing run is also a theorem. The
runs that end in a violation are TLC's, as they must be.

## 5. Not modelled

* `SpiDeviceWrapper` (`spi.rs:59`), which runs every byte as a transaction of its
  own: what the card sees of it is decided by the `SpiDevice` behind it.
* Memory: addresses of buffers and descriptors, the 4 GiB check
  (`sdhci-host/src/dma.rs:111`), cache maintenance, and the 32-bit product of block
  size and count (`dwmmc-host/src/host.rs:325`), whose limit no caller of the crate
  reaches.
* A `ref_clock_hz` of zero, with which the DesignWare driver skips clock
  programming; its power-on delays.
* Time. Polls are counted and a wait may run out; how long a poll takes is no part
  of a model. A wait that is too short for a slow card is the fault `slow`.
* What a second `init` inherits: the `bus_width` of the first (`sdio.rs:387`) and a
  host still at 1.8 V (`sdio.rs:275`). The models contain both, and no property
  promises anything about them, since the code does not.
* `R1Response::from_raw`, deprecated, which only chooses between the two parsers.
* `error.rs` beyond the errors of a card, the register maps (bit fields, whose
  positions the models of the hosts use by name), the examples and `scripts/`
  (programs around the library and an older copy of it), logging.

What would be worth adding next is a card that changes its mind: a removal in the
middle of a call over the native bus.
