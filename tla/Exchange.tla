------------------------------ MODULE Exchange ------------------------------
(***************************************************************************)
(* One exchange after the other between a driver and its card, bit by bit: *)
(* a command is encoded and crosses a bus that may damage it, the card     *)
(* hears and answers it, the answer crosses the same bus and is decoded.   *)
(* The other modules of the project take commands and answers at their     *)
(* meaning; this one shows that the codecs carry it, over SPI and over both*)
(* controllers.                                                            *)
(*                                                                         *)
(* What the bits mean to the card, and in the registers it sends, is given *)
(* by tables of bit fields, which are the specification of the bus: they   *)
(* are external and owe nothing to the code's masks, shifts and bytes.     *)
(***************************************************************************)
EXTENDS Commands, Responses

CONSTANTS
    Links,       \* the transports: a subset of {"spi", "sdhci", "dwmmc"}
    Cards,       \* the cards: their type and whether they count in blocks
    Switches,    \* the values init writes to EXT_CSD: names of Widths and Timings
    Verifies,    \* whether the SPI driver checks data blocks
    Strict,      \* whether a card in SPI mode checks every command
    Noise,       \* what may be flipped in a command: sets of bits
    ReplyNoise,  \* what may be flipped in an answer on a native bus
    BlockNoise,  \* what may be flipped in what follows an R1 in SPI mode
    Fillings     \* what arguments and registers hold: sets of bits, from which a field
                 \* takes its own

ASSUME LinksAssumption == Links \subseteq {"spi", "sdhci", "dwmmc"}
ASSUME CardsAssumption == Cards \subseteq [type : {"sd", "mmc"}, highCapacity : BOOLEAN]
ASSUME SettingsAssumption == Verifies \subseteq BOOLEAN /\ Strict \subseteq BOOLEAN
ASSUME NoiseAssumption ==
    Noise \subseteq Word(48) /\ ReplyNoise \subseteq Word(136) /\ BlockNoise \subseteq Word(144)
\* What is flipped at once is a burst, no longer than the checksum that is there
\* to notice it: CRC-7 in commands and in native answers, CRC-16 in blocks.
ASSUME BurstAssumption ==
    /\ \A noise \in Noise : noise # {} /\ \E k \in 0 .. 47 : noise \subseteq k .. k + 6
    /\ \A noise \in ReplyNoise : noise # {} /\ \E k \in 0 .. 135 : noise \subseteq k .. k + 6
    /\ \A noise \in BlockNoise : noise # {} /\ \E k \in 0 .. 143 : noise \subseteq k .. k + 15
ASSUME FillingsAssumption == Fillings \subseteq SUBSET Nat

VARIABLES
    bus,      \* the transport, its settings, and the card's kind
    phase,    \* "idle", "sent", "replied" or "told"
    asked,    \* what the driver asks: an operation and its values
    frame,    \* the 48 bits on their way to the card
    heard,    \* what the card took them for
    reply,    \* the card's answer on its way back
    hit,      \* what noise has struck: a subset of {"command", "reply"}
    told,     \* what the driver learns
    extCsd,   \* BUS_WIDTH and HS_TIMING of an MMC card
    chosen    \* what the driver has successfully set them to

vars == <<bus, phase, asked, frame, heard, reply, hit, told, extCsd, chosen>>

-----------------------------------------------------------------------------
(* The reference: each operation with the index of its command, whether    *)
(* CMD55 comes first, the fields of its argument, the response, the kinds  *)
(* of card that know it and the transports the driver asks it on.          *)

Native == {"sdhci", "dwmmc"}
Both == {"sd", "mmc"}
Any == {"spi"} \cup Native

Operation(index, app, fields, resp, kinds, links) ==
    [index |-> index, app |-> app, fields |-> fields, resp |-> resp,
     kinds |-> kinds, links |-> links]

Rca == <<<<31, 16>>>>
Whole == <<<<31, 0>>>>
IoFields == <<<<31, 31>>, <<30, 28>>, <<27, 27>>, <<25, 9>>>>

Operations ==
  [reset         |-> Operation(0, FALSE, <<>>, "None", Both, Any),
   mmcOpCond     |-> Operation(1, FALSE, Whole, "R3", {"mmc"}, Native),
   allSendCid    |-> Operation(2, FALSE, <<>>, "R2", {"sd"}, Native),
   mmcAllSendCid |-> Operation(2, FALSE, <<>>, "R2", {"mmc"}, Native),
   publishRca    |-> Operation(3, FALSE, <<>>, "R6", {"sd"}, Native),
   assignRca     |-> Operation(3, FALSE, Rca, "R1", {"mmc"}, Native),
   setDsr        |-> Operation(4, FALSE, Rca, "None", Both, Native),
   ioOpCond      |-> Operation(5, FALSE, <<>>, "R4", {"sd"}, Native),
   accessMode    |-> Operation(6, FALSE, <<<<31, 31>>, <<23, 4>>, <<3, 0>>>>,
                               "R1", {"sd"}, Native),
   busWidth      |-> Operation(6, TRUE, <<<<1, 0>>>>, "R1", {"sd"}, Native),
   switch        |-> Operation(6, FALSE, <<<<25, 24>>, <<23, 16>>, <<15, 8>>>>,
                               "R1b", {"mmc"}, Native),
   select        |-> Operation(7, FALSE, Rca, "R1b", Both, Native),
   ifCond        |-> Operation(8, FALSE, <<<<11, 8>>, <<7, 0>>>>, "R7", {"sd"}, Any),
   extCsd        |-> Operation(8, FALSE, <<>>, "R1", {"mmc"}, Native),
   csd           |-> Operation(9, FALSE, Rca, "R2", {"sd"}, Any),
   mmcCsd        |-> Operation(9, FALSE, Rca, "R2", {"mmc"}, Native),
   cid           |-> Operation(10, FALSE, Rca, "R2", {"sd"}, Any),
   voltage       |-> Operation(11, FALSE, <<>>, "R1", {"sd"}, Native),
   stop          |-> Operation(12, FALSE, <<>>, "R1b", Both, Any),
   status        |-> Operation(13, FALSE, Rca, "R1", Both, Native),
   blockLength   |-> Operation(16, FALSE, Whole, "R1", Both, Any),
   readBlock     |-> Operation(17, FALSE, Whole, "R1", Both, Any),
   readBlocks    |-> Operation(18, FALSE, Whole, "R1", Both, Any),
   tuning        |-> Operation(19, FALSE, <<>>, "R1", {"sd"}, Native),
   mmcTuning     |-> Operation(21, FALSE, <<>>, "R1", {"mmc"}, Native),
   writeBlock    |-> Operation(24, FALSE, Whole, "R1", Both, Any),
   writeBlocks   |-> Operation(25, FALSE, Whole, "R1", Both, Any),
   eraseStart    |-> Operation(32, FALSE, Whole, "R1", {"sd"}, Native),
   eraseEnd      |-> Operation(33, FALSE, Whole, "R1", {"sd"}, Native),
   erase         |-> Operation(38, FALSE, <<>>, "R1b", Both, Native),
   opCond        |-> Operation(41, TRUE, <<<<30, 30>>, <<23, 15>>, <<24, 24>>>>, "R3", {"sd"}, Any),
   app           |-> Operation(55, FALSE, Rca, "R1", {"sd"}, Any),
   ocr           |-> Operation(58, FALSE, <<>>, "R3", {"sd"}, {"spi"}),
   ioDirect      |-> Operation(52, FALSE, IoFields \o <<<<7, 0>>>>, "R5", {"sd"}, Native),
   ioExtended    |-> Operation(53, FALSE, IoFields \o <<<<26, 26>>, <<8, 0>>>>,
                               "R5", {"sd"}, Native)]

Ops == DOMAIN Operations

BlockOps == {"readBlock", "readBlocks", "writeBlock", "writeBlocks", "eraseStart", "eraseEnd"}

\* A card that is addressed by the byte takes the block from the upper bits.
Fields(op, kind) ==
    IF op \in BlockOps /\ ~kind.highCapacity THEN <<<<31, 9>>>> ELSE Operations[op].fields

\* The operation a card takes an index for, if any.
Known(link, kind, app, index) ==
    {op \in Ops : /\ Number(Operations[op].index) = index
                  /\ Operations[op].app = app
                  /\ kind.type \in Operations[op].kinds
                  /\ link \in Operations[op].links}

Meaning(op, kind, arg) ==
    [op |-> op, values |-> [i \in DOMAIN Fields(op, kind) |->
                               Field(arg, Fields(op, kind)[i][1], Fields(op, kind)[i][2])]]

-----------------------------------------------------------------------------
(* Values to ask with: each field holds its bits of a filling.             *)

Samples(fields) ==
    {[i \in DOMAIN fields |-> Field(filling, fields[i][1], fields[i][2])] : filling \in Fillings}

\* The writes of set_bus_width_mmc and of init, and what they select.
Widths == [Sdr1 |-> 0, Sdr4 |-> 1, Sdr8 |-> 2]
Timings == [Compat |-> 0, HighSpeed |-> 1, Hs200 |-> 2]

WriteByte(index, value) == <<Number(3), Number(index), Number(value)>>

Values(op, kind) ==
    CASE op = "switch" -> {WriteByte(183, Widths[w]) : w \in Switches \cap DOMAIN Widths}
                          \cup {WriteByte(185, Timings[t]) : t \in Switches \cap DOMAIN Timings}
                          \cup {<<Ones(1), Ones(8), {}>>, <<{}, {}, Ones(8)>>}
      [] op = "accessMode" -> {<<s, Ones(20), f>> : s \in {{}, {0}}, f \in SUBSET Ones(3)}
      [] op = "busWidth" -> {<<{}>>, <<{1}>>}
      [] op = "ifCond" -> {<<{0}, {7, 5, 3, 1}>>}
      [] OTHER -> Samples(Fields(op, kind))

\* The command the code builds for an operation.
Sent(op, v, kind, link) ==
    CASE op = "reset" -> CMD0
      [] op = "mmcOpCond" -> Cmd1(v[1])
      [] op \in {"allSendCid", "mmcAllSendCid"} -> CMD2
      [] op = "publishRca" -> CMD3Sd
      [] op = "assignRca" -> Cmd3Mmc(v[1])
      [] op = "setDsr" -> Cmd4(v[1])
      [] op = "ioOpCond" -> CMD5
      [] op = "accessMode" -> Cmd6SdAccessMode(v[1], v[3])
      [] op = "busWidth" -> Cmd6(v[1])
      [] op = "switch" -> Cmd6MmcSwitch(v[1], v[2], v[3])
      [] op = "select" -> Cmd7(v[1])
      [] op = "ifCond" -> Cmd8(v[1], v[2])
      [] op = "extCsd" -> CMD8Mmc
      [] op \in {"csd", "mmcCsd"} -> Cmd9(v[1])
      [] op = "cid" -> Cmd10(v[1])
      [] op = "voltage" -> CMD11
      [] op = "stop" -> CMD12
      [] op = "status" -> Cmd13(v[1])
      [] op = "blockLength" -> Cmd16(v[1])
      [] op = "readBlock" -> Cmd17(BlockAddrOf(v[1], kind.highCapacity))
      [] op = "readBlocks" -> Cmd18(BlockAddrOf(v[1], kind.highCapacity))
      [] op = "tuning" -> CMD19
      [] op = "mmcTuning" -> CMD21
      [] op = "writeBlock" -> Cmd24(BlockAddrOf(v[1], kind.highCapacity))
      [] op = "writeBlocks" -> Cmd25(BlockAddrOf(v[1], kind.highCapacity))
      [] op = "eraseStart" -> Cmd32(BlockAddrOf(v[1], kind.highCapacity))
      [] op = "eraseEnd" -> Cmd33(BlockAddrOf(v[1], kind.highCapacity))
      [] op = "erase" -> CMD38
      [] op = "opCond" /\ link # "spi" -> Cmd41WithS18r(v[1], Shl(v[2], 15, 32), v[3])
      [] op = "opCond" /\ link = "spi" ->
             WithRespType(Cmd41WithS18r(v[1], Shl(v[2], 15, 32), v[3]), "R1")
      [] op = "app" -> Cmd55(v[1])
      [] op = "ocr" -> CMD58
      [] op = "ioDirect" -> Cmd52(v[1], v[2], v[3], v[4], v[5])
      [] op = "ioExtended" -> Cmd53(v[1], v[2], v[3], v[4], v[5], v[6])

-----------------------------------------------------------------------------
(* The frame on the bus, and the card that hears it.                       *)

\* Whatever has a CRC-7 has it in front of the end bit, over all that is above.
Sealed(body) == body \cup Shl(Remainder(Shr(body, 1), Powers7, 7), 1, 48) \cup {0}

\* A controller makes the frame of its registers, with a checksum of its own.
HardwareFrame(index, arg) ==
    Sealed({46} \cup Shl(index \cap 0 .. 5, 40, 48) \cup Shl(arg, 8, 48))

Frame(link, c) ==
    CASE link = "spi" -> FromBytes(ToSpiBytes(c), 6)
      [] link = "sdhci" -> HardwareFrame(SdhciEncode(c).index, c.arg)
      [] link = "dwmmc" -> HardwareFrame(DwMmcEncode(c).index, c.arg)

Framed == 47 \notin frame /\ {46, 0} \subseteq frame

Undamaged == Remainder(Shr(frame, 1), Powers7, 7) = {}

\* In SPI mode a card that was not told otherwise checks only CMD0 and CMD8.
Checked == bus.link # "spi" \/ bus.strict \/ Field(frame, 45, 40) \in {Number(0), Number(8)}

Nothing == [op |-> "nothing", values |-> <<>>]

-----------------------------------------------------------------------------
(* What the card may answer.  Registers of the card hold samples of their  *)
(* fields; a card answers CMD8 with what it was asked.  The CID of an MMC  *)
(* card has fields of its own, and its CSD counts its structures from 1.0, *)
(* 1.1 and 1.2 to "see EXT_CSD", with the fields of the first in each.     *)

Cid == <<<<127, 120>>, <<119, 104>>, <<103, 64>>, <<63, 60>>, <<59, 56>>, <<55, 24>>,
         <<19, 12>>, <<11, 8>>>>
MmcCid == <<<<127, 120>>, <<113, 112>>, <<111, 104>>, <<103, 56>>, <<55, 48>>, <<47, 16>>,
            <<15, 12>>, <<11, 8>>>>

Selections == [group \in 1 .. 6 |-> <<375 + 4 * group, 372 + 4 * group>>]
Support == <<407, 400>>

Status == <<<<12, 9>>, <<8, 8>>, <<7, 7>>, <<24, 19>>>>

Built(fields, values) ==
    UNION {Shl(values[i], fields[i][2], 512) : i \in DOMAIN fields}

AllBuilt(fields) == {Built(fields, v) : v \in Samples(fields)}

\* A CSD of the first version has blocks of 512, 1024 or 2048 bytes.
CsdV1(filling, readBlLen) ==
    ((filling \cap 8 .. 125) \ 80 .. 83) \cup Shl(Number(readBlLen), 80, 128)
CsdV2(filling, version) == (filling \cap 8 .. 125) \cup Shl(version, 126, 128)

Csds ==
    {CsdV1(filling, l) : filling \in Fillings, l \in 9 .. 11}
    \cup {CsdV2(filling, v) : filling \in Fillings, v \in {{0}, {1}}}

MmcCsds ==
    {CsdV1(filling, l) \cup Shl(structure, 126, 128) :
        filling \in Fillings, l \in 9 .. 11, structure \in SUBSET {0, 1}}

\* SEC_COUNT, four bytes, and DEVICE_TYPE, as the words they are.
ExtCsds ==
    {[sectors |-> Field(filling, 31, 0), device |-> Field(filling, 39, 32)] :
        filling \in Fillings}

Bodies(op, values) ==
    CASE Operations[op].resp \in {"R1", "R1b"} /\ op \notin {"extCsd", "accessMode"} ->
             AllBuilt(Status)
      [] Operations[op].resp = "R3" ->
             AllBuilt(<<<<31, 31>>, <<30, 30>>, <<29, 29>>, <<24, 24>>, <<23, 15>>>>)
      [] Operations[op].resp = "R4" -> AllBuilt(<<<<31, 31>>, <<30, 28>>, <<27, 27>>>>)
      [] Operations[op].resp = "R5" -> AllBuilt(<<<<15, 8>>, <<7, 0>>>>)
      [] Operations[op].resp = "R6" -> AllBuilt(<<<<31, 16>>, <<15, 0>>>>)
      [] op = "ifCond" -> {Built(<<<<11, 8>>, <<7, 0>>>>, values)}
      [] op = "csd" -> Csds
      [] op = "mmcCsd" -> MmcCsds
      [] op \in {"cid", "allSendCid"} -> AllBuilt(Cid)
      [] op = "mmcAllSendCid" -> AllBuilt(MmcCid)
      [] op = "accessMode" -> AllBuilt(Append(Selections, Support))
      [] op = "extCsd" -> ExtCsds
      [] OTHER -> {{}}

\* The length of a card's answer on a native bus, and whether a checksum ends it.
AnswerSent(op) ==
    CASE Operations[op].resp = "R2" -> Receive(136, TRUE)
      [] Operations[op].resp \in {"R3", "R4"} -> Receive(48, FALSE)
      [] OTHER -> Receive(48, TRUE)

\* The R1 in front of a data block is clean, and says nothing of the block.
Content(op, body) == IF op \in {"extCsd", "accessMode"} THEN {} ELSE body

\* An answer repeats the index of its command.  Where there is no checksum its
\* place and the index hold ones; a register brings its own checksum.
NativeAnswer(op, body) ==
    CASE Operations[op].resp = "R2" -> 128 .. 133 \cup Sealed(body)
      [] Operations[op].resp \in {"R3", "R4"} -> 40 .. 45 \cup Shl(body, 8, 48) \cup 0 .. 7
      [] OTHER -> Sealed(Shl(Number(Operations[op].index), 40, 48)
                         \cup Shl(Content(op, body), 8, 48))

\* In SPI mode most answers are R1 alone, after which the line stays high, and
\* a register comes as a block with its CRC-16.
OnWire(link, op, body) ==
    CASE link = "spi" /\ op \in {"csd", "cid"} ->
             LET data == Shl(body, 16, 144) IN data \cup Remainder(data, Powers16, 16)
      [] link = "spi" /\ op \in {"ocr", "ifCond"} -> body
      [] link = "spi" /\ op \notin {"csd", "cid", "ocr", "ifCond"} -> Ones(32)
      [] link # "spi" -> NativeAnswer(op, body)

Answer(r1, meant, wire) == [answered |-> TRUE, r1 |-> r1, meant |-> meant, wire |-> wire]
Silence == [answered |-> FALSE, r1 |-> {}, meant |-> {}, wire |-> {}]

Written(values) ==
    CASE values[1] = Number(3) /\ values[2] = Number(183) -> [extCsd EXCEPT !.width = values[3]]
      [] values[1] = Number(3) /\ values[2] = Number(185) -> [extCsd EXCEPT !.timing = values[3]]
      [] OTHER -> extCsd

Refuse(r1) ==
    /\ heard' = Nothing
    /\ reply' = IF bus.link = "spi" THEN Answer(r1, {}, Ones(32)) ELSE Silence
    /\ UNCHANGED extCsd

Accept(op) ==
    /\ heard' = Meaning(op, bus.kind, Field(frame, 39, 8))
    /\ extCsd' = IF op = "switch" THEN Written(heard'.values) ELSE extCsd
    /\ \/ /\ Operations[op].resp = "None" /\ bus.link # "spi"
          /\ reply' = Silence
       \/ /\ Operations[op].resp # "None" \/ bus.link = "spi"
          /\ \E r1 \in IF bus.link # "spi" \/ op \in {"csd", "cid"} THEN {{}}
                      ELSE {{}, {0}, {1}, {4, 6}},
                body \in IF bus.link = "spi" /\ Operations[op].resp \in {"R1", "R1b"}
                         THEN {{}} ELSE Bodies(op, heard'.values) :
                reply' = Answer(r1, body, OnWire(bus.link, op, body))

CardTakes ==
    /\ phase = "sent"
    /\ phase' = "replied"
    /\ frame' = {}
    /\ LET ops == Known(bus.link, bus.kind, Operations[asked.op].app, Field(frame, 45, 40))
       IN \/ ~Framed /\ heard' = Nothing /\ reply' = Silence /\ UNCHANGED extCsd
          \/ Framed /\ Checked /\ ~Undamaged /\ Refuse({3})
          \/ Framed /\ (~Checked \/ Undamaged) /\ ops = {} /\ Refuse({2})
          \/ Framed /\ (~Checked \/ Undamaged) /\ \E op \in ops : Accept(op)
    /\ UNCHANGED <<bus, asked, hit, told, chosen>>

-----------------------------------------------------------------------------
(* The answer, as the driver gets to see it.                               *)

\* What a controller keeps of an answer: the content of a short one; of a long
\* one all that follows the header, on SDHCI without the last eight bits.
Registers(link, op) ==
    IF Operations[op].resp # "R2" THEN [i \in {0} |-> Field(reply.wire, 39, 8)]
    ELSE LET bits == IF link = "sdhci" THEN Field(reply.wire, 127, 8)
                     ELSE reply.wire \cap 0 .. 127
         IN [i \in 0 .. 3 |-> Field(bits, 32 * i + 31, 32 * i)]

\* Start, transmission and end bit of an answer.
WellFramed(wire, length) == length - 1 \notin wire /\ length - 2 \notin wire /\ 0 \in wire

\* A controller reports an error when no answer comes, one of another length than
\* it expects, one that is not framed, or, where it is told to check it, one with a
\* wrong checksum.
Captured(programmed, op) ==
    CASE programmed.length = 0 -> Ok({})
      [] programmed.length # 0 /\ ~reply.answered -> Err("Timeout")
      [] programmed.length # 0 /\ reply.answered ->
             IF \/ programmed.length # AnswerSent(op).length
                \/ ~WellFramed(reply.wire, programmed.length)
                \/ programmed.crc /\ Remainder(Field(reply.wire, 127, 1), Powers7, 7) # {}
             THEN Err("Crc") ELSE Ok({})

SpiBlock ==
    LET bytes == Bytes(Shr(reply.wire, 16), 16)
    IN IF heard.op \notin {"csd", "cid"} THEN Err("Timeout")
       ELSE IF bus.verify /\ Crc16(bytes, 16) # reply.wire \cap Ones(16) THEN Err("Crc")
       ELSE Ok(bytes)

Received(c) ==
    CASE bus.link = "spi" -> IF reply.answered THEN SpiRead(c.resp, reply.r1, reply.wire, SpiBlock)
                             ELSE Err("Timeout")
      [] bus.link = "sdhci" -> IF Captured(SdhciEncode(c).response, heard.op).ok
                               THEN SdhciDecode(c.resp, Registers("sdhci", heard.op))
                               ELSE Captured(SdhciEncode(c).response, heard.op)
      [] bus.link = "dwmmc" -> IF Captured(DwMmcEncode(c).response, heard.op).ok
                               THEN DwMmcDecode(c.resp, Registers("dwmmc", heard.op))
                               ELSE Captured(DwMmcEncode(c).response, heard.op)

\* The seven bytes of EXT_CSD that are read.
RawExtCsd(body) ==
    [i \in {183, 185, 196} \cup 212 .. 215 |->
        CASE i = 183 -> extCsd.width
          [] i = 185 -> extCsd.timing
          [] i = 196 -> body.device
          [] OTHER -> Field(body.sectors, 8 * (i - 212) + 7, 8 * (i - 212))]

\* What the driver makes of a response: an unexpected one is an error.
Learned(op, v, r) ==
    CASE op = "extCsd" /\ r.type = "R1" -> Ok(ExtCsdView(RawExtCsd(reply.meant)))
      [] op = "accessMode" /\ r.type = "R1" -> Ok(SwitchView(Bytes(reply.meant, 64)))
      [] op \in {"csd", "mmcCsd"} /\ r.type = "R2" -> Ok(CapacityBlocks(r.raw))
      [] op \in {"cid", "allSendCid", "mmcAllSendCid"} /\ r.type = "R2" -> Ok(CidView(r.raw))
      [] op = "ifCond" /\ r.type = "R7" /\ Verify(r.raw, v[1], v[2]) -> Ok(<<>>)
      [] op \in {"ocr", "opCond", "mmcOpCond"} /\ r.type = "R3" -> Ok(OcrView(r.raw))
      [] op = "publishRca" /\ r.type = "R6" -> Ok(RcaView(r.raw))
      [] op = "ioOpCond" /\ r.type = "R4" -> Ok(SdioOcrView(r.raw))
      [] op \in {"ioDirect", "ioExtended"} /\ r.type = "R5" -> Ok(SdioRwView(r.raw))
      [] op \notin {"extCsd", "accessMode"} /\ r.type \in {"R1", "R1b"} ->
             IF Operations[op].resp = "R2" \/ op = "ocr" THEN Err("BadResponse")
             ELSE IF bus.link = "spi" THEN Ok(SpiStatusView(r.raw)) ELSE Ok(StatusView(r.raw))
      [] r.type = "None" -> Ok(<<>>)
      [] OTHER -> Err("BadResponse")

-----------------------------------------------------------------------------
(* Steps.                                                                  *)

Buses ==
    UNION {{[link |-> l, kind |-> k, verify |-> v, strict |-> s] :
                k \in {c \in Cards : l # "spi" \/ c.type = "sd"},
                v \in IF l = "spi" THEN Verifies ELSE {TRUE},
                s \in IF l = "spi" THEN Strict ELSE {TRUE}} : l \in Links}

Init ==
    /\ bus \in Buses
    /\ phase = "idle" /\ asked = Nothing /\ frame = {} /\ heard = Nothing
    /\ reply = Silence /\ hit = {} /\ told = Ok(<<>>)
    /\ extCsd = [width |-> {}, timing |-> {}]
    /\ chosen = [width |-> <<{}>>, timing |-> <<{}>>]

Ask ==
    /\ phase = "idle"
    /\ \E op \in Ops : \E v \in Values(op, bus.kind) :
        /\ bus.kind.type \in Operations[op].kinds /\ bus.link \in Operations[op].links
        /\ asked' = [op |-> op, values |-> v]
        /\ frame' = Frame(bus.link, Sent(op, v, bus.kind, bus.link))
    /\ phase' = "sent"
    /\ UNCHANGED <<bus, heard, reply, hit, told, extCsd, chosen>>

StrikeCommand ==
    /\ phase = "sent" /\ hit = {}
    /\ \E noise \in Noise : frame' = Xor(frame, noise)
    /\ hit' = {"command"}
    /\ UNCHANGED <<bus, phase, asked, heard, reply, told, extCsd, chosen>>

\* The R1 of SPI mode, or what follows it; an answer on the other transports.
\* A data block in front of which it comes is taken to arrive.
StrikeReply ==
    /\ phase = "replied" /\ reply.answered /\ "reply" \notin hit
    /\ \/ \E b \in 0 .. 7 : bus.link = "spi" /\ reply' = [reply EXCEPT !.r1 = Xor(@, {b})]
       \/ \E noise \in BlockNoise :
            bus.link = "spi" /\ reply' = [reply EXCEPT !.wire = Xor(@, noise)]
       \/ \E noise \in ReplyNoise :
            /\ bus.link # "spi" /\ noise \subseteq 0 .. AnswerSent(heard.op).length - 1
            /\ reply' = [reply EXCEPT !.wire = Xor(@, noise)]
    /\ hit' = hit \cup {"reply"}
    /\ UNCHANGED <<bus, phase, asked, frame, heard, told, extCsd, chosen>>

\* The register a SWITCH writes, as far as the driver knows afterwards.
Believed(new) ==
    LET value == IF new.ok THEN <<asked.values[3]>> ELSE <<>>
    IN CASE asked.op = "switch" /\ asked.values[1] = Number(3) /\ asked.values[2] = Number(183) ->
                [chosen EXCEPT !.width = value]
         [] asked.op = "switch" /\ asked.values[1] = Number(3) /\ asked.values[2] = Number(185) ->
                [chosen EXCEPT !.timing = value]
         [] OTHER -> chosen

HostTakes ==
    /\ phase = "replied"
    /\ phase' = "told"
    /\ LET c == Sent(asked.op, asked.values, bus.kind, bus.link)
       IN told' = IF Received(c).ok THEN Learned(asked.op, asked.values, Received(c).view)
                  ELSE Received(c)
    /\ chosen' = Believed(told')
    /\ UNCHANGED <<bus, asked, frame, heard, reply, hit, extCsd>>

Done ==
    /\ phase = "told"
    /\ phase' = "idle" /\ asked' = Nothing /\ heard' = Nothing /\ reply' = Silence
    /\ hit' = {} /\ told' = Ok(<<>>)
    /\ UNCHANGED <<bus, frame, extCsd, chosen>>

Next == Ask \/ StrikeCommand \/ CardTakes \/ StrikeReply \/ HostTakes \/ Done

Spec == Init /\ [][Next]_vars

-----------------------------------------------------------------------------
(* What an answer means, by the fields of the registers.                   *)

States == [Idle |-> 0, Ready |-> 1, Identification |-> 2, Standby |-> 3, Transfer |-> 4,
           SendingData |-> 5, ReceiveData |-> 6, Programming |-> 7, Disconnect |-> 8]

Named(names, w, other) ==
    IF \E n \in DOMAIN names : Number(names[n]) = w
    THEN CHOOSE n \in DOMAIN names : Number(names[n]) = w
    ELSE other

\* The error flags of an R1 in SPI mode, the most important first.
SpiErrors == <<<<3, "CommandCrcFailed">>, <<2, "IllegalCommand">>, <<5, "AddressError">>,
               <<6, "AddressError">>, <<4, "EraseSequence">>, <<1, "EraseSequence">>>>

SpiError(r1) ==
    IF \A i \in 1 .. 6 : SpiErrors[i][1] \notin r1 THEN "None"
    ELSE LET first == CHOOSE i \in 1 .. 6 : /\ SpiErrors[i][1] \in r1
                                            /\ \A j \in 1 .. i - 1 : SpiErrors[j][1] \notin r1
         IN SpiErrors[first][2]

CsdV1Truth(w) ==
    <<Shl(Increment(Field(w, 73, 62)),
          Value(Field(w, 49, 47)) + 2 + Value(Field(w, 83, 80)) - 9, 64)>>

CsdTruth(w) ==
    CASE Field(w, 127, 126) = {} -> CsdV1Truth(w)
      [] Field(w, 127, 126) = {0} -> <<Shl(Increment(Field(w, 69, 48)), 10, 64)>>
      [] OTHER -> <<>>

CidTruth(w) ==
    <<Field(w, 127, 120), <<Field(w, 119, 112), Field(w, 111, 104)>>,
      [i \in 1 .. 5 |-> Field(w, 111 - 8 * i, 104 - 8 * i)],
      Field(w, 63, 60), Field(w, 59, 56), Field(w, 55, 24), Field(w, 19, 12), Field(w, 11, 8)>>

SwitchTruth(w) ==
    <<[group \in 1 .. 6 |-> Field(w, Selections[group][1], Selections[group][2])],
      [function \in 0 .. 7 |-> 400 + function \in w]>>

OcrTruth(w) == <<31 \in w, 30 \in w, 29 \in w, 24 \in w, Field(w, 23, 15) # {}, w \cap 8 .. 23>>

Truth(op, w) ==
    CASE op = "csd" -> CsdTruth(w)
      [] op \in {"cid", "allSendCid"} -> CidTruth(w)
      [] op = "accessMode" -> SwitchTruth(w)
      [] op = "extCsd" ->
             <<IF w.sectors = {} THEN <<>> ELSE <<w.sectors>>,
               Named(Widths, extCsd.width, "Unknown"), Named(Timings, extCsd.timing, "Unknown"),
               <<0 \in w.device, 1 \in w.device, 4 \in w.device \/ 5 \in w.device>>>>
      [] op = "ifCond" -> <<>>
      [] op \in {"ocr", "opCond", "mmcOpCond"} /\ ~(bus.link = "spi" /\ op = "opCond") ->
             OcrTruth(w)
      [] op = "publishRca" -> <<Field(w, 31, 16), Field(w, 15, 0)>>
      [] op = "ioOpCond" -> <<31 \in w, Field(w, 30, 28), 27 \in w>>
      [] op \in {"ioDirect", "ioExtended"} -> <<Field(w, 15, 8), Field(w, 7, 0)>>
      [] bus.link = "spi" /\ (op = "opCond" \/ Operations[op].resp \in {"None", "R1", "R1b"}) ->
             <<0 \in reply.r1, SpiError(reply.r1)>>
      [] bus.link # "spi" /\ Operations[op].resp \in {"R1", "R1b"}
             /\ op \notin {"accessMode", "extCsd"} ->
             <<Named(States, Field(w, 12, 9), "Reserved"), 8 \in w, 7 \in w>>
      [] OTHER -> <<>>

\* What the driver makes of an answer tells that.  It decodes the registers of an
\* MMC card by SD's tables.  Of its CID only the manufacturer is in the same place;
\* its CSD gives the capacity or none, with structure 1 taken for SD's version 2.
Tells(op, view, w) ==
    CASE op = "mmcAllSendCid" -> view[1] = Field(w, 127, 120)
      [] op = "mmcCsd" -> view \in {<<>>, CsdV1Truth(w)} \/ Field(w, 127, 126) = {0}
      [] OTHER -> view = Truth(op, w)

-----------------------------------------------------------------------------
(* Properties.                                                             *)

\* Types; a frame is six bytes (to_spi_bytes), and the card's EXT_CSD only ever
\* holds what set_bus_width_mmc and init mean to write to it.
TypeOK ==
    /\ bus \in Buses /\ phase \in {"idle", "sent", "replied", "told"}
    /\ asked.op \in Ops \cup {"nothing"} /\ heard.op \in Ops \cup {"nothing"}
    /\ frame \in Word(48) /\ hit \subseteq {"command", "reply"} /\ told.ok \in BOOLEAN
    /\ extCsd.width \in {Number(Widths[w]) : w \in DOMAIN Widths}
    /\ extCsd.timing \in {Number(Timings[t]) : t \in DOMAIN Timings}

\* A card that checks its commands obeys exactly what it was asked, every
\* value in its field, and takes nothing for a command that noise has
\* damaged; one that does not (SPI, no CMD59) obeys what was asked as long as
\* nothing was damaged.  (The constructors of cmd.rs, to_spi_bytes, crc7.)
ObeysWhatWasAsked ==
    phase \in {"replied", "told"} =>
        CASE "command" \notin hit -> heard = asked
          [] "command" \in hit -> heard = Nothing \/ ~bus.strict

\* With nothing damaged every answer is understood: the response a transport
\* is set to receive is the one the card sends.  SDHCI does not do SDIO's R4
\* and R5 (crates/sdhci-host/src/command.rs:302).
UndamagedMeansUnderstood ==
    phase = "told" /\ hit = {} =>
        \/ told.ok
        \/ bus.link = "sdhci" /\ Operations[asked.op].resp \in {"R4", "R5"}

\* What protects an answer: a CRC that the driver or its controller checks.
Protected ==
    \/ bus.link # "spi" /\ Operations[asked.op].resp \notin {"R3", "R4"}
    \/ bus.link = "spi" /\ asked.op \in {"csd", "cid"} /\ bus.verify

\* What the driver learns is what the registers of the card hold, field by
\* field, over every transport, or it learns that something went wrong: an
\* answer that carries a checksum may be damaged on its way.  Only of a
\* refused CMD58 does it learn what nobody said (spi.rs:328 reads on), and of the
\* CID of an MMC card no more than the manufacturer (Tells).
LearnsTheTruth ==
    phase = "told" /\ told.ok /\ ("reply" \notin hit \/ Protected) =>
        CASE heard = asked -> Tells(asked.op, told.view, reply.meant)
          [] heard = Nothing ->
                \/ asked.op = "ocr"
                \/ bus.link = "spi" /\ told.view = <<FALSE, SpiError(reply.r1)>>
                \/ bus.link # "spi" /\ Operations[asked.op].resp = "None"
          [] OTHER -> ~bus.strict

\* What EXT_CSD says of width and timing is what was last written without an
\* error, however many exchanges, damaged ones too, lie between.
ReadsBackWhatWasWritten ==
    phase = "told" /\ asked.op = "extCsd" /\ told.ok =>
        /\ chosen.width # <<>> => told.view[2] = Named(Widths, chosen.width[1], "Unknown")
        /\ chosen.timing # <<>> => told.view[3] = Named(Timings, chosen.timing[1], "Unknown")

\* The last block that the CSD of a byte-addressed card gives it has a byte
\* address of 32 bits: block_addr_of cannot overflow within the capacity.
LastBlockHasAnAddress ==
    phase = "told" /\ asked.op \in {"csd", "mmcCsd"} /\ told.ok /\ "reply" \notin hit
    /\ heard = asked /\ Field(reply.meant, 127, 126) = {} =>
        \A n \in {Number(Value(told.view[1]) - 1)} :
            Shr(BlockAddrOf(n, FALSE), 9) = n

\* What error.rs says of CardError: "Card returned an error in its R1
\* response."  An R1 with an error flag is not a success.
ErrorsInR1AreReturned ==
    phase = "told" /\ told.ok /\ bus.link # "spi" /\ Operations[asked.op].resp \in {"R1", "R1b"}
    /\ asked.op \notin {"extCsd", "accessMode"} => FromNativeRaw(reply.meant).ok
=============================================================================
