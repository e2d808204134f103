----------------------------- MODULE Responses ------------------------------
(***************************************************************************)
(* Responses: the parsers of src/response.rs and src/ext_csd.rs, and how   *)
(* each transport gets at the bits they parse.  A view is the sequence of  *)
(* what the accessors of a response return.                                *)
(***************************************************************************)
EXTENDS Bits, Sequences

Ok(view) == [ok |-> TRUE, view |-> view]
Err(error) == [ok |-> FALSE, view |-> error]

-----------------------------------------------------------------------------
(* R1.                                                                     *)

CardStateNames ==
    <<"Idle", "Ready", "Identification", "Standby", "Transfer", "SendingData",
      "ReceiveData", "Programming", "Disconnect">>

CurrentState(raw) ==
    LET state == Value(Field(raw, 12, 9))
    IN IF state <= 8 THEN CardStateNames[state + 1] ELSE "Reserved"

StatusView(raw) == <<CurrentState(raw), 8 \in raw, 7 \in raw>>

\* The first of the errors in their order of priority.
NativeCardError(bits) ==
    CASE 4 \in bits -> "CommandCrcFailed"
      [] 4 \notin bits /\ 3 \in bits -> "IllegalCommand"
      [] bits \cap 3 .. 4 = {} /\ 2 \in bits -> "CardEccFailed"
      [] bits \cap 2 .. 4 = {} /\ bits \cap {1, 5} # {} -> "ControllerError"
      [] bits \cap 1 .. 5 = {} /\ 0 \in bits -> "EraseSequence"
      [] OTHER -> "Unknown"

FromNativeRaw(raw) ==
    LET errors == Field(raw, 24, 19)
    IN IF errors # {} THEN Err(NativeCardError(errors)) ELSE Ok(StatusView(raw))

SpiCardError(raw) ==
    LET bits == raw \cap 1 .. 6
    IN CASE bits = {} -> "None"
         [] 3 \in bits -> "CommandCrcFailed"
         [] 3 \notin bits /\ 2 \in bits -> "IllegalCommand"
         [] bits \cap 2 .. 3 = {} /\ bits \cap {5, 6} # {} -> "AddressError"
         [] bits \cap {2, 3, 5, 6} = {} /\ bits \cap {1, 4} # {} -> "EraseSequence"

SpiStatusView(raw) == <<0 \in raw, SpiCardError(raw)>>

FromSpiByte(byte) == IF 7 \in byte THEN Err("BadResponse") ELSE Ok(byte)

-----------------------------------------------------------------------------
(* The other short responses.                                              *)

OcrView(raw) ==
    <<31 \in raw, 30 \in raw, 29 \in raw, 24 \in raw, raw \cap 15 .. 23 # {},
      raw \cap 8 .. 23>>

RcaView(raw) == <<Field(raw, 31, 16), raw \cap 0 .. 15>>

Verify(raw, voltage, pattern) ==
    Field(raw, 11, 8) = voltage /\ raw \cap 0 .. 7 = pattern

SdioOcrView(raw) == <<31 \in raw, Field(raw, 30, 28), 27 \in raw>>

SdioRwView(raw) == <<Field(raw, 15, 8), raw \cap 0 .. 7>>

-----------------------------------------------------------------------------
(* The registers of R2, sixteen bytes with the highest first.  Capacities  *)
(* are u64 words, in blocks of 512 bytes.                                  *)

CsdVersion(raw) == Shr(raw[0], 6)

\* Mutant: 2^(C_SIZE_MULT + 3).
CsdV1CapacityDoubled(raw) ==
    LET readBlLen == raw[5] \cap 0 .. 3
        cSize == Shl(raw[6] \cap 0 .. 1, 10, 32) \cup Shl(raw[7], 2, 32)
                 \cup Shr(raw[8], 6)
        cSizeMult == Shl(raw[9] \cap 0 .. 1, 1, 32) \cup Shr(raw[10], 7)
    IN Shr(Shl(Increment(cSize), Value(cSizeMult) + 3 + Value(readBlLen), 64), 9)

CsdV1CapacityBlocks(raw) ==
    LET readBlLen == raw[5] \cap 0 .. 3
        cSize == Shl(raw[6] \cap 0 .. 1, 10, 32) \cup Shl(raw[7], 2, 32)
                 \cup Shr(raw[8], 6)
        cSizeMult == Shl(raw[9] \cap 0 .. 1, 1, 32) \cup Shr(raw[10], 7)
        bytes == Shl(Increment(cSize), Value(cSizeMult) + 2 + Value(readBlLen), 64)
    IN Shr(bytes, 9)

CsdV2CapacityBlocks(raw) ==
    LET cSize == Shl(raw[7] \cap 0 .. 5, 16, 32) \cup Shl(raw[8], 8, 32) \cup raw[9]
    IN Shl(Increment(cSize), 10, 64)

CapacityBlocks(raw) ==
    CASE CsdVersion(raw) = {} -> <<CsdV1CapacityBlocks(raw)>>
      [] CsdVersion(raw) = {0} -> <<CsdV2CapacityBlocks(raw)>>
      [] OTHER -> <<>>

CidView(raw) ==
    <<raw[0], <<raw[1], raw[2]>>, [i \in 1 .. 5 |-> raw[i + 2]],
      Shr(raw[8], 4), raw[8] \cap 0 .. 3, FromBytes([i \in 0 .. 3 |-> raw[9 + i]], 4),
      Shl(raw[13] \cap 0 .. 3, 4, 8) \cup Shr(raw[14], 4), raw[14] \cap 0 .. 3>>

-----------------------------------------------------------------------------
(* The data blocks that hold registers: raw[i] is byte i of the block.     *)

SelectedFunction(raw, group) ==
    CASE group = 1 -> raw[16] \cap 0 .. 3
      [] group = 2 -> Shr(raw[16], 4)
      [] group = 3 -> raw[15] \cap 0 .. 3
      [] group = 4 -> Shr(raw[15], 4)
      [] group = 5 -> raw[14] \cap 0 .. 3
      [] group = 6 -> Shr(raw[14], 4)

SwitchView(raw) ==
    <<[group \in 1 .. 6 |-> SelectedFunction(raw, group)],
      [function \in 0 .. 7 |-> function \in raw[13]]>>

\* Little-endian; none when it is 0, which stands for "see the CSD".
SectorCount(raw) ==
    LET count == FromBytes([i \in 0 .. 3 |-> raw[212 + 3 - i]], 4)
    IN IF count = {} THEN <<>> ELSE <<count>>

MmcBusWidth(raw) ==
    CASE raw[183] = Number(0) -> "Sdr1"
      [] raw[183] = Number(1) -> "Sdr4"
      [] raw[183] = Number(2) -> "Sdr8"
      [] raw[183] = Number(5) -> "Ddr4"
      [] raw[183] = Number(6) -> "Ddr8"
      [] OTHER -> "Unknown"

\* Mutant: the upper nibble, the driver strength.
MmcTimingUpper(raw) ==
    CASE Shr(raw[185], 4) = Number(0) -> "Compat"
      [] Shr(raw[185], 4) = Number(1) -> "HighSpeed"
      [] Shr(raw[185], 4) = Number(2) -> "Hs200"
      [] Shr(raw[185], 4) = Number(3) -> "Hs400"
      [] OTHER -> "Unknown"

MmcTiming(raw) ==
    CASE raw[185] \cap 0 .. 3 = Number(0) -> "Compat"
      [] raw[185] \cap 0 .. 3 = Number(1) -> "HighSpeed"
      [] raw[185] \cap 0 .. 3 = Number(2) -> "Hs200"
      [] raw[185] \cap 0 .. 3 = Number(3) -> "Hs400"
      [] OTHER -> "Unknown"

\* supports_hs_26, supports_hs_52, supports_hs200.
DeviceTypes(raw) == <<0 \in raw[196], 1 \in raw[196], raw[196] \cap 4 .. 5 # {}>>

ExtCsdView(raw) == <<SectorCount(raw), MmcBusWidth(raw), MmcTiming(raw), DeviceTypes(raw)>>

-----------------------------------------------------------------------------
(* From the registers of a controller to a response.                       *)

\* register[i] is RESPONSE(i), 32 bits of what lies between the header of an
\* R2 and its CRC; the shift makes room for the CRC, which is lost.
\* Mutant: the registers as they are.
SdhciReadR2Unshifted(register) ==
    [i \in 0 .. 15 |-> Bytes(register[3 - (i \div 4)], 4)[i % 4]]

SdhciReadR2(register) ==
    LET words == [i \in 0 .. 3 |->
                     IF i = 3 THEN Shl(register[0], 8, 32)
                     ELSE Shl(register[3 - i], 8, 32) \cup Shr(register[2 - i], 24)]
    IN [i \in 0 .. 15 |-> Bytes(words[i \div 4], 4)[i % 4]]

DwMmcReadR2(register) ==
    [i \in 0 .. 15 |-> Bytes(register[3 - (i \div 4)], 4)[i % 4]]

Response(type, raw) == Ok([type |-> type, raw |-> raw])

\* There is nothing to read when no response is due.
SdhciDecode(resp, register) ==
    CASE resp = "None" -> Response("None", {})
      [] resp \in {"R1", "R1b"} -> Response("R1", register[0])
      [] resp = "R2" -> Response("R2", SdhciReadR2(register))
      [] resp \in {"R4", "R5"} -> Err("BadResponse")
      [] resp \in {"R3", "R6", "R7"} -> Response(resp, register[0])

DwMmcDecode(resp, register) ==
    CASE resp = "None" -> Response("None", {})
      [] resp = "R2" -> Response("R2", DwMmcReadR2(register))
      [] resp \in {"R1", "R1b", "R3", "R4", "R5", "R6", "R7"} -> Response(resp, register[0])

\* send_command_raw of the driver in SPI mode: r1 is the first byte that is
\* not idle, word the four bytes after it, block the data block that follows,
\* or "Timeout" or "Crc" when it does not come or is damaged.
SpiRead(resp, r1, word, block) ==
    IF ~FromSpiByte(r1).ok THEN Err("BadResponse")
    ELSE CASE resp = "R3" -> Response("R3", word)
           [] resp = "R7" -> IF 2 \in r1 THEN Response("R1", r1) ELSE Response("R7", word)
           [] resp = "R2" -> IF r1 # {} THEN Response("R1", r1)
                             ELSE IF block.ok THEN Response("R2", block.view)
                             ELSE block
           [] resp = "R1b" -> Response("R1b", r1)
           [] OTHER -> Response("R1", r1)
=============================================================================
