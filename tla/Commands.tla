------------------------------ MODULE Commands ------------------------------
(***************************************************************************)
(* Commands: src/cmd.rs, and what each transport makes of one.  A command  *)
(* is an index, a 32-bit argument and the response it expects.             *)
(***************************************************************************)
EXTENDS Checksums

Command(cmd, arg, resp) == [cmd |-> cmd, arg |-> arg, resp |-> resp]

WithRespType(c, resp) == [c EXCEPT !.resp = resp]

DataDirection(c) ==
    CASE c.cmd \in {17, 18} -> "Read"
      [] c.cmd \in {24, 25} -> "Write"
      [] OTHER -> "None"

-----------------------------------------------------------------------------
(* The commands, in the order of the source.                               *)

\* A 16-bit address in the upper half of the argument.
Addressed(cmd, rca, resp) == Command(cmd, Shl(rca, 16, 32), resp)

CMD0 == Command(0, {}, "None")
CMD2 == Command(2, {}, "R2")
CMD3Sd == Command(3, {}, "R6")
Cmd3Mmc(rca) == Addressed(3, rca, "R1")
Cmd4(dsr) == Addressed(4, dsr, "None")
Cmd6(arg) == Command(6, arg, "R1")

Cmd6SdAccessMode(switch, function) ==
    Command(6, Shl(switch, 31, 32) \cup 4 .. 23 \cup (function \cap 0 .. 3), "R1")

Cmd7(rca) == Addressed(7, rca, "R1b")
Cmd8(voltage, pattern) == Command(8, Shl(voltage, 8, 32) \cup pattern, "R7")
Cmd9(rca) == Addressed(9, rca, "R2")
Cmd10(rca) == Addressed(10, rca, "R2")
CMD11 == Command(11, {}, "R1")
CMD12 == Command(12, {}, "R1b")
Cmd13(rca) == Addressed(13, rca, "R1")
Cmd16(length) == Command(16, length, "R1")
Cmd17(addr) == Command(17, addr, "R1")
Cmd18(addr) == Command(18, addr, "R1")
Cmd24(addr) == Command(24, addr, "R1")
Cmd25(addr) == Command(25, addr, "R1")
CMD19 == Command(19, {}, "R1")
CMD21 == Command(21, {}, "R1")
Cmd32(addr) == Command(32, addr, "R1")
Cmd33(addr) == Command(33, addr, "R1")
CMD38 == Command(38, {}, "R1b")

Cmd41WithS18r(hcs, window, s18r) ==
    Command(41, Shl(hcs, 30, 32) \cup Shl(s18r, 24, 32) \cup (window \cap 11 .. 23), "R3")

Cmd55(rca) == Addressed(55, rca, "R1")
CMD58 == Command(58, {}, "R3")
Cmd1(window) == Command(1, window, "R3")

\* Mutant: the value one bit too high.
Cmd6MmcSwitchHigh(access, index, value) ==
    Command(6, Shl(access, 24, 32) \cup Shl(index, 16, 32) \cup Shl(value, 9, 32), "R1b")

Cmd6MmcSwitch(access, index, value) ==
    Command(6, Shl(access, 24, 32) \cup Shl(index, 16, 32) \cup Shl(value, 8, 32), "R1b")

CMD8Mmc == Command(8, {}, "R1")
CMD5 == Command(5, {}, "R4")

Cmd52(write, function, raw, addr, data) ==
    Command(52, Shl(write, 31, 32) \cup Shl(function \cap 0 .. 2, 28, 32)
                \cup Shl(raw, 27, 32) \cup Shl(addr \cap 0 .. 16, 9, 32) \cup data, "R5")

Cmd53(write, function, blockMode, addr, opCode, count) ==
    Command(53, Shl(write, 31, 32) \cup Shl(function \cap 0 .. 2, 28, 32)
                \cup Shl(blockMode, 27, 32) \cup Shl(opCode, 26, 32)
                \cup Shl(addr \cap 0 .. 16, 9, 32) \cup (count \cap 0 .. 8), "R5")

\* Block addresses are block numbers on a card of high capacity and byte
\* addresses, in 32 bits, on the others.
BlockAddrOf(addr, highCapacity) == IF highCapacity THEN addr ELSE Shl(addr, 9, 32)

-----------------------------------------------------------------------------
(* What goes onto the bus.  The driver of a card in SPI mode builds the six*)
(* bytes of the frame itself; a controller builds them from what its       *)
(* command and argument registers hold.                                    *)

Token(index) == {6} \cup (index \cap 0 .. 5)

ToSpiBytes(c) ==
    LET token == Token(Number(c.cmd))
        arg == Bytes(c.arg, 4)
    IN [i \in 0 .. 5 |-> CASE i = 0 -> token
                           [] i = 5 -> Crc7(token, c.arg)
                           [] OTHER -> arg[i - 1]]

\* The response a controller is programmed to receive.
Receive(length, crc) == [length |-> length, crc |-> crc]

\* Mutant: a short answer is taken without a look at its checksum.
SdhciEncodeUnchecked(c) ==
    [index |-> Number(c.cmd),
     response |-> CASE c.resp = "None" -> Receive(0, FALSE)
                    [] c.resp = "R2" -> Receive(136, TRUE)
                    [] c.resp \notin {"None", "R2"} -> Receive(48, FALSE)]

SdhciEncode(c) ==
    [index |-> Number(c.cmd),
     response |-> CASE c.resp = "None" -> Receive(0, FALSE)
                    [] c.resp \in {"R1", "R1b", "R5", "R6", "R7"} -> Receive(48, TRUE)
                    [] c.resp = "R2" -> Receive(136, TRUE)
                    [] c.resp \in {"R3", "R4"} -> Receive(48, FALSE)]

\* Mutant: the checksum of an OCR is checked, and it has none.
DwMmcEncodeCheckingAll(c) ==
    [index |-> Number(c.cmd) \cap 0 .. 5,
     response |-> CASE c.resp = "None" -> Receive(0, FALSE)
                    [] c.resp = "R2" -> Receive(136, TRUE)
                    [] c.resp \notin {"None", "R2"} -> Receive(48, TRUE)]

DwMmcEncode(c) ==
    [index |-> Number(c.cmd) \cap 0 .. 5,
     response |-> CASE c.resp = "None" -> Receive(0, FALSE)
                    [] c.resp \in {"R1", "R5", "R6", "R7"} -> Receive(48, TRUE)
                    [] c.resp = "R1b" -> Receive(48, TRUE)
                    [] c.resp = "R2" -> Receive(136, TRUE)
                    [] c.resp \in {"R3", "R4"} -> Receive(48, FALSE)]
=============================================================================
