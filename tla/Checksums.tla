----------------------------- MODULE Checksums ------------------------------
(***************************************************************************)
(* The two checksums of the SD bus as the code computes them, byte by byte *)
(* in a shift register, and the definition they are to meet: a frame and   *)
(* its checksum, read as a polynomial over GF(2), are a multiple of the    *)
(* generator.                                                              *)
(***************************************************************************)
EXTENDS Bits, FiniteSets

\* One bit through crc7_update, which keeps its register in a u8: bit 7 is left
\* over from one step and shifted out in the next.
Crc7Shift(shifted, bits) ==
    IF 7 \in Xor(shifted, bits) THEN Xor(shifted, {7, 3, 0}) ELSE shifted

\* One byte, its highest bit first.
Crc7Update(crc, byte) ==
    LET step[k \in 0 .. 8] ==
            IF k = 0 THEN crc
            ELSE Then(step[k - 1],
                      LAMBDA reg : Crc7Shift(Shl(reg, 1, 8), Shl(byte, k - 1, 8)))
    IN step[8]

\* Mutant: the argument with its lowest byte first.
Crc7LittleEndian(token, arg) ==
    LET bytes == [i \in 0 .. 4 |-> IF i = 0 THEN token ELSE Bytes(arg, 4)[4 - i]]
        crc[i \in 0 .. 5] ==
            IF i = 0 THEN {} ELSE Then(crc[i - 1], LAMBDA c : Crc7Update(c, bytes[i - 1]))
    IN Shl(crc[5], 1, 8) \cup {0}

\* The sixth byte of a command: the CRC of the five before it, and the end bit.
Crc7(token, arg) ==
    LET bytes == [i \in 0 .. 4 |-> IF i = 0 THEN token ELSE Bytes(arg, 4)[i - 1]]
        crc[i \in 0 .. 5] ==
            IF i = 0 THEN {} ELSE Then(crc[i - 1], LAMBDA c : Crc7Update(c, bytes[i - 1]))
    IN Shl(crc[5], 1, 8) \cup {0}

\* One bit and one byte through the loop of crc16_ccitt, and a block of n bytes.
Crc16Shift(reg) ==
    IF 15 \in reg THEN Xor(Shl(reg, 1, 16), {12, 5, 0}) ELSE Shl(reg, 1, 16)

Crc16Update(crc, byte) ==
    LET step[k \in 0 .. 8] ==
            IF k = 0 THEN Xor(crc, Shl(byte, 8, 16))
            ELSE Then(step[k - 1], Crc16Shift)
    IN step[8]

Crc16(bytes, n) ==
    LET crc[i \in 0 .. n] ==
            IF i = 0 THEN {} ELSE Then(crc[i - 1], LAMBDA c : Crc16Update(c, bytes[i - 1]))
    IN crc[n]

-----------------------------------------------------------------------------
(* The reference.  Powers(g, d, m)[k] is x^k modulo a generator g of degree*)
(* d, in rows of twelve.                                                   *)

TimesX(w, g, d) ==
    LET up == {b + 1 : b \in w} IN IF d \in up THEN Xor(up, g) ELSE up

TimesXPower(w, n, g, d) ==
    LET product[j \in 0 .. n] ==
            IF j = 0 THEN w ELSE Then(product[j - 1], LAMBDA p : TimesX(p, g, d))
    IN product[n]

Powers(g, d, m) ==
    LET row[i \in 0 .. m \div 12] ==
            IF i = 0 THEN {0} ELSE Then(row[i - 1], LAMBDA r : TimesXPower(r, 12, g, d))
    IN [k \in 0 .. m |-> TimesXPower(row[k \div 12], k % 12, g, d)]

Powers7 == Powers({7, 3, 0}, 7, 127)
Powers16 == Powers({16, 12, 5, 0}, 16, 143)

\* The remainder of a polynomial: a term stays where an odd number meet.
Remainder(w, powers, d) ==
    {b \in 0 .. d - 1 : Cardinality({k \in w : b \in powers[k]}) % 2 = 1}
=============================================================================
