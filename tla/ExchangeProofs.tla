--------------------------- MODULE ExchangeProofs ---------------------------
(***************************************************************************)
(* Proofs about Exchange: the three transports put the same 48 bits on the *)
(* bus for a command, a card that hears them undamaged obeys exactly what  *)
(* was asked, one that checks them takes no damaged frame for a command,   *)
(* what the driver reads back is what it wrote, what it takes a response   *)
(* for is what the card meant, no answer that arrives undamaged is left    *)
(* without a meaning, and every block a card says it has can be addressed. *)
(***************************************************************************)
EXTENDS Exchange, ChecksumsProofs

-----------------------------------------------------------------------------
(* The bits of shifts and fields.                                          *)

\* Shifted up within n bits.
LEMMA ShlMember ==
    ASSUME NEW w \in SUBSET Int, NEW k \in Int, NEW n \in Int
    PROVE  \A b : b \in Shl(w, k, n) <=> b \in 0 .. n - 1 /\ b - k \in w
BY DEF Shl

\* Shifted down.
LEMMA ShrMember ==
    ASSUME NEW w \in SUBSET Int, NEW k \in Int
    PROVE  \A b : b \in Shr(w, k) <=> b \in Nat /\ b + k \in w
BY DEF Shr

\* A field, with its lowest bit as bit 0.
LEMMA FieldMember ==
    ASSUME NEW w, NEW hi \in Int, NEW lo \in Int
    PROVE  \A b : b \in Field(w, hi, lo) <=> b \in 0 .. hi - lo /\ b + lo \in w
BY DEF Field, Shr

\* The four bytes of an argument.
LEMMA BytesMember ==
    ASSUME NEW arg, NEW i \in 0 .. 3
    PROVE  \A b : b \in Bytes(arg, 4)[i] <=> b \in 0 .. 7 /\ b + 8 * (3 - i) \in arg
<1>1. Bytes(arg, 4)[i] = Field(arg, 8 * (4 - i) - 1, 8 * (4 - i - 1))
  <2>1. i \in 0 .. 4 - 1
    OBVIOUS
  <2> QED
    BY <2>1 DEF Bytes
<1>2. PICK lo \in Int : lo = 8 * (3 - i)
  OBVIOUS
<1>3. 8 * (4 - i) - 1 = lo + 7 /\ 8 * (4 - i - 1) = lo
  BY <1>2
<1>4. (lo + 7) - lo = 7
  OBVIOUS
<1>5. \A b : b \in Field(arg, lo + 7, lo) <=> b \in 0 .. 7 /\ b + lo \in arg
  BY <1>4, FieldMember
<1> QED
  BY <1>1, <1>2, <1>3, <1>5

-----------------------------------------------------------------------------
(* One frame for a command, whoever builds it.                             *)

\* A frame without its checksum and end bit, and the checksum it is to have.
Body(index, arg) == {46} \cup Shl(index \cap 0 .. 5, 40, 48) \cup Shl(arg, 8, 48)
Check(index, arg) == Remainder(Shr(Body(index, arg), 1), Powers7, 7)

\* Where the fields of a frame are.
LEMMA BodyMember ==
    ASSUME NEW index \in SUBSET Int, NEW arg \in Word(32)
    PROVE  \A b : b \in Body(index, arg)
                  <=> \/ b = 46
                      \/ b \in 40 .. 45 /\ b - 40 \in index
                      \/ b \in 8 .. 39 /\ b - 8 \in arg
<1>1. arg \in SUBSET Int /\ arg \subseteq 0 .. 31 /\ index \cap 0 .. 5 \in SUBSET Int
  BY DEF Word
<1>2. \A b : b \in Shl(index \cap 0 .. 5, 40, 48) <=> b \in 40 .. 45 /\ b - 40 \in index
  <2>1. \A b : b \in Shl(index \cap 0 .. 5, 40, 48)
               <=> b \in 0 .. 48 - 1 /\ b - 40 \in index \cap 0 .. 5
    BY <1>1, ShlMember
  <2> QED
    BY <2>1
<1>3. \A b : b \in Shl(arg, 8, 48) <=> b \in 8 .. 39 /\ b - 8 \in arg
  <2>1. \A b : b \in Shl(arg, 8, 48) <=> b \in 0 .. 48 - 1 /\ b - 8 \in arg
    BY <1>1, ShlMember
  <2>2. \A b \in Int : b - 8 \in arg => b \in 8 .. 39
    BY <1>1
  <2> QED
    BY <2>1, <2>2
<1> QED
  BY <1>2, <1>3 DEF Body

\* The checksum has seven bits.
LEMMA CheckIsShort ==
    ASSUME NEW index, NEW arg
    PROVE  Check(index, arg) \subseteq 0 .. 6
<1>1. Check(index, arg) \subseteq 0 .. 7 - 1
  BY RemainderMember DEF Check
<1> QED
  BY <1>1

\* The whole frame.
LEMMA FrameMember ==
    ASSUME NEW index \in SUBSET Int, NEW arg \in Word(32)
    PROVE  \A b : b \in HardwareFrame(index, arg)
                  <=> \/ b \in Body(index, arg)
                      \/ b \in 1 .. 7 /\ b - 1 \in Check(index, arg)
                      \/ b = 0
<1>1. Check(index, arg) \subseteq 0 .. 6
  BY CheckIsShort
<1>2. \A b : b \in Shl(Check(index, arg), 1, 48) <=> b \in 1 .. 7 /\ b - 1 \in Check(index, arg)
  <2>1. Check(index, arg) \in SUBSET Int
    BY <1>1
  <2>2. \A b : b \in Shl(Check(index, arg), 1, 48)
               <=> b \in 0 .. 48 - 1 /\ b - 1 \in Check(index, arg)
    BY <2>1, ShlMember
  <2>3. \A b \in Int : b - 1 \in Check(index, arg) => b \in 1 .. 7
    BY <1>1
  <2> QED
    BY <2>2, <2>3
<1>3. HardwareFrame(index, arg)
      = Body(index, arg) \cup Shl(Check(index, arg), 1, 48) \cup {0}
  BY DEF HardwareFrame, Sealed, Body, Check
<1> QED
  BY <1>2, <1>3

\* The five bytes that the checksum of a command covers, with seven places
\* behind them, are its frame without the last eight bits, and one place up.
LEMMA CoveredIsTheBody ==
    ASSUME NEW index \in SUBSET Int, NEW arg \in Word(32)
    PROVE  Message(Covered(Token(index), arg), 5, 7) = Shr(Body(index, arg), 1)
<1> DEFINE bytes == Covered(Token(index), arg)
           B == Body(index, arg)
<1>1. Token(index) \in Word(8) /\ Token(index) \in SUBSET Int
  BY DEF Token, Word
<1>2. \A q \in 0 .. 4 : bytes[q] \in SUBSET Int
  <2>1. \A q \in 0 .. 4 : bytes[q] \in Word(8)
    BY <1>1, CoveredAreBytes
  <2>2. \A w \in Word(8) : w \in SUBSET Int
    BY DEF Word
  <2> QED
    BY <2>1, <2>2
<1>3. bytes[0] = Token(index) /\ \A q \in 1 .. 4 : bytes[q] = Bytes(arg, 4)[q - 1]
  BY DEF Covered
<1>4. \A q \in 1 .. 4 : \A b : b \in bytes[q] <=> b \in 0 .. 7 /\ b + 8 * (4 - q) \in arg
  <2> TAKE q \in 1 .. 4
  <2>1. q - 1 \in 0 .. 3 /\ 8 * (3 - (q - 1)) = 8 * (4 - q)
    OBVIOUS
  <2>2. \A b : b \in Bytes(arg, 4)[q - 1] <=> b \in 0 .. 7 /\ b + 8 * (3 - (q - 1)) \in arg
    BY <2>1, BytesMember
  <2> QED
    BY <1>3, <2>1, <2>2
<1> HIDE DEF bytes
<1>5. \A b : b \in Message(bytes, 5, 7)
             <=> b \in Int /\ \E q \in 0 .. 4 : b - (8 * (4 - q) + 7) \in bytes[q]
  <2>1. \A q \in 0 .. 4 : \A b : b \in Up(bytes[q], 8 * (5 - 1 - q) + 7)
                                 <=> b \in Int /\ b - (8 * (5 - 1 - q) + 7) \in bytes[q]
    <3>1. \A q \in 0 .. 4 : 8 * (5 - 1 - q) + 7 \in Int
      OBVIOUS
    <3> QED
      BY <1>2, <3>1, UpMember
  <2>2. Message(bytes, 5, 7) = UNION {Up(bytes[q], 8 * (5 - 1 - q) + 7) : q \in 0 .. 4}
    BY DEF Message
  <2>3. \A q \in 0 .. 4 : 8 * (5 - 1 - q) + 7 = 8 * (4 - q) + 7
    OBVIOUS
  <2> QED
    BY <2>1, <2>2, <2>3
<1>6. \A b \in Int : b \in Message(bytes, 5, 7)
                     <=> \/ b - 39 \in Token(index)
                         \/ b \in 7 .. 38 /\ b - 7 \in arg
  <2> TAKE b \in Int
  <2>1. \A q \in 1 .. 4 : b - (8 * (4 - q) + 7) \in bytes[q]
                          <=> b - (8 * (4 - q) + 7) \in 0 .. 7 /\ b - 7 \in arg
    <3> TAKE q \in 1 .. 4
    <3>1. (b - (8 * (4 - q) + 7)) + 8 * (4 - q) = b - 7
      OBVIOUS
    <3> QED
      BY <1>4, <3>1
  <2>2. b - (8 * (4 - 0) + 7) = b - 39
    OBVIOUS
  <2>3. \A q \in 0 .. 4 : q = 0 \/ q \in 1 .. 4
    OBVIOUS
  <2>4. b \in 7 .. 38 <=> \E q \in 1 .. 4 : b - (8 * (4 - q) + 7) \in 0 .. 7
    <3>1. b \in 7 .. 38 => \/ b - (8 * (4 - 4) + 7) \in 0 .. 7
                           \/ b - (8 * (4 - 3) + 7) \in 0 .. 7
                           \/ b - (8 * (4 - 2) + 7) \in 0 .. 7
                           \/ b - (8 * (4 - 1) + 7) \in 0 .. 7
      OBVIOUS
    <3> QED
      BY <3>1
  <2>5. 0 \in 0 .. 4 /\ \A q \in 1 .. 4 : q \in 0 .. 4
    OBVIOUS
  <2> QED
    BY <1>3, <1>5, <2>1, <2>2, <2>3, <2>4, <2>5
<1>7. B \in SUBSET Int
  BY BodyMember
<1>8. \A b : b \in Shr(B, 1) <=> b \in Nat /\ b + 1 \in B
  BY <1>7, ShrMember
<1> HIDE DEF B
<1>9. \A b \in Int : b + 1 \in B <=> \/ b = 45
                                     \/ b \in 39 .. 44 /\ b - 39 \in index
                                     \/ b \in 7 .. 38 /\ b - 7 \in arg
  <2> TAKE b \in Int
  <2>1. /\ b + 1 = 46 <=> b = 45
        /\ b + 1 \in 40 .. 45 <=> b \in 39 .. 44
        /\ b + 1 \in 8 .. 39 <=> b \in 7 .. 38
        /\ (b + 1) - 40 = b - 39 /\ (b + 1) - 8 = b - 7
    OBVIOUS
  <2> QED
    BY <2>1, BodyMember DEF B
<1>10. \A b \in Int : b - 39 \in Token(index) <=> b = 45 \/ (b \in 39 .. 44 /\ b - 39 \in index)
  BY DEF Token
<1>11. \A b \in Int : b \in Message(bytes, 5, 7) <=> b \in Shr(B, 1)
  <2>1. \A b \in Int : b + 1 \in B => b \in Nat
    BY <1>9
  <2> QED
    BY <1>6, <1>8, <1>9, <1>10, <2>1
<1>12. Message(bytes, 5, 7) \subseteq Int /\ Shr(B, 1) \subseteq Int
  BY <1>5, <1>8
<1> QED
  BY <1>11, <1>12 DEF B, bytes

\* The bits of six bytes in a row.
LEMMA SixBytes ==
    ASSUME NEW bytes, \A i \in 0 .. 5 : bytes[i] \in Word(8)
    PROVE  \A b : b \in FromBytes(bytes, 6)
                  <=> b \in Int /\ \E i \in 0 .. 5 : b - 8 * (5 - i) \in bytes[i]
<1>1. \A i \in 0 .. 5 : \A b :
         b \in Shl(bytes[i], 8 * (6 - i - 1), 8 * 6)
         <=> b \in 0 .. 8 * 6 - 1 /\ b - 8 * (6 - i - 1) \in bytes[i]
  <2>1. \A i \in 0 .. 5 : bytes[i] \in SUBSET Int /\ 8 * (6 - i - 1) \in Int
    BY DEF Word
  <2>2. 8 * 6 \in Int
    OBVIOUS
  <2> QED
    BY <2>1, <2>2, ShlMember
<1>2. FromBytes(bytes, 6) = UNION {Shl(bytes[i], 8 * (6 - i - 1), 8 * 6) : i \in 0 .. 5}
  BY DEF FromBytes
<1>3. \A i \in 0 .. 5 : 8 * (6 - i - 1) = 8 * (5 - i)
  OBVIOUS
<1>4. \A i \in 0 .. 5 : \A b \in Int : b - 8 * (5 - i) \in bytes[i] => b \in 0 .. 8 * 6 - 1
  <2>1. \A i \in 0 .. 5 : bytes[i] \subseteq 0 .. 7
    BY DEF Word
  <2>2. \A i \in 0 .. 5 : \A b \in Int : b - 8 * (5 - i) \in 0 .. 7 => b \in 0 .. 8 * 6 - 1
    OBVIOUS
  <2> QED
    BY <2>1, <2>2
<1> QED
  BY <1>1, <1>2, <1>3, <1>4

\* The driver of a card in SPI mode builds the frame that the controllers build
\* (to_spi_bytes and crc7), for every command.
THEOREM OneFrame ==
    ASSUME NEW c, Number(c.cmd) \in SUBSET Int, c.arg \in Word(32)
    PROVE  FromBytes(ToSpiBytes(c), 6) = HardwareFrame(Number(c.cmd), c.arg)
<1> DEFINE index == Number(c.cmd)
           token == Token(index)
           arg == c.arg
           bytes == ToSpiBytes(c)
           check == Check(index, arg)
<1>1. token \in Word(8) /\ token \subseteq 0 .. 6
  BY DEF Token, Word
<1>2. check \subseteq 0 .. 6
  BY CheckIsShort
<1>3. Crc7(token, arg) = Shl(check, 1, 8) \cup {0}
  BY <1>1, Crc7IsTheRemainder, CoveredIsTheBody DEF Check
<1>4. \A b : b \in Shl(check, 1, 8) <=> b \in 1 .. 7 /\ b - 1 \in check
  <2>1. check \in SUBSET Int
    BY <1>2
  <2>2. \A b : b \in Shl(check, 1, 8) <=> b \in 0 .. 8 - 1 /\ b - 1 \in check
    BY <2>1, ShlMember
  <2>3. \A b \in Int : b - 1 \in check => b \in 1 .. 7
    BY <1>2
  <2> QED
    BY <2>2, <2>3
<1>5. bytes[0] = token /\ bytes[5] = Crc7(token, arg)
      /\ \A i \in 1 .. 4 : bytes[i] = Bytes(arg, 4)[i - 1]
  BY DEF ToSpiBytes
<1> HIDE DEF token, arg, bytes, check, index
<1>6. \A i \in 1 .. 4 : \A b : b \in bytes[i] <=> b \in 0 .. 7 /\ b + 8 * (4 - i) \in arg
  <2> TAKE i \in 1 .. 4
  <2>1. i - 1 \in 0 .. 3 /\ 8 * (3 - (i - 1)) = 8 * (4 - i)
    OBVIOUS
  <2>2. \A b : b \in Bytes(arg, 4)[i - 1] <=> b \in 0 .. 7 /\ b + 8 * (3 - (i - 1)) \in arg
    BY <2>1, BytesMember
  <2> QED
    BY <1>5, <2>1, <2>2
<1>7. \A b : b \in bytes[5] <=> \/ b = 0
                                \/ b \in 1 .. 7 /\ b - 1 \in check
  BY <1>3, <1>4, <1>5
<1>8. \A i \in 0 .. 5 : bytes[i] \in Word(8)
  <2>1. \A i \in 0 .. 5 : i = 0 \/ i = 5 \/ i \in 1 .. 4
    OBVIOUS
  <2>2. bytes[5] \subseteq 0 .. 7
    BY <1>7
  <2>3. \A i \in 1 .. 4 : bytes[i] \subseteq 0 .. 7
    BY <1>6
  <2>4. bytes[5] \in Word(8) /\ \A i \in 1 .. 4 : bytes[i] \in Word(8)
    BY <2>2, <2>3 DEF Word
  <2> QED
    BY <1>1, <1>5, <2>1, <2>4
<1>9. \A b : b \in FromBytes(bytes, 6)
             <=> b \in Int /\ \E i \in 0 .. 5 : b - 8 * (5 - i) \in bytes[i]
  BY <1>8, SixBytes
<1>10. ASSUME NEW b \in Int
       PROVE  b \in FromBytes(bytes, 6)
              <=> \/ b = 46
                  \/ b \in 40 .. 45 /\ b - 40 \in index
                  \/ b \in 8 .. 39 /\ b - 8 \in arg
                  \/ b \in 1 .. 7 /\ b - 1 \in check
                  \/ b = 0
  <2>1. b - 8 * (5 - 0) \in bytes[0] <=> \/ b = 46
                                         \/ b \in 40 .. 45 /\ b - 40 \in index
    <3>1. b - 8 * (5 - 0) = b - 40
      OBVIOUS
    <3> QED
      BY <1>5, <3>1 DEF token, Token
  <2>2. b - 8 * (5 - 5) \in bytes[5] <=> \/ b = 0
                                         \/ b \in 1 .. 7 /\ b - 1 \in check
    <3>1. b - 8 * (5 - 5) = b
      OBVIOUS
    <3> QED
      BY <1>7, <3>1
  <2>3. \A i \in 1 .. 4 : b - 8 * (5 - i) \in bytes[i]
                          <=> b - 8 * (5 - i) \in 0 .. 7 /\ b - 8 \in arg
    <3> TAKE i \in 1 .. 4
    <3>1. (b - 8 * (5 - i)) + 8 * (4 - i) = b - 8
      OBVIOUS
    <3> QED
      BY <1>6, <3>1
  <2>4. b \in 8 .. 39 <=> \E i \in 1 .. 4 : b - 8 * (5 - i) \in 0 .. 7
    <3>1. b \in 8 .. 39 => \/ b - 8 * (5 - 4) \in 0 .. 7
                           \/ b - 8 * (5 - 3) \in 0 .. 7
                           \/ b - 8 * (5 - 2) \in 0 .. 7
                           \/ b - 8 * (5 - 1) \in 0 .. 7
      OBVIOUS
    <3> QED
      BY <3>1
  <2>5. 0 \in 0 .. 5 /\ 5 \in 0 .. 5 /\ \A i \in 1 .. 4 : i \in 0 .. 5
    OBVIOUS
  <2>6. \A i \in 0 .. 5 : i = 0 \/ i = 5 \/ i \in 1 .. 4
    OBVIOUS
  <2>7. b \in FromBytes(bytes, 6)
        <=> \/ b - 8 * (5 - 0) \in bytes[0]
            \/ b - 8 * (5 - 5) \in bytes[5]
            \/ \E i \in 1 .. 4 : b - 8 * (5 - i) \in bytes[i]
    BY <1>9, <2>5, <2>6
  <2> QED
    BY <2>1, <2>2, <2>3, <2>4, <2>7
<1>11. index \in SUBSET Int /\ arg \in Word(32)
  BY DEF index, arg
<1>12. \A b : b \in HardwareFrame(index, arg)
              <=> \/ b = 46
                  \/ b \in 40 .. 45 /\ b - 40 \in index
                  \/ b \in 8 .. 39 /\ b - 8 \in arg
                  \/ b \in 1 .. 7 /\ b - 1 \in check
                  \/ b = 0
  <2>1. \A b : b \in HardwareFrame(index, arg)
               <=> \/ b \in Body(index, arg)
                   \/ b \in 1 .. 7 /\ b - 1 \in Check(index, arg)
                   \/ b = 0
    BY <1>11, FrameMember
  <2> QED
    BY <1>11, <2>1, BodyMember DEF check
<1>13. \A b \in Int : b \in FromBytes(bytes, 6) <=> b \in HardwareFrame(index, arg)
  BY <1>10, <1>12
<1>14. FromBytes(bytes, 6) \subseteq Int /\ HardwareFrame(index, arg) \subseteq Int
  BY <1>9, <1>12
<1>15. FromBytes(bytes, 6) = HardwareFrame(index, arg)
  BY <1>13, <1>14
<1> QED
  BY <1>15 DEF bytes, index, arg

\* What a card finds in the frame of a command: start, transmission and end bit,
\* index, argument, and a checksum that is right.
LEMMA FrameFields ==
    ASSUME NEW index \in SUBSET Int, NEW arg \in Word(32)
    PROVE  /\ HardwareFrame(index, arg) \in Word(48)
           /\ 47 \notin HardwareFrame(index, arg)
           /\ 46 \in HardwareFrame(index, arg)
           /\ 0 \in HardwareFrame(index, arg)
           /\ Field(HardwareFrame(index, arg), 45, 40) = index \cap 0 .. 5
           /\ Field(HardwareFrame(index, arg), 39, 8) = arg
           /\ Remainder(Shr(HardwareFrame(index, arg), 1), Powers7, 7) = {}
<1> DEFINE whole == HardwareFrame(index, arg)
           check == Check(index, arg)
           data == Shr(Body(index, arg), 1)
           R(w) == Remainder(w, Powers7, 7)
<1>1. arg \subseteq 0 .. 31 /\ check \subseteq 0 .. 6
  BY CheckIsShort DEF Word
<1>2. \A b : b \in whole <=> \/ b = 46
                             \/ b \in 40 .. 45 /\ b - 40 \in index
                             \/ b \in 8 .. 39 /\ b - 8 \in arg
                             \/ b \in 1 .. 7 /\ b - 1 \in check
                             \/ b = 0
  <2>1. \A b : b \in whole <=> \/ b \in Body(index, arg)
                               \/ b \in 1 .. 7 /\ b - 1 \in check
                               \/ b = 0
    BY FrameMember
  <2> QED
    BY <2>1, BodyMember
<1>3. \A b : b \in data <=> b \in Nat /\ b + 1 \in Body(index, arg)
  <2>1. Body(index, arg) \in SUBSET Int
    BY BodyMember
  <2> QED
    BY <2>1, ShrMember
<1>4. \A b : b \in Body(index, arg) => b \in 8 .. 46
  BY BodyMember
<1>5. data \subseteq 7 .. 45
  BY <1>3, <1>4
<1>6. \A b \in 0 .. 6 : b + 1 \in whole <=> b \in check
  <2>1. \A b \in 0 .. 6 : (b + 1) - 1 = b /\ b + 1 \in 1 .. 7
    OBVIOUS
  <2> QED
    BY <1>2, <2>1
<1>7. \A b \in Nat : b > 6 => (b + 1 \in whole <=> b \in data)
  <2>1. \A b \in Nat : b > 6 => ~(b + 1 \in 1 .. 7) /\ b + 1 # 0
    OBVIOUS
  <2>2. \A b : b \in whole <=> \/ b \in Body(index, arg)
                               \/ b \in 1 .. 7 /\ b - 1 \in check
                               \/ b = 0
    BY FrameMember
  <2> QED
    BY <1>3, <2>1, <2>2
<1> HIDE DEF whole, check, data
<1>8. whole \subseteq 0 .. 47
  BY <1>2
<1>9. Field(whole, 45, 40) = index \cap 0 .. 5
  <2>1. \A b : b \in Field(whole, 45, 40) <=> b \in 0 .. 45 - 40 /\ b + 40 \in whole
    BY FieldMember
  <2>2. \A b \in 0 .. 5 : b + 40 \in whole <=> b \in index
    <3>1. \A b \in 0 .. 5 : (b + 40) - 40 = b /\ b + 40 \in 40 .. 45
      OBVIOUS
    <3> QED
      BY <1>2, <3>1
  <2> QED
    BY <2>1, <2>2
<1>10. Field(whole, 39, 8) = arg
  <2>1. \A b : b \in Field(whole, 39, 8) <=> b \in 0 .. 39 - 8 /\ b + 8 \in whole
    BY FieldMember
  <2>2. \A b \in 0 .. 31 : b + 8 \in whole <=> b \in arg
    <3>1. \A b \in 0 .. 31 : (b + 8) - 8 = b /\ b + 8 \in 8 .. 39
      OBVIOUS
    <3> QED
      BY <1>2, <3>1
  <2>3. 0 .. 39 - 8 = 0 .. 31
    OBVIOUS
  <2>4. \A b : b \in Field(whole, 39, 8) <=> b \in arg
    BY <1>1, <2>1, <2>2, <2>3
  <2> QED
    BY <2>4
<1>11. Shr(whole, 1) = Xor(data, check)
  <2>1. \A b : b \in Shr(whole, 1) <=> b \in Nat /\ b + 1 \in whole
    BY <1>8, ShrMember
  <2>2. \A b \in Nat : b \in Shr(whole, 1) <=> b \in Xor(data, check)
    <3> TAKE b \in Nat
    <3>1. CASE b \in 0 .. 6
      BY <1>5, <1>6, <2>1, <3>1, XorMember
    <3>2. CASE b > 6
      BY <1>1, <1>7, <2>1, <3>2, XorMember
    <3> QED
      BY <3>1, <3>2
  <2>3. Xor(data, check) \subseteq Nat /\ Shr(whole, 1) \subseteq Nat
    BY <1>1, <1>5, <2>1 DEF Xor
  <2> QED
    BY <2>2, <2>3
<1>12. R(Shr(whole, 1)) = {}
  <2>1. IsFiniteSet(data) /\ IsFiniteSet(check)
    <3>1. data \subseteq 0 .. 47 /\ check \subseteq 0 .. 47
      BY <1>1, <1>5
    <3> QED
      BY <3>1, WordsAreFinite
  <2>2. R(Xor(data, check)) = Xor(R(data), R(check))
    BY <2>1, RemainderXor
  <2>3. R(check) = check
    <3>1. PICK m \in Nat : m = 127
      OBVIOUS
    <3>2. Generator(G7, 7)
      BY Generator7
    <3>3. check \subseteq 0 .. 7 - 1 /\ 7 - 1 <= m
      BY <1>1, <3>1
    <3>4. Remainder(check, Powers(G7, 7, m), 7) = check
      BY <3>2, <3>3, RemainderSmall
    <3> QED
      BY <3>1, <3>4 DEF Powers7, G7
  <2>4. R(data) = check
    BY DEF check, data, Check
  <2>5. Xor(check, check) = {}
    BY DEF Xor
  <2> QED
    BY <1>11, <2>2, <2>3, <2>4, <2>5
<1> QED
  BY <1>2, <1>8, <1>9, <1>10, <1>12 DEF whole, Word

\* What strikes a frame breaks its framing or its checksum.
THEOREM NoiseIsNoticed ==
    ASSUME NEW index \in SUBSET Int, NEW arg \in Word(32),
           NEW noise \in Word(48), noise # {}, NEW k \in 0 .. 47, noise \subseteq k .. k + 6,
           NEW struck, struck = Xor(HardwareFrame(index, arg), noise),
           47 \notin struck, 46 \in struck, 0 \in struck
    PROVE  Remainder(Shr(struck, 1), Powers7, 7) # {}
<1> DEFINE whole == HardwareFrame(index, arg)
           R(w) == Remainder(w, Powers7, 7)
           burst == Shr(noise, 1)
<1>1. /\ whole \subseteq 0 .. 47 /\ 47 \notin whole /\ 46 \in whole /\ 0 \in whole
      /\ R(Shr(whole, 1)) = {}
  BY FrameFields DEF Word
<1> HIDE DEF whole
<1>2. noise \subseteq 0 .. 47
  BY DEF Word
<1>3. \A b \in Int : b \in struck <=> ~(b \in whole <=> b \in noise)
  BY XorMember DEF whole
<1>4. 0 \notin noise /\ 46 \notin noise /\ 47 \notin noise
  BY <1>1, <1>3
<1>5. \A b : b \in burst <=> b \in Nat /\ b + 1 \in noise
  BY <1>2, ShrMember
<1>6. \A b : b \in Shr(whole, 1) <=> b \in Nat /\ b + 1 \in whole
  BY <1>1, ShrMember
<1>7. struck \subseteq 0 .. 47
  BY <1>1, <1>2 DEF Xor, whole
<1>8. \A b : b \in Shr(struck, 1) <=> b \in Nat /\ b + 1 \in struck
  BY <1>7, ShrMember
<1> HIDE DEF burst
<1>9. Shr(struck, 1) = Xor(Shr(whole, 1), burst)
  <2>1. \A b \in Nat : b \in Shr(struck, 1) <=> b \in Xor(Shr(whole, 1), burst)
    BY <1>3, <1>5, <1>6, <1>8, XorMember
  <2>2. Shr(struck, 1) \subseteq Nat /\ Xor(Shr(whole, 1), burst) \subseteq Nat
    BY <1>5, <1>6, <1>8 DEF Xor
  <2> QED
    BY <2>1, <2>2
<1>10. Shr(whole, 1) \subseteq 0 .. 47 /\ burst \subseteq 0 .. 47
  BY <1>1, <1>2, <1>5, <1>6
<1>11. R(Xor(Shr(whole, 1), burst)) = Xor(R(Shr(whole, 1)), R(burst))
  <2>1. IsFiniteSet(Shr(whole, 1)) /\ IsFiniteSet(burst)
    BY <1>10, WordsAreFinite
  <2> QED
    BY <2>1, RemainderXor
<1>12. R(burst) # {}
  <2> DEFINE n == IF k = 0 THEN 0 ELSE IF k > 42 THEN 41 ELSE k - 1
  <2>1. n \in Nat /\ n + 6 <= 47
    OBVIOUS
  <2>2. burst \subseteq n .. n + 6
    <3>1. ASSUME NEW b \in burst PROVE b \in n .. n + 6
      <4>1. b \in Nat /\ b + 1 \in noise
        BY <1>5
      <4>2. b + 1 \in k .. k + 6 /\ b + 1 \in 1 .. 45
        <5>1. \A c \in 0 .. 47 : c # 0 /\ c # 46 /\ c # 47 => c \in 1 .. 45
          OBVIOUS
        <5> QED
          BY <1>2, <1>4, <4>1, <5>1
      <4> QED
        BY <4>1, <4>2
    <3> QED
      BY <3>1
  <2>3. burst # {}
    <3>1. PICK b \in noise : TRUE
      OBVIOUS
    <3>2. b - 1 \in Nat /\ (b - 1) + 1 = b
      BY <1>2, <1>4
    <3> QED
      BY <1>5, <3>2
  <2> HIDE DEF n
  <2>4. PICK m \in Nat : m = 127
    OBVIOUS
  <2>5. Generator(G7, 7)
    BY Generator7
  <2>6. burst \subseteq n .. n + 7 - 1 /\ n + 7 - 1 <= m
    BY <2>1, <2>2, <2>4
  <2>7. Remainder(burst, Powers(G7, 7, m), 7) # {}
    BY <2>1, <2>3, <2>5, <2>6, BurstsAreNoticed
  <2> QED
    BY <2>4, <2>7 DEF Powers7, G7
<1> QED
  BY <1>1, <1>9, <1>11, <1>12 DEF Xor

-----------------------------------------------------------------------------
(* Numbers as words.                                                       *)

\* Bit k of a byte as a number.
LEMMA BitsOfAByte ==
    ASSUME NEW v \in 0 .. 255
    PROVE  /\ Number(v) \subseteq 0 .. 7
           /\ 0 \in Number(v) <=> (v \div 1) % 2 = 1
           /\ 1 \in Number(v) <=> (v \div 2) % 2 = 1
           /\ 2 \in Number(v) <=> (v \div 4) % 2 = 1
           /\ 3 \in Number(v) <=> (v \div 8) % 2 = 1
           /\ 4 \in Number(v) <=> (v \div 16) % 2 = 1
           /\ 5 \in Number(v) <=> (v \div 32) % 2 = 1
           /\ 6 \in Number(v) <=> (v \div 64) % 2 = 1
           /\ 7 \in Number(v) <=> (v \div 128) % 2 = 1
<1>1. 8 \notin Number(v) /\ 9 \notin Number(v) /\ 10 \notin Number(v)
     /\ 11 \notin Number(v) /\ 12 \notin Number(v) /\ 13 \notin Number(v)
  BY DEF Number
<1>2. 14 \notin Number(v) /\ 15 \notin Number(v) /\ 16 \notin Number(v)
     /\ 17 \notin Number(v) /\ 18 \notin Number(v) /\ 19 \notin Number(v)
  BY DEF Number
<1>3. 20 \notin Number(v) /\ 21 \notin Number(v) /\ 22 \notin Number(v)
     /\ 23 \notin Number(v) /\ 24 \notin Number(v) /\ 25 \notin Number(v)
  BY DEF Number
<1>4. 26 \notin Number(v) /\ 27 \notin Number(v) /\ 28 \notin Number(v)
     /\ 29 \notin Number(v) /\ 30 \notin Number(v)
  BY DEF Number
<1>5. Number(v) \subseteq 0 .. 30
  BY DEF Number
<1>6. \A b \in 8 .. 13 : b \notin Number(v)
  <2>1. \A b \in 8 .. 13 : b = 8 \/ b = 9 \/ b = 10 \/ b = 11 \/ b = 12 \/ b = 13
    OBVIOUS
  <2> QED
    BY <1>1, <2>1
<1>7. \A b \in 14 .. 19 : b \notin Number(v)
  <2>1. \A b \in 14 .. 19 : b = 14 \/ b = 15 \/ b = 16 \/ b = 17 \/ b = 18 \/ b = 19
    OBVIOUS
  <2> QED
    BY <1>2, <2>1
<1>8. \A b \in 20 .. 25 : b \notin Number(v)
  <2>1. \A b \in 20 .. 25 : b = 20 \/ b = 21 \/ b = 22 \/ b = 23 \/ b = 24 \/ b = 25
    OBVIOUS
  <2> QED
    BY <1>3, <2>1
<1>9. \A b \in 26 .. 30 : b \notin Number(v)
  <2>1. \A b \in 26 .. 30 : b = 26 \/ b = 27 \/ b = 28 \/ b = 29 \/ b = 30
    OBVIOUS
  <2> QED
    BY <1>4, <2>1
<1>10. \A b \in 0 .. 30 : \/ b \in 0 .. 7
                          \/ b \in 8 .. 13
                          \/ b \in 14 .. 19
                          \/ b \in 20 .. 25
                          \/ b \in 26 .. 30
  OBVIOUS
<1>11. Number(v) \subseteq 0 .. 7
  BY <1>5, <1>6, <1>7, <1>8, <1>9, <1>10
<1>12. 0 \in Number(v) <=> (v \div 1) % 2 = 1
  BY DEF Number
<1>13. 1 \in Number(v) <=> (v \div 2) % 2 = 1
  BY DEF Number
<1>14. 2 \in Number(v) <=> (v \div 4) % 2 = 1
  BY DEF Number
<1>15. 3 \in Number(v) <=> (v \div 8) % 2 = 1
  BY DEF Number
<1>16. 4 \in Number(v) <=> (v \div 16) % 2 = 1
  BY DEF Number
<1>17. 5 \in Number(v) <=> (v \div 32) % 2 = 1
  BY DEF Number
<1>18. 6 \in Number(v) <=> (v \div 64) % 2 = 1
  BY DEF Number
<1>19. 7 \in Number(v) <=> (v \div 128) % 2 = 1
  BY DEF Number
<1> QED
  BY <1>11, <1>12, <1>13, <1>14, <1>15, <1>16, <1>17, <1>18, <1>19

\* No other byte has the same bits.
LEMMA NumberOfAByte ==
    ASSUME NEW v \in 0 .. 255
    PROVE  /\ Number(v) \subseteq 0 .. 7
           /\ v \in 0 .. 63 => Number(v) \subseteq 0 .. 5
           /\ \A w \in 0 .. 255 : Number(v) = Number(w) => v = w
<1>1. ASSUME v \in 0 .. 63 PROVE Number(v) \subseteq 0 .. 5
  <2>1. (v \div 64) % 2 = 0 /\ (v \div 128) % 2 = 0
    BY <1>1
  <2>2. 6 \notin Number(v) /\ 7 \notin Number(v) /\ Number(v) \subseteq 0 .. 7
    BY <2>1, BitsOfAByte
  <2> QED
    BY <2>2
<1>2. ASSUME NEW w \in 0 .. 255, Number(v) = Number(w) PROVE v = w
  <2> DEFINE Same(p) == (v \div p) % 2 = 1 <=> (w \div p) % 2 = 1
  <2>1. Same(1)
    <3>1. (0 \in Number(v) <=> (v \div 1) % 2 = 1) /\ (0 \in Number(w) <=> (w \div 1) % 2 = 1)
      BY BitsOfAByte
    <3> QED
      BY <1>2, <3>1
  <2>2. Same(2)
    <3>1. (1 \in Number(v) <=> (v \div 2) % 2 = 1) /\ (1 \in Number(w) <=> (w \div 2) % 2 = 1)
      BY BitsOfAByte
    <3> QED
      BY <1>2, <3>1
  <2>3. Same(4)
    <3>1. (2 \in Number(v) <=> (v \div 4) % 2 = 1) /\ (2 \in Number(w) <=> (w \div 4) % 2 = 1)
      BY BitsOfAByte
    <3> QED
      BY <1>2, <3>1
  <2>4. Same(8)
    <3>1. (3 \in Number(v) <=> (v \div 8) % 2 = 1) /\ (3 \in Number(w) <=> (w \div 8) % 2 = 1)
      BY BitsOfAByte
    <3> QED
      BY <1>2, <3>1
  <2>5. Same(16)
    <3>1. (4 \in Number(v) <=> (v \div 16) % 2 = 1) /\ (4 \in Number(w) <=> (w \div 16) % 2 = 1)
      BY BitsOfAByte
    <3> QED
      BY <1>2, <3>1
  <2>6. Same(32)
    <3>1. (5 \in Number(v) <=> (v \div 32) % 2 = 1) /\ (5 \in Number(w) <=> (w \div 32) % 2 = 1)
      BY BitsOfAByte
    <3> QED
      BY <1>2, <3>1
  <2>7. Same(64)
    <3>1. (6 \in Number(v) <=> (v \div 64) % 2 = 1) /\ (6 \in Number(w) <=> (w \div 64) % 2 = 1)
      BY BitsOfAByte
    <3> QED
      BY <1>2, <3>1
  <2>8. Same(128)
    <3>1. (7 \in Number(v) <=> (v \div 128) % 2 = 1) /\ (7 \in Number(w) <=> (w \div 128) % 2 = 1)
      BY BitsOfAByte
    <3> QED
      BY <1>2, <3>1
  <2>9. v \div 128 = w \div 128
    BY <2>8
  <2>10. v \div 64 = w \div 64
    BY <2>7, <2>9
  <2>11. v \div 32 = w \div 32
    BY <2>6, <2>10
  <2>12. v \div 16 = w \div 16
    BY <2>5, <2>11
  <2>13. v \div 8 = w \div 8
    BY <2>4, <2>12
  <2>14. v \div 4 = w \div 4
    BY <2>3, <2>13
  <2>15. v \div 2 = w \div 2
    BY <2>2, <2>14
  <2>16. v \div 1 = w \div 1
    BY <2>1, <2>15
  <2> QED
    BY <2>16
<1> QED
  BY <1>1, <1>2, BitsOfAByte

-----------------------------------------------------------------------------
(* The table of the operations.                                            *)

\* The bits of a field, from one to the other.
Width(field) == field[1] - field[2] + 1

\* v has a word of the right width for every field.
Fits(v, fields) ==
    /\ v = [i \in DOMAIN fields |-> v[i]]
    /\ \A i \in DOMAIN fields : v[i] \in Word(Width(fields[i]))

\* The operations.
LEMMA OpsOfTheTable ==
    Ops = {"reset", "mmcOpCond", "allSendCid", "mmcAllSendCid", "publishRca", "assignRca",
    "setDsr", "ioOpCond", "accessMode", "busWidth", "switch", "select", "ifCond", "extCsd",
    "csd", "mmcCsd", "cid", "voltage", "stop", "status", "blockLength", "readBlock",
    "readBlocks", "tuning", "mmcTuning", "writeBlock", "writeBlocks", "eraseStart",
    "eraseEnd", "erase", "opCond", "app", "ocr", "ioDirect", "ioExtended"}
BY DEF Ops, Operations

\* Their indices.
LEMMA IndicesOfTheTable ==
    /\ Operations["reset"].index = 0 /\ Operations["mmcOpCond"].index = 1
    /\ Operations["allSendCid"].index = 2 /\ Operations["publishRca"].index = 3
    /\ Operations["assignRca"].index = 3 /\ Operations["setDsr"].index = 4
    /\ Operations["ioOpCond"].index = 5 /\ Operations["accessMode"].index = 6
    /\ Operations["busWidth"].index = 6 /\ Operations["switch"].index = 6
    /\ Operations["select"].index = 7 /\ Operations["ifCond"].index = 8
    /\ Operations["extCsd"].index = 8 /\ Operations["csd"].index = 9
    /\ Operations["cid"].index = 10 /\ Operations["voltage"].index = 11
    /\ Operations["stop"].index = 12 /\ Operations["status"].index = 13
    /\ Operations["blockLength"].index = 16 /\ Operations["readBlock"].index = 17
    /\ Operations["readBlocks"].index = 18 /\ Operations["tuning"].index = 19
    /\ Operations["mmcTuning"].index = 21 /\ Operations["writeBlock"].index = 24
    /\ Operations["writeBlocks"].index = 25 /\ Operations["eraseStart"].index = 32
    /\ Operations["eraseEnd"].index = 33 /\ Operations["erase"].index = 38
    /\ Operations["opCond"].index = 41 /\ Operations["app"].index = 55
    /\ Operations["ocr"].index = 58 /\ Operations["ioDirect"].index = 52
    /\ Operations["ioExtended"].index = 53 /\ Operations["mmcAllSendCid"].index = 2
    /\ Operations["mmcCsd"].index = 9
BY DEF Operations, Operation

\* Which of them CMD55 comes before.
LEMMA AppsOfTheTable ==
    /\ \A op \in Ops \ {"busWidth", "opCond"} : Operations[op].app = FALSE
    /\ Operations["busWidth"].app = TRUE /\ Operations["opCond"].app = TRUE
<1>1. ASSUME NEW op \in Ops, op \notin {"busWidth", "opCond"} PROVE Operations[op].app = FALSE
  BY <1>1, OpsOfTheTable, SMTT(30) DEF Operations, Operation
<1>2. Operations["busWidth"].app = TRUE /\ Operations["opCond"].app = TRUE
  BY DEF Operations, Operation
<1> QED
  BY <1>1, <1>2

\* The cards that know them.
LEMMA KindsOfTheTable ==
    /\ Operations["reset"].kinds = Both /\ Operations["mmcOpCond"].kinds = {"mmc"}
    /\ Operations["allSendCid"].kinds = {"sd"} /\ Operations["publishRca"].kinds = {"sd"}
    /\ Operations["assignRca"].kinds = {"mmc"} /\ Operations["setDsr"].kinds = Both
    /\ Operations["ioOpCond"].kinds = {"sd"} /\ Operations["accessMode"].kinds = {"sd"}
    /\ Operations["busWidth"].kinds = {"sd"} /\ Operations["switch"].kinds = {"mmc"}
    /\ Operations["select"].kinds = Both /\ Operations["ifCond"].kinds = {"sd"}
    /\ Operations["extCsd"].kinds = {"mmc"} /\ Operations["csd"].kinds = {"sd"}
    /\ Operations["cid"].kinds = {"sd"} /\ Operations["voltage"].kinds = {"sd"}
    /\ Operations["stop"].kinds = Both /\ Operations["status"].kinds = Both
    /\ Operations["blockLength"].kinds = Both /\ Operations["readBlock"].kinds = Both
    /\ Operations["readBlocks"].kinds = Both /\ Operations["tuning"].kinds = {"sd"}
    /\ Operations["mmcTuning"].kinds = {"mmc"} /\ Operations["writeBlock"].kinds = Both
    /\ Operations["writeBlocks"].kinds = Both /\ Operations["eraseStart"].kinds = {"sd"}
    /\ Operations["eraseEnd"].kinds = {"sd"} /\ Operations["erase"].kinds = Both
    /\ Operations["opCond"].kinds = {"sd"} /\ Operations["app"].kinds = {"sd"}
    /\ Operations["ocr"].kinds = {"sd"} /\ Operations["ioDirect"].kinds = {"sd"}
    /\ Operations["ioExtended"].kinds = {"sd"} /\ Operations["mmcAllSendCid"].kinds = {"mmc"}
    /\ Operations["mmcCsd"].kinds = {"mmc"}
BY DEF Operations, Operation

\* What an index is taken for is settled by CMD55 and the type of the card.
LEMMA OneOperation ==
    ASSUME NEW op1 \in Ops, NEW op2 \in Ops, NEW type,
           Operations[op1].index = Operations[op2].index,
           Operations[op1].app = Operations[op2].app,
           type \in Operations[op1].kinds, type \in Operations[op2].kinds
    PROVE  op1 = op2
BY OpsOfTheTable, IndicesOfTheTable, AppsOfTheTable, KindsOfTheTable, SMTT(40) DEF Both

\* What a field takes of a filling is a word of the width of the field.
LEMMA FillingsFit ==
    ASSUME NEW fields,
           \A i \in DOMAIN fields : fields[i][1] \in Int /\ fields[i][2] \in Int,
           NEW v \in Samples(fields)
    PROVE  Fits(v, fields)
<1> DEFINE Taken(filling, field) == Field(filling, field[1], field[2])
<1>1. PICK filling \in Fillings : v = [i \in DOMAIN fields |-> Taken(filling, fields[i])]
  BY DEF Samples
<1>2. ASSUME NEW i \in DOMAIN fields PROVE Taken(filling, fields[i]) \in Word(Width(fields[i]))
  <2>1. PICK hi \in Int, lo \in Int : hi = fields[i][1] /\ lo = fields[i][2]
    OBVIOUS
  <2>2. \A b : b \in Field(filling, hi, lo) <=> b \in 0 .. hi - lo /\ b + lo \in filling
    BY FieldMember
  <2>3. Width(fields[i]) - 1 = hi - lo
    BY <2>1 DEF Width
  <2> QED
    BY <2>1, <2>2, <2>3 DEF Word
<1> HIDE DEF Taken
<1>3. \A i \in DOMAIN fields : v[i] = Taken(filling, fields[i])
  BY <1>1
<1>4. v = [i \in DOMAIN fields |-> v[i]]
  BY <1>1
<1> QED
  BY <1>2, <1>3, <1>4 DEF Fits

-----------------------------------------------------------------------------
(* What every constructor of cmd.rs makes of its values.                   *)

\* The response that the driver waits for.
Expected(op, link) == IF op = "opCond" /\ link = "spi" THEN "R1" ELSE Operations[op].resp

\* The command of an operation has its index, and each value in its field.
Encodes(op, v, kind, link) ==
    /\ Sent(op, v, kind, link).cmd = Operations[op].index
    /\ Sent(op, v, kind, link).arg \in Word(32)
    /\ Meaning(op, kind, Sent(op, v, kind, link).arg) = [op |-> op, values |-> v]
    /\ Sent(op, v, kind, link).resp = Expected(op, link)

\* The index and the response of an operation, with an argument.
Carries(op, v, kind, link, arg) ==
    /\ Sent(op, v, kind, link).cmd = Operations[op].index
    /\ Sent(op, v, kind, link).resp = Operations[op].resp
    /\ Sent(op, v, kind, link).arg = arg

\* A field that holds a word reads as the word.
LEMMA FieldHolds ==
    ASSUME NEW hi \in 0 .. 31, NEW lo \in 0 .. hi, NEW w \in Word(hi - lo + 1), NEW arg,
           \A b \in lo .. hi : b \in arg <=> b - lo \in w
    PROVE  Field(arg, hi, lo) = w
<1>1. \A b : b \in Field(arg, hi, lo) <=> b \in 0 .. hi - lo /\ b + lo \in arg
  BY FieldMember
<1>2. \A b \in 0 .. hi - lo : b + lo \in arg <=> b \in w
  <2>1. \A b \in 0 .. hi - lo : b + lo \in lo .. hi /\ (b + lo) - lo = b
    OBVIOUS
  <2> QED
    BY <2>1
<1>3. w \subseteq 0 .. hi - lo
  BY DEF Word
<1>4. \A b : b \in Field(arg, hi, lo) <=> b \in w
  BY <1>1, <1>2, <1>3
<1> QED
  BY <1>4

\* Fields that hold their values mean them.
LEMMA FieldsMean ==
    ASSUME NEW op, NEW kind, NEW arg, NEW v, Fits(v, Fields(op, kind)),
           \A i \in DOMAIN Fields(op, kind) :
               Field(arg, Fields(op, kind)[i][1], Fields(op, kind)[i][2]) = v[i]
    PROVE  Meaning(op, kind, arg) = [op |-> op, values |-> v]
BY DEF Meaning, Fits

Plain == {"reset", "allSendCid", "mmcAllSendCid", "publishRca", "ioOpCond", "extCsd", "voltage",
          "stop", "tuning", "mmcTuning", "erase", "ocr"}

\* Commands without an argument.
LEMMA PlainCommands ==
    ASSUME NEW op \in Plain, NEW kind, NEW link, NEW v \in Values(op, kind)
    PROVE  Encodes(op, v, kind, link)
<1>1. Fields(op, kind) = <<>>
  <2>1. /\ Fields("reset", kind) = <<>>
        /\ Fields("allSendCid", kind) = <<>>
        /\ Fields("mmcAllSendCid", kind) = <<>>
        /\ Fields("publishRca", kind) = <<>>
        /\ Fields("ioOpCond", kind) = <<>>
        /\ Fields("extCsd", kind) = <<>>
        /\ Fields("voltage", kind) = <<>>
        /\ Fields("stop", kind) = <<>>
        /\ Fields("tuning", kind) = <<>>
        /\ Fields("mmcTuning", kind) = <<>>
        /\ Fields("erase", kind) = <<>>
        /\ Fields("ocr", kind) = <<>>
    BY DEF Fields, Operations, Operation, BlockOps
  <2> QED
    BY <2>1 DEF Plain
<1>2. Values(op, kind) = Samples(<<>>)
  BY <1>1 DEF Values, Plain
<1>3. Fits(v, <<>>)
  BY <1>2, FillingsFit
<1>4. Carries(op, v, kind, link, {})
  <2>1. /\ Carries("reset", v, kind, link, {})
        /\ Carries("allSendCid", v, kind, link, {})
        /\ Carries("mmcAllSendCid", v, kind, link, {})
        /\ Carries("publishRca", v, kind, link, {})
        /\ Carries("ioOpCond", v, kind, link, {})
        /\ Carries("extCsd", v, kind, link, {})
        /\ Carries("voltage", v, kind, link, {})
        /\ Carries("stop", v, kind, link, {})
        /\ Carries("tuning", v, kind, link, {})
        /\ Carries("mmcTuning", v, kind, link, {})
        /\ Carries("erase", v, kind, link, {})
        /\ Carries("ocr", v, kind, link, {})
    BY DEF Carries, Sent, Operations, Operation, Command, CMD0, CMD2, CMD3Sd, CMD5, CMD8Mmc, CMD11,
           CMD12, CMD19, CMD21, CMD38, CMD58
  <2> QED
    BY <2>1 DEF Plain
<1>5. Meaning(op, kind, {}) = [op |-> op, values |-> v]
  BY <1>1, <1>3, FieldsMean
<1> QED
  BY <1>4, <1>5 DEF Encodes, Carries, Expected, Plain, Word

Relative == {"assignRca", "setDsr", "select", "csd", "mmcCsd", "cid", "status", "app"}

\* Commands with an address of sixteen bits.
LEMMA RelativeCommands ==
    ASSUME NEW op \in Relative, NEW kind, NEW link, NEW v \in Values(op, kind)
    PROVE  Encodes(op, v, kind, link)
<1>1. Fields(op, kind) = <<<<31, 16>>>>
  <2>1. /\ Fields("assignRca", kind) = <<<<31, 16>>>>
        /\ Fields("setDsr", kind) = <<<<31, 16>>>>
        /\ Fields("select", kind) = <<<<31, 16>>>>
        /\ Fields("csd", kind) = <<<<31, 16>>>>
        /\ Fields("mmcCsd", kind) = <<<<31, 16>>>>
        /\ Fields("cid", kind) = <<<<31, 16>>>>
        /\ Fields("status", kind) = <<<<31, 16>>>>
        /\ Fields("app", kind) = <<<<31, 16>>>>
    BY DEF Fields, Operations, Operation, BlockOps, Rca
  <2> QED
    BY <2>1 DEF Relative
<1>2. Values(op, kind) = Samples(<<<<31, 16>>>>)
  BY <1>1 DEF Values, Relative
<1>3. Fits(v, <<<<31, 16>>>>)
  <2>1. \A i \in DOMAIN <<<<31, 16>>>> : <<<<31, 16>>>>[i][1] \in Int /\ <<<<31, 16>>>>[i][2] \in Int
    OBVIOUS
  <2> QED
    BY <1>2, <2>1, FillingsFit
<1>4. v[1] \in Word(16)
  BY <1>3 DEF Fits, Width
<1>5. Carries(op, v, kind, link, Shl(v[1], 16, 32))
  <2>1. /\ Carries("assignRca", v, kind, link, Shl(v[1], 16, 32))
        /\ Carries("setDsr", v, kind, link, Shl(v[1], 16, 32))
        /\ Carries("select", v, kind, link, Shl(v[1], 16, 32))
        /\ Carries("csd", v, kind, link, Shl(v[1], 16, 32))
        /\ Carries("mmcCsd", v, kind, link, Shl(v[1], 16, 32))
        /\ Carries("cid", v, kind, link, Shl(v[1], 16, 32))
        /\ Carries("status", v, kind, link, Shl(v[1], 16, 32))
        /\ Carries("app", v, kind, link, Shl(v[1], 16, 32))
    BY DEF Carries, Sent, Operations, Operation, Command, Addressed, Cmd3Mmc, Cmd4, Cmd7, Cmd9,
           Cmd10,
           Cmd13, Cmd55
  <2> QED
    BY <2>1 DEF Relative
<1>6. \A b : b \in Shl(v[1], 16, 32) <=> b \in 0 .. 32 - 1 /\ b - 16 \in v[1]
  <2>1. v[1] \in SUBSET Int
    BY <1>4 DEF Word
  <2> QED
    BY <2>1, ShlMember
<1>7. Field(Shl(v[1], 16, 32), 31, 16) = v[1]
  <2>1. 31 \in 0 .. 31 /\ 16 \in 0 .. 31 /\ v[1] \in Word(31 - 16 + 1)
    BY <1>4
  <2>2. \A b \in 16 .. 31 : b \in Shl(v[1], 16, 32) <=> b - 16 \in v[1]
    BY <1>6
  <2> QED
    BY <2>1, <2>2, FieldHolds
<1>8. Meaning(op, kind, Shl(v[1], 16, 32)) = [op |-> op, values |-> v]
  BY <1>1, <1>3, <1>7, FieldsMean
<1>9. Shl(v[1], 16, 32) \in Word(32)
  BY <1>6 DEF Word
<1> QED
  BY <1>5, <1>8, <1>9 DEF Encodes, Carries, Expected, Relative

\* Commands with a word, or the number of a block on a card that counts blocks.
LEMMA WholeCommands ==
    ASSUME NEW op, NEW kind, NEW link,
           \/ op \in {"mmcOpCond", "blockLength"}
           \/ op \in BlockOps /\ kind.highCapacity,
           NEW v \in Values(op, kind)
    PROVE  Encodes(op, v, kind, link)
<1>1. Fields(op, kind) = <<<<31, 0>>>>
  <2>1. /\ Operations["mmcOpCond"].fields = <<<<31, 0>>>>
        /\ Operations["blockLength"].fields = <<<<31, 0>>>>
        /\ Operations["readBlock"].fields = <<<<31, 0>>>>
        /\ Operations["readBlocks"].fields = <<<<31, 0>>>>
        /\ Operations["writeBlock"].fields = <<<<31, 0>>>>
        /\ Operations["writeBlocks"].fields = <<<<31, 0>>>>
        /\ Operations["eraseStart"].fields = <<<<31, 0>>>>
        /\ Operations["eraseEnd"].fields = <<<<31, 0>>>>
    BY DEF Operations, Operation, Whole
  <2> QED
    BY <2>1 DEF Fields, BlockOps
<1>2. Values(op, kind) = Samples(<<<<31, 0>>>>)
  BY <1>1 DEF Values, BlockOps
<1>3. Fits(v, <<<<31, 0>>>>)
  <2>1. \A i \in DOMAIN <<<<31, 0>>>> : <<<<31, 0>>>>[i][1] \in Int /\ <<<<31, 0>>>>[i][2] \in Int
    OBVIOUS
  <2> QED
    BY <1>2, <2>1, FillingsFit
<1>4. v[1] \in Word(32)
  BY <1>3 DEF Fits, Width
<1>5. Carries(op, v, kind, link, v[1])
  <2>1. /\ Carries("mmcOpCond", v, kind, link, v[1])
        /\ Carries("blockLength", v, kind, link, v[1])
    BY DEF Carries, Sent, Operations, Operation, Command, Cmd1, Cmd16
  <2>2. ASSUME kind.highCapacity
        PROVE  /\ Carries("readBlock", v, kind, link, v[1])
               /\ Carries("readBlocks", v, kind, link, v[1])
               /\ Carries("writeBlock", v, kind, link, v[1])
               /\ Carries("writeBlocks", v, kind, link, v[1])
               /\ Carries("eraseStart", v, kind, link, v[1])
               /\ Carries("eraseEnd", v, kind, link, v[1])
    BY <2>2 DEF Carries, Sent, Operations, Operation, Command, Cmd17, Cmd18, Cmd24, Cmd25, Cmd32,
                Cmd33, BlockAddrOf
  <2> QED
    BY <2>1, <2>2 DEF BlockOps
<1>6. Field(v[1], 31, 0) = v[1]
  <2>1. 31 \in 0 .. 31 /\ 0 \in 0 .. 31 /\ v[1] \in Word(31 - 0 + 1)
    BY <1>4
  <2>2. \A b \in 0 .. 31 : b \in v[1] <=> b - 0 \in v[1]
    OBVIOUS
  <2> QED
    BY <2>1, <2>2, FieldHolds
<1>7. Meaning(op, kind, v[1]) = [op |-> op, values |-> v]
  BY <1>1, <1>3, <1>6, FieldsMean
<1> QED
  BY <1>4, <1>5, <1>7 DEF Encodes, Carries, Expected, BlockOps

\* Commands with the number of a block, on a card that counts bytes.
LEMMA ByteCommands ==
    ASSUME NEW op \in BlockOps, NEW kind, NEW link, ~kind.highCapacity, NEW v \in Values(op, kind)
    PROVE  Encodes(op, v, kind, link)
<1>1. Fields(op, kind) = <<<<31, 9>>>>
  BY DEF Fields
<1>2. Values(op, kind) = Samples(<<<<31, 9>>>>)
  BY <1>1 DEF Values, BlockOps
<1>3. Fits(v, <<<<31, 9>>>>)
  <2>1. \A i \in DOMAIN <<<<31, 9>>>> : <<<<31, 9>>>>[i][1] \in Int /\ <<<<31, 9>>>>[i][2] \in Int
    OBVIOUS
  <2> QED
    BY <1>2, <2>1, FillingsFit
<1>4. v[1] \in Word(23)
  BY <1>3 DEF Fits, Width
<1>5. Carries(op, v, kind, link, Shl(v[1], 9, 32))
  <2>1. /\ Carries("readBlock", v, kind, link, Shl(v[1], 9, 32))
        /\ Carries("readBlocks", v, kind, link, Shl(v[1], 9, 32))
        /\ Carries("writeBlock", v, kind, link, Shl(v[1], 9, 32))
        /\ Carries("writeBlocks", v, kind, link, Shl(v[1], 9, 32))
        /\ Carries("eraseStart", v, kind, link, Shl(v[1], 9, 32))
        /\ Carries("eraseEnd", v, kind, link, Shl(v[1], 9, 32))
    BY DEF Carries, Sent, Operations, Operation, Command, Cmd17, Cmd18, Cmd24, Cmd25, Cmd32, Cmd33,
           BlockAddrOf
  <2> QED
    BY <2>1 DEF BlockOps
<1>6. \A b : b \in Shl(v[1], 9, 32) <=> b \in 0 .. 32 - 1 /\ b - 9 \in v[1]
  <2>1. v[1] \in SUBSET Int
    BY <1>4 DEF Word
  <2> QED
    BY <2>1, ShlMember
<1>7. Field(Shl(v[1], 9, 32), 31, 9) = v[1]
  <2>1. 31 \in 0 .. 31 /\ 9 \in 0 .. 31 /\ v[1] \in Word(31 - 9 + 1)
    BY <1>4
  <2>2. \A b \in 9 .. 31 : b \in Shl(v[1], 9, 32) <=> b - 9 \in v[1]
    BY <1>6
  <2> QED
    BY <2>1, <2>2, FieldHolds
<1>8. Meaning(op, kind, Shl(v[1], 9, 32)) = [op |-> op, values |-> v]
  BY <1>1, <1>3, <1>7, FieldsMean
<1>9. Shl(v[1], 9, 32) \in Word(32)
  BY <1>6 DEF Word
<1> QED
  BY <1>5, <1>8, <1>9 DEF Encodes, Carries, Expected, BlockOps

\* What is switched on an MMC card: the access, the index and the value.
LEMMA SwitchValues ==
    ASSUME NEW kind, NEW v \in Values("switch", kind)
    PROVE  \E a \in Word(2), i \in Word(8), x \in Word(8) : v = <<a, i, x>>
<1>1. Number(3) \in Word(2)
  <2>1. Number(3) \subseteq 0 .. 7
    BY BitsOfAByte
  <2>2. /\ 2 \notin Number(3) /\ 3 \notin Number(3) /\ 4 \notin Number(3)
        /\ 5 \notin Number(3) /\ 6 \notin Number(3) /\ 7 \notin Number(3)
    BY DEF Number
  <2>3. Number(3) \subseteq 0 .. 1
    BY <2>1, <2>2
  <2> QED
    BY <2>3 DEF Word
<1>2. \A n \in 0 .. 255 : Number(n) \in Word(8)
  BY BitsOfAByte DEF Word
<1>3. ASSUME NEW n \in 0 .. 255, NEW m \in 0 .. 255, v = WriteByte(n, m)
      PROVE  \E a \in Word(2), i \in Word(8), x \in Word(8) : v = <<a, i, x>>
  <2>1. Number(n) \in Word(8) /\ Number(m) \in Word(8)
    BY <1>2
  <2> QED
    BY <1>1, <1>3, <2>1 DEF WriteByte
<1>4. \A w \in DOMAIN Widths : Widths[w] \in 0 .. 255
  BY DEF Widths
<1>5. \A t \in DOMAIN Timings : Timings[t] \in 0 .. 255
  BY DEF Timings
<1>6. {} \in Word(2) /\ Ones(1) \in Word(2) /\ {} \in Word(8) /\ Ones(8) \in Word(8)
  BY DEF Ones, Word
<1>7. \/ \E w \in DOMAIN Widths : v = WriteByte(183, Widths[w])
      \/ \E t \in DOMAIN Timings : v = WriteByte(185, Timings[t])
      \/ v = <<Ones(1), Ones(8), {}>>
      \/ v = <<{}, {}, Ones(8)>>
  BY DEF Values
<1>8. CASE \E w \in DOMAIN Widths : v = WriteByte(183, Widths[w])
  <2>1. 183 \in 0 .. 255
    OBVIOUS
  <2> QED
    BY <1>3, <1>4, <1>8, <2>1
<1>9. CASE \E t \in DOMAIN Timings : v = WriteByte(185, Timings[t])
  <2>1. 185 \in 0 .. 255
    OBVIOUS
  <2> QED
    BY <1>3, <1>5, <1>9, <2>1
<1>10. CASE v = <<Ones(1), Ones(8), {}>> \/ v = <<{}, {}, Ones(8)>>
  BY <1>6, <1>10
<1> QED
  BY <1>7, <1>8, <1>9, <1>10

\* SWITCH of an MMC card.
LEMMA SwitchCommand ==
    ASSUME NEW kind, NEW link, NEW v \in Values("switch", kind)
    PROVE  Encodes("switch", v, kind, link)
<1>1. PICK a \in Word(2), i \in Word(8), x \in Word(8) : v = <<a, i, x>>
  BY SwitchValues
<1>2. Fields("switch", kind) = <<<<25, 24>>, <<23, 16>>, <<15, 8>>>>
  BY DEF Fields, BlockOps, Operations, Operation
<1>3. Fits(v, <<<<25, 24>>, <<23, 16>>, <<15, 8>>>>)
  BY <1>1 DEF Fits, Width
<1> DEFINE arg == Shl(a, 24, 32) \cup Shl(i, 16, 32) \cup Shl(x, 8, 32)
<1>4. Carries("switch", v, kind, link, arg)
  BY <1>1 DEF Carries, Sent, Operations, Operation, Command, Cmd6MmcSwitch
<1>5. a \subseteq 0 .. 1 /\ i \subseteq 0 .. 7 /\ x \subseteq 0 .. 7
  BY DEF Word
<1>6. \A b : b \in arg <=> b \in 0 .. 31 /\ \/ b - 24 \in a
                                            \/ b - 16 \in i
                                            \/ b - 8 \in x
  <2>1. \A b : b \in Shl(a, 24, 32) <=> b \in 0 .. 32 - 1 /\ b - 24 \in a
    BY <1>5, ShlMember
  <2>2. \A b : b \in Shl(i, 16, 32) <=> b \in 0 .. 32 - 1 /\ b - 16 \in i
    BY <1>5, ShlMember
  <2>3. \A b : b \in Shl(x, 8, 32) <=> b \in 0 .. 32 - 1 /\ b - 8 \in x
    BY <1>5, ShlMember
  <2> QED
    BY <2>1, <2>2, <2>3
<1> HIDE DEF arg
<1>7. Field(arg, 25, 24) = a
  <2>1. 25 \in 0 .. 31 /\ 24 \in 0 .. 25 /\ a \in Word(25 - 24 + 1)
    OBVIOUS
  <2>2. \A b \in 24 .. 25 : b \in arg <=> b - 24 \in a
    BY <1>5, <1>6
  <2> QED
    BY <2>1, <2>2, FieldHolds
<1>8. Field(arg, 23, 16) = i
  <2>1. 23 \in 0 .. 31 /\ 16 \in 0 .. 23 /\ i \in Word(23 - 16 + 1)
    OBVIOUS
  <2>2. \A b \in 16 .. 23 : b \in arg <=> b - 16 \in i
    BY <1>5, <1>6
  <2> QED
    BY <2>1, <2>2, FieldHolds
<1>9. Field(arg, 15, 8) = x
  <2>1. 15 \in 0 .. 31 /\ 8 \in 0 .. 15 /\ x \in Word(15 - 8 + 1)
    OBVIOUS
  <2>2. \A b \in 8 .. 15 : b \in arg <=> b - 8 \in x
    BY <1>5, <1>6
  <2> QED
    BY <2>1, <2>2, FieldHolds
<1>10. Meaning("switch", kind, arg) = [op |-> "switch", values |-> v]
  BY <1>1, <1>2, <1>3, <1>7, <1>8, <1>9, FieldsMean
<1>11. arg \in Word(32)
  BY <1>6 DEF Word
<1> QED
  BY <1>4, <1>10, <1>11 DEF Encodes, Carries, Expected

\* SWITCH_FUNC of an SD card: every group but the first keeps its function.
LEMMA AccessModeCommand ==
    ASSUME NEW kind, NEW link, NEW v \in Values("accessMode", kind)
    PROVE  Encodes("accessMode", v, kind, link)
<1>1. PICK s \in Word(1), f \in Word(4) : v = <<s, Ones(20), f>>
  <2>1. PICK s \in {{}, {0}}, f \in SUBSET Ones(3) : v = <<s, Ones(20), f>>
    BY DEF Values
  <2>2. s \in Word(1) /\ f \in Word(4)
    BY DEF Word, Ones
  <2> QED
    BY <2>1, <2>2
<1>2. Fields("accessMode", kind) = <<<<31, 31>>, <<23, 4>>, <<3, 0>>>>
  BY DEF Fields, BlockOps, Operations, Operation
<1>3. Fits(v, <<<<31, 31>>, <<23, 4>>, <<3, 0>>>>)
  <2>1. Ones(20) \in Word(20)
    BY DEF Ones, Word
  <2> QED
    BY <1>1, <2>1 DEF Fits, Width
<1> DEFINE arg == Shl(s, 31, 32) \cup 4 .. 23 \cup (f \cap 0 .. 3)
<1>4. Carries("accessMode", v, kind, link, arg)
  BY <1>1 DEF Carries, Sent, Operations, Operation, Command, Cmd6SdAccessMode
<1>5. s \subseteq 0 .. 0 /\ f \subseteq 0 .. 3
  BY DEF Word
<1>6. \A b : b \in arg <=> \/ b = 31 /\ 0 \in s
                           \/ b \in 4 .. 23
                           \/ b \in 0 .. 3 /\ b \in f
  <2>1. \A b : b \in Shl(s, 31, 32) <=> b \in 0 .. 32 - 1 /\ b - 31 \in s
    BY <1>5, ShlMember
  <2>2. \A b \in 0 .. 32 - 1 : b - 31 \in s <=> b = 31 /\ 0 \in s
    <3>1. \A b \in 0 .. 32 - 1 : b - 31 \in 0 .. 0 <=> b = 31
      OBVIOUS
    <3>2. 31 - 31 = 0
      OBVIOUS
    <3> QED
      BY <1>5, <3>1, <3>2
  <2> QED
    BY <2>1, <2>2
<1> HIDE DEF arg
<1>7. Field(arg, 31, 31) = s
  <2>1. 31 \in 0 .. 31 /\ 31 \in 0 .. 31 /\ s \in Word(31 - 31 + 1)
    OBVIOUS
  <2>2. \A b \in 31 .. 31 : b \in arg <=> b - 31 \in s
    BY <1>5, <1>6
  <2> QED
    BY <2>1, <2>2, FieldHolds
<1>8. Field(arg, 23, 4) = Ones(20)
  <2>1. 23 \in 0 .. 31 /\ 4 \in 0 .. 23 /\ Ones(20) \in Word(23 - 4 + 1)
    BY DEF Ones, Word
  <2>2. \A b \in 4 .. 23 : b \in arg <=> b - 4 \in Ones(20)
    BY <1>6 DEF Ones
  <2> QED
    BY <2>1, <2>2, FieldHolds
<1>9. Field(arg, 3, 0) = f
  <2>1. 3 \in 0 .. 31 /\ 0 \in 0 .. 3 /\ f \in Word(3 - 0 + 1)
    OBVIOUS
  <2>2. \A b \in 0 .. 3 : b \in arg <=> b - 0 \in f
    BY <1>5, <1>6
  <2> QED
    BY <2>1, <2>2, FieldHolds
<1>10. Meaning("accessMode", kind, arg) = [op |-> "accessMode", values |-> v]
  BY <1>1, <1>2, <1>3, <1>7, <1>8, <1>9, FieldsMean
<1>11. arg \in Word(32)
  BY <1>6 DEF Word
<1> QED
  BY <1>4, <1>10, <1>11 DEF Encodes, Carries, Expected

\* SET_BUS_WIDTH of an SD card.
LEMMA BusWidthCommand ==
    ASSUME NEW kind, NEW link, NEW v \in Values("busWidth", kind)
    PROVE  Encodes("busWidth", v, kind, link)
<1>1. PICK w \in Word(2) : v = <<w>>
  <2>1. v = <<{}>> \/ v = <<{1}>>
    BY DEF Values
  <2>2. {} \in Word(2) /\ {1} \in Word(2)
    BY DEF Word
  <2> QED
    BY <2>1, <2>2
<1>2. Fields("busWidth", kind) = <<<<1, 0>>>>
  BY DEF Fields, BlockOps, Operations, Operation
<1>3. Fits(v, <<<<1, 0>>>>)
  BY <1>1 DEF Fits, Width
<1>4. Carries("busWidth", v, kind, link, w)
  BY <1>1 DEF Carries, Sent, Operations, Operation, Command, Cmd6
<1>5. Field(w, 1, 0) = w
  <2>1. 1 \in 0 .. 31 /\ 0 \in 0 .. 1 /\ w \in Word(1 - 0 + 1)
    OBVIOUS
  <2>2. \A b \in 0 .. 1 : b \in w <=> b - 0 \in w
    OBVIOUS
  <2> QED
    BY <2>1, <2>2, FieldHolds
<1>6. Meaning("busWidth", kind, w) = [op |-> "busWidth", values |-> v]
  BY <1>1, <1>2, <1>3, <1>5, FieldsMean
<1>7. w \in Word(32)
  BY DEF Word
<1> QED
  BY <1>4, <1>6, <1>7 DEF Encodes, Carries, Expected

\* SEND_IF_COND: the voltage and the check pattern.
LEMMA IfCondCommand ==
    ASSUME NEW kind, NEW link, NEW v \in Values("ifCond", kind)
    PROVE  Encodes("ifCond", v, kind, link)
<1>1. PICK s \in Word(4), p \in Word(8) : v = <<s, p>>
  <2>1. v = <<{0}, {7, 5, 3, 1}>>
    BY DEF Values
  <2>2. {0} \in Word(4) /\ {7, 5, 3, 1} \in Word(8)
    BY DEF Word
  <2> QED
    BY <2>1, <2>2
<1>2. Fields("ifCond", kind) = <<<<11, 8>>, <<7, 0>>>>
  BY DEF Fields, BlockOps, Operations, Operation
<1>3. Fits(v, <<<<11, 8>>, <<7, 0>>>>)
  BY <1>1 DEF Fits, Width
<1> DEFINE arg == Shl(s, 8, 32) \cup p
<1>4. Carries("ifCond", v, kind, link, arg)
  BY <1>1 DEF Carries, Sent, Operations, Operation, Command, Cmd8
<1>5. s \subseteq 0 .. 3 /\ p \subseteq 0 .. 7
  BY DEF Word
<1>6. \A b : b \in arg <=> b \in 0 .. 31 /\ (b - 8 \in s \/ b \in p)
  <2>1. \A b : b \in Shl(s, 8, 32) <=> b \in 0 .. 32 - 1 /\ b - 8 \in s
    BY <1>5, ShlMember
  <2>2. p \subseteq 0 .. 31 /\ 0 .. 32 - 1 = 0 .. 31
    BY <1>5
  <2> QED
    BY <2>1, <2>2
<1> HIDE DEF arg
<1>7. Field(arg, 11, 8) = s
  <2>1. 11 \in 0 .. 31 /\ 8 \in 0 .. 11 /\ s \in Word(11 - 8 + 1)
    OBVIOUS
  <2>2. \A b \in 8 .. 11 : b \in arg <=> b - 8 \in s
    BY <1>5, <1>6
  <2> QED
    BY <2>1, <2>2, FieldHolds
<1>8. Field(arg, 7, 0) = p
  <2>1. 7 \in 0 .. 31 /\ 0 \in 0 .. 7 /\ p \in Word(7 - 0 + 1)
    OBVIOUS
  <2>2. \A b \in 0 .. 7 : b \in arg <=> b - 0 \in p
    BY <1>5, <1>6
  <2> QED
    BY <2>1, <2>2, FieldHolds
<1>9. Meaning("ifCond", kind, arg) = [op |-> "ifCond", values |-> v]
  BY <1>1, <1>2, <1>3, <1>7, <1>8, FieldsMean
<1>10. arg \in Word(32)
  BY <1>6 DEF Word
<1> QED
  BY <1>4, <1>9, <1>10 DEF Encodes, Carries, Expected

\* SD_SEND_OP_COND, whose response the driver of SPI mode changes to R1.
LEMMA OpCondCommand ==
    ASSUME NEW kind, NEW link, NEW v \in Values("opCond", kind)
    PROVE  Encodes("opCond", v, kind, link)
<1>1. Fields("opCond", kind) = <<<<30, 30>>, <<23, 15>>, <<24, 24>>>>
  BY DEF Fields, BlockOps, Operations, Operation
<1>2. Values("opCond", kind) = Samples(<<<<30, 30>>, <<23, 15>>, <<24, 24>>>>)
  BY <1>1 DEF Values
<1>3. Fits(v, <<<<30, 30>>, <<23, 15>>, <<24, 24>>>>)
  <2>1. \A i \in DOMAIN <<<<30, 30>>, <<23, 15>>, <<24, 24>>>> :
           <<<<30, 30>>, <<23, 15>>, <<24, 24>>>>[i][1] \in Int /\ <<<<30, 30>>, <<23, 15>>, <<24, 24>>>>[i][2] \in Int
    OBVIOUS
  <2> QED
    BY <1>2, <2>1, FillingsFit
<1> DEFINE h == v[1]
           w == v[2]
           s == v[3]
           arg == Shl(h, 30, 32) \cup Shl(s, 24, 32) \cup (Shl(w, 15, 32) \cap 11 .. 23)
<1>4. h \in Word(1) /\ w \in Word(9) /\ s \in Word(1)
  BY <1>3 DEF Fits, Width
<1>5. /\ Sent("opCond", v, kind, link).cmd = Operations["opCond"].index
      /\ Sent("opCond", v, kind, link).arg = arg
      /\ Sent("opCond", v, kind, link).resp = Expected("opCond", link)
  BY DEF Sent, Operations, Operation, Command, Cmd41WithS18r, WithRespType, Expected
<1> HIDE DEF h, w, s
<1>6. h \subseteq 0 .. 0 /\ w \subseteq 0 .. 8 /\ s \subseteq 0 .. 0
  BY <1>4 DEF Word
<1>7. \A b : b \in arg <=> \/ b \in 0 .. 31 /\ b - 30 \in h
                           \/ b \in 0 .. 31 /\ b - 24 \in s
                           \/ b \in 11 .. 23 /\ b - 15 \in w
  <2>1. \A b : b \in Shl(h, 30, 32) <=> b \in 0 .. 32 - 1 /\ b - 30 \in h
    BY <1>6, ShlMember
  <2>2. \A b : b \in Shl(s, 24, 32) <=> b \in 0 .. 32 - 1 /\ b - 24 \in s
    BY <1>6, ShlMember
  <2>3. \A b : b \in Shl(w, 15, 32) <=> b \in 0 .. 32 - 1 /\ b - 15 \in w
    BY <1>6, ShlMember
  <2> QED
    BY <2>1, <2>2, <2>3
<1> HIDE DEF arg
<1>8. Field(arg, 30, 30) = h
  <2>1. 30 \in 0 .. 31 /\ 30 \in 0 .. 30 /\ h \in Word(30 - 30 + 1)
    BY <1>4
  <2>2. \A b \in 30 .. 30 : b \in arg <=> b - 30 \in h
    BY <1>6, <1>7
  <2> QED
    BY <2>1, <2>2, FieldHolds
<1>9. Field(arg, 23, 15) = w
  <2>1. 23 \in 0 .. 31 /\ 15 \in 0 .. 23 /\ w \in Word(23 - 15 + 1)
    BY <1>4
  <2>2. \A b \in 15 .. 23 : b \in arg <=> b - 15 \in w
    BY <1>6, <1>7
  <2> QED
    BY <2>1, <2>2, FieldHolds
<1>10. Field(arg, 24, 24) = s
  <2>1. 24 \in 0 .. 31 /\ 24 \in 0 .. 24 /\ s \in Word(24 - 24 + 1)
    BY <1>4
  <2>2. \A b \in 24 .. 24 : b \in arg <=> b - 24 \in s
    BY <1>6, <1>7
  <2> QED
    BY <2>1, <2>2, FieldHolds
<1>11. Meaning("opCond", kind, arg) = [op |-> "opCond", values |-> v]
  BY <1>1, <1>3, <1>8, <1>9, <1>10, FieldsMean DEF h, w, s
<1>12. arg \in Word(32)
  BY <1>7 DEF Word
<1> QED
  BY <1>5, <1>11, <1>12 DEF Encodes

\* IO_RW_DIRECT.
LEMMA Cmd52Command ==
    ASSUME NEW kind, NEW link, NEW v \in Values("ioDirect", kind)
    PROVE  Encodes("ioDirect", v, kind, link)
<1> DEFINE fields == <<<<31, 31>>, <<30, 28>>, <<27, 27>>, <<25, 9>>, <<7, 0>>>>
<1>1. Fields("ioDirect", kind) = fields
  BY DEF Fields, BlockOps, Operations, Operation, IoFields
<1>2. Values("ioDirect", kind) = Samples(fields)
  BY <1>1 DEF Values
<1>3. Fits(v, fields)
  <2>1. \A i \in DOMAIN fields : fields[i][1] \in Int /\ fields[i][2] \in Int
    OBVIOUS
  <2> HIDE DEF fields
  <2> QED
    BY <1>2, <2>1, FillingsFit
<1> DEFINE w == v[1]
           f == v[2]
           r == v[3]
           a == v[4]
           d == v[5]
           arg == Shl(w, 31, 32)
                  \cup Shl(f \cap 0 .. 2, 28, 32)
                  \cup Shl(r, 27, 32)
                  \cup Shl(a \cap 0 .. 16, 9, 32)
                  \cup d
<1>4. /\ w \in Word(1)
      /\ f \in Word(3)
      /\ r \in Word(1)
      /\ a \in Word(17)
      /\ d \in Word(8)
  <2>1. \A i \in 1 .. 5 : v[i] \in Word(Width(fields[i]))
    BY <1>3 DEF Fits
  <2>2. Width(fields[1]) = 1 /\ Width(fields[2]) = 3 /\ Width(fields[3]) = 1
        /\ Width(fields[4]) = 17 /\ Width(fields[5]) = 8
    BY DEF Width
  <2> HIDE DEF fields
  <2> QED
    BY <2>1, <2>2
<1>5. Carries("ioDirect", v, kind, link, arg)
  BY DEF Carries, Sent, Operations, Operation, Command, Cmd52
<1> HIDE DEF w, f, r, a, d
<1>6. /\ w \subseteq 0 .. 0
      /\ f \subseteq 0 .. 2
      /\ r \subseteq 0 .. 0
      /\ a \subseteq 0 .. 16
      /\ d \subseteq 0 .. 7
  BY <1>4 DEF Word
<1>7. f \cap 0 .. 2 = f /\ a \cap 0 .. 16 = a
  BY <1>6
<1>8. \A b : b \in arg <=> b \in 0 .. 31 /\ \/ b - 31 \in w
                                            \/ b - 28 \in f
                                            \/ b - 27 \in r
                                            \/ b - 9 \in a
                                            \/ b \in d
  <2>1. \A b : b \in Shl(w, 31, 32) <=> b \in 0 .. 32 - 1 /\ b - 31 \in w
    BY <1>6, ShlMember
  <2>2. \A b : b \in Shl(f, 28, 32) <=> b \in 0 .. 32 - 1 /\ b - 28 \in f
    BY <1>6, ShlMember
  <2>3. \A b : b \in Shl(r, 27, 32) <=> b \in 0 .. 32 - 1 /\ b - 27 \in r
    BY <1>6, ShlMember
  <2>4. \A b : b \in Shl(a, 9, 32) <=> b \in 0 .. 32 - 1 /\ b - 9 \in a
    BY <1>6, ShlMember
  <2>5. d \subseteq 0 .. 31 /\ 0 .. 32 - 1 = 0 .. 31
    BY <1>6
  <2> QED
    BY <1>7, <2>1, <2>2, <2>3, <2>4, <2>5
<1> HIDE DEF arg
<1>9. Field(arg, 31, 31) = w
  <2>1. 31 \in 0 .. 31 /\ 31 \in 0 .. 31 /\ w \in Word(31 - 31 + 1)
    BY <1>4
  <2>2. \A b \in 31 .. 31 : b \in arg <=> b - 31 \in w
    BY <1>6, <1>8
  <2> QED
    BY <2>1, <2>2, FieldHolds
<1>10. Field(arg, 30, 28) = f
  <2>1. 30 \in 0 .. 31 /\ 28 \in 0 .. 30 /\ f \in Word(30 - 28 + 1)
    BY <1>4
  <2>2. \A b \in 28 .. 30 : b \in arg <=> b - 28 \in f
    BY <1>6, <1>8
  <2> QED
    BY <2>1, <2>2, FieldHolds
<1>11. Field(arg, 27, 27) = r
  <2>1. 27 \in 0 .. 31 /\ 27 \in 0 .. 27 /\ r \in Word(27 - 27 + 1)
    BY <1>4
  <2>2. \A b \in 27 .. 27 : b \in arg <=> b - 27 \in r
    BY <1>6, <1>8
  <2> QED
    BY <2>1, <2>2, FieldHolds
<1>12. Field(arg, 25, 9) = a
  <2>1. 25 \in 0 .. 31 /\ 9 \in 0 .. 25 /\ a \in Word(25 - 9 + 1)
    BY <1>4
  <2>2. \A b \in 9 .. 25 : b \in arg <=> b - 9 \in a
    BY <1>6, <1>8
  <2> QED
    BY <2>1, <2>2, FieldHolds
<1>13. Field(arg, 7, 0) = d
  <2>1. 7 \in 0 .. 31 /\ 0 \in 0 .. 7 /\ d \in Word(7 - 0 + 1)
    BY <1>4
  <2>2. \A b \in 0 .. 7 : b \in arg <=> b - 0 \in d
    BY <1>6, <1>8
  <2> QED
    BY <2>1, <2>2, FieldHolds
<1>14. Meaning("ioDirect", kind, arg) = [op |-> "ioDirect", values |-> v]
  BY <1>1, <1>3, <1>9, <1>10, <1>11, <1>12, <1>13,
     FieldsMean DEF w, f, r, a, d
<1>15. arg \in Word(32)
  BY <1>8 DEF Word
<1> QED
  BY <1>5, <1>14, <1>15 DEF Encodes, Carries, Expected

\* IO_RW_EXTENDED.
LEMMA Cmd53Command ==
    ASSUME NEW kind, NEW link, NEW v \in Values("ioExtended", kind)
    PROVE  Encodes("ioExtended", v, kind, link)
<1> DEFINE fields == <<<<31, 31>>, <<30, 28>>, <<27, 27>>, <<25, 9>>, <<26, 26>>, <<8, 0>>>>
<1>1. Fields("ioExtended", kind) = fields
  BY DEF Fields, BlockOps, Operations, Operation, IoFields
<1>2. Values("ioExtended", kind) = Samples(fields)
  BY <1>1 DEF Values
<1>3. Fits(v, fields)
  <2>1. \A i \in DOMAIN fields : fields[i][1] \in Int /\ fields[i][2] \in Int
    OBVIOUS
  <2> HIDE DEF fields
  <2> QED
    BY <1>2, <2>1, FillingsFit
<1> DEFINE w == v[1]
           f == v[2]
           m == v[3]
           a == v[4]
           o == v[5]
           c == v[6]
           arg == Shl(w, 31, 32)
                  \cup Shl(f \cap 0 .. 2, 28, 32)
                  \cup Shl(m, 27, 32)
                  \cup Shl(o, 26, 32)
                  \cup Shl(a \cap 0 .. 16, 9, 32)
                  \cup (c \cap 0 .. 8)
<1>4. /\ w \in Word(1)
      /\ f \in Word(3)
      /\ m \in Word(1)
      /\ a \in Word(17)
      /\ o \in Word(1)
      /\ c \in Word(9)
  <2>1. \A i \in 1 .. 6 : v[i] \in Word(Width(fields[i]))
    BY <1>3 DEF Fits
  <2>2. Width(fields[1]) = 1 /\ Width(fields[2]) = 3 /\ Width(fields[3]) = 1
        /\ Width(fields[4]) = 17 /\ Width(fields[5]) = 1 /\ Width(fields[6]) = 9
    BY DEF Width
  <2> HIDE DEF fields
  <2> QED
    BY <2>1, <2>2
<1>5. Carries("ioExtended", v, kind, link, arg)
  BY DEF Carries, Sent, Operations, Operation, Command, Cmd53
<1> HIDE DEF w, f, m, a, o, c
<1>6. /\ w \subseteq 0 .. 0
      /\ f \subseteq 0 .. 2
      /\ m \subseteq 0 .. 0
      /\ a \subseteq 0 .. 16
      /\ o \subseteq 0 .. 0
      /\ c \subseteq 0 .. 8
  BY <1>4 DEF Word
<1>7. f \cap 0 .. 2 = f /\ a \cap 0 .. 16 = a /\ c \cap 0 .. 8 = c
  BY <1>6
<1>8. \A b : b \in arg <=> b \in 0 .. 31 /\ \/ b - 31 \in w
                                            \/ b - 28 \in f
                                            \/ b - 27 \in m
                                            \/ b - 26 \in o
                                            \/ b - 9 \in a
                                            \/ b \in c
  <2>1. \A b : b \in Shl(w, 31, 32) <=> b \in 0 .. 32 - 1 /\ b - 31 \in w
    BY <1>6, ShlMember
  <2>2. \A b : b \in Shl(f, 28, 32) <=> b \in 0 .. 32 - 1 /\ b - 28 \in f
    BY <1>6, ShlMember
  <2>3. \A b : b \in Shl(m, 27, 32) <=> b \in 0 .. 32 - 1 /\ b - 27 \in m
    BY <1>6, ShlMember
  <2>4. \A b : b \in Shl(o, 26, 32) <=> b \in 0 .. 32 - 1 /\ b - 26 \in o
    BY <1>6, ShlMember
  <2>5. \A b : b \in Shl(a, 9, 32) <=> b \in 0 .. 32 - 1 /\ b - 9 \in a
    BY <1>6, ShlMember
  <2>6. c \subseteq 0 .. 31 /\ 0 .. 32 - 1 = 0 .. 31
    BY <1>6
  <2> QED
    BY <1>7, <2>1, <2>2, <2>3, <2>4, <2>5, <2>6
<1> HIDE DEF arg
<1>9. Field(arg, 31, 31) = w
  <2>1. 31 \in 0 .. 31 /\ 31 \in 0 .. 31 /\ w \in Word(31 - 31 + 1)
    BY <1>4
  <2>2. \A b \in 31 .. 31 : b \in arg <=> b - 31 \in w
    BY <1>6, <1>8
  <2> QED
    BY <2>1, <2>2, FieldHolds
<1>10. Field(arg, 30, 28) = f
  <2>1. 30 \in 0 .. 31 /\ 28 \in 0 .. 30 /\ f \in Word(30 - 28 + 1)
    BY <1>4
  <2>2. \A b \in 28 .. 30 : b \in arg <=> b - 28 \in f
    BY <1>6, <1>8
  <2> QED
    BY <2>1, <2>2, FieldHolds
<1>11. Field(arg, 27, 27) = m
  <2>1. 27 \in 0 .. 31 /\ 27 \in 0 .. 27 /\ m \in Word(27 - 27 + 1)
    BY <1>4
  <2>2. \A b \in 27 .. 27 : b \in arg <=> b - 27 \in m
    BY <1>6, <1>8
  <2> QED
    BY <2>1, <2>2, FieldHolds
<1>12. Field(arg, 25, 9) = a
  <2>1. 25 \in 0 .. 31 /\ 9 \in 0 .. 25 /\ a \in Word(25 - 9 + 1)
    BY <1>4
  <2>2. \A b \in 9 .. 25 : b \in arg <=> b - 9 \in a
    BY <1>6, <1>8
  <2> QED
    BY <2>1, <2>2, FieldHolds
<1>13. Field(arg, 26, 26) = o
  <2>1. 26 \in 0 .. 31 /\ 26 \in 0 .. 26 /\ o \in Word(26 - 26 + 1)
    BY <1>4
  <2>2. \A b \in 26 .. 26 : b \in arg <=> b - 26 \in o
    BY <1>6, <1>8
  <2> QED
    BY <2>1, <2>2, FieldHolds
<1>14. Field(arg, 8, 0) = c
  <2>1. 8 \in 0 .. 31 /\ 0 \in 0 .. 8 /\ c \in Word(8 - 0 + 1)
    BY <1>4
  <2>2. \A b \in 0 .. 8 : b \in arg <=> b - 0 \in c
    BY <1>6, <1>8
  <2> QED
    BY <2>1, <2>2, FieldHolds
<1>15. Meaning("ioExtended", kind, arg) = [op |-> "ioExtended", values |-> v]
  BY <1>1, <1>3, <1>9, <1>10, <1>11, <1>12, <1>13, <1>14,
     FieldsMean DEF w, f, m, a, o, c
<1>16. arg \in Word(32)
  BY <1>8 DEF Word
<1> QED
  BY <1>5, <1>15, <1>16 DEF Encodes, Carries, Expected

\* Every operation, over every transport: its command says what it is to say.
THEOREM EveryCommand ==
    ASSUME NEW op \in Ops, NEW kind, kind.highCapacity \in BOOLEAN, NEW link,
           NEW v \in Values(op, kind)
    PROVE  Encodes(op, v, kind, link)
<1>1. CASE op \in Plain
  BY <1>1, PlainCommands
<1>2. CASE op \in Relative
  BY <1>2, RelativeCommands
<1>3. CASE op \in {"mmcOpCond", "blockLength"}
  BY <1>3, WholeCommands
<1>4. CASE op \in BlockOps
  <2>1. CASE kind.highCapacity
    BY <1>4, <2>1, WholeCommands
  <2>2. CASE ~kind.highCapacity
    BY <1>4, <2>2, ByteCommands
  <2> QED
    BY <2>1, <2>2
<1>5. CASE op = "switch"
  BY <1>5, SwitchCommand
<1>6. CASE op = "accessMode"
  BY <1>6, AccessModeCommand
<1>7. CASE op = "busWidth"
  BY <1>7, BusWidthCommand
<1>8. CASE op = "ifCond"
  BY <1>8, IfCondCommand
<1>9. CASE op = "opCond"
  BY <1>9, OpCondCommand
<1>10. CASE op = "ioDirect"
  BY <1>10, Cmd52Command
<1>11. CASE op = "ioExtended"
  BY <1>11, Cmd53Command
<1>12. \/ op \in Plain \cup Relative \cup {"mmcOpCond", "blockLength"} \cup BlockOps
       \/ op \in {"switch", "accessMode", "busWidth", "ifCond", "opCond", "ioDirect", "ioExtended"}
  BY OpsOfTheTable DEF Plain, Relative, BlockOps
<1> QED
  BY <1>1, <1>2, <1>3, <1>4, <1>5, <1>6, <1>7, <1>8, <1>9, <1>10, <1>11, <1>12

\* Commands are numbered with six bits.
LEMMA IndicesAreShort ==
    ASSUME NEW op \in Ops
    PROVE  /\ Operations[op].index \in 0 .. 63
           /\ Number(Operations[op].index) \subseteq 0 .. 5
<1>1. Operations[op].index \in 0 .. 63
  BY OpsOfTheTable, IndicesOfTheTable
<1>2. \A n \in 0 .. 63 : Number(n) \subseteq 0 .. 5
  <2> TAKE n \in 0 .. 63
  <2>1. n \in 0 .. 255 /\ (n \div 64) % 2 = 0 /\ (n \div 128) % 2 = 0
    OBVIOUS
  <2>2. 6 \notin Number(n) /\ 7 \notin Number(n) /\ Number(n) \subseteq 0 .. 7
    BY <2>1, BitsOfAByte
  <2> QED
    BY <2>2
<1> QED
  BY <1>1, <1>2

Transports == {"spi", "sdhci", "dwmmc"}

\* The frame of an operation, whoever builds it.
LEMMA FrameOfACommand ==
    ASSUME NEW op \in Ops, NEW kind, kind.highCapacity \in BOOLEAN, NEW link \in Transports,
           NEW v \in Values(op, kind)
    PROVE  /\ Sent(op, v, kind, link).arg \in Word(32)
           /\ Number(Operations[op].index) \in SUBSET Int
           /\ Frame(link, Sent(op, v, kind, link))
              = HardwareFrame(Number(Operations[op].index), Sent(op, v, kind, link).arg)
<1> DEFINE c == Sent(op, v, kind, link)
<1>1. c.cmd = Operations[op].index /\ c.arg \in Word(32)
  <2>1. Encodes(op, v, kind, link)
    BY EveryCommand
  <2> QED
    BY <2>1 DEF Encodes
<1> HIDE DEF c
<1>2. Number(c.cmd) \subseteq 0 .. 5
  BY <1>1, IndicesAreShort
<1>3. Number(c.cmd) \in SUBSET Int /\ Number(c.cmd) \cap 0 .. 5 = Number(c.cmd)
  BY <1>2
<1>4. FromBytes(ToSpiBytes(c), 6) = HardwareFrame(Number(c.cmd), c.arg)
  BY <1>1, <1>3, OneFrame
<1>5. SdhciEncode(c).index = Number(c.cmd) /\ DwMmcEncode(c).index = Number(c.cmd)
  BY <1>3 DEF SdhciEncode, DwMmcEncode
<1>6. Frame(link, c) = HardwareFrame(Number(c.cmd), c.arg)
  BY <1>4, <1>5 DEF Frame, Transports
<1> QED
  BY <1>1, <1>3, <1>6 DEF c

\* What a card takes the undamaged frame of an operation for.
LEMMA Heard ==
    ASSUME NEW op \in Ops, NEW kind, kind.highCapacity \in BOOLEAN, NEW link \in Transports,
           NEW v \in Values(op, kind),
           kind.type \in Operations[op].kinds, link \in Operations[op].links,
           NEW sent, sent = Frame(link, Sent(op, v, kind, link))
    PROVE  /\ sent \in Word(48) /\ 47 \notin sent /\ 46 \in sent /\ 0 \in sent
           /\ Remainder(Shr(sent, 1), Powers7, 7) = {}
           /\ Known(link, kind, Operations[op].app, Field(sent, 45, 40)) = {op}
           /\ Meaning(op, kind, Field(sent, 39, 8)) = [op |-> op, values |-> v]
<1> DEFINE index == Number(Operations[op].index)
           arg == Sent(op, v, kind, link).arg
<1>1. sent = HardwareFrame(index, arg) /\ index \in SUBSET Int /\ arg \in Word(32)
  BY FrameOfACommand
<1>2. index \cap 0 .. 5 = index
  <2>1. index \subseteq 0 .. 5
    BY IndicesAreShort
  <2> QED
    BY <2>1
<1> HIDE DEF index, arg
<1>3. /\ sent \in Word(48) /\ 47 \notin sent /\ 46 \in sent /\ 0 \in sent
      /\ Remainder(Shr(sent, 1), Powers7, 7) = {}
      /\ Field(sent, 45, 40) = index
      /\ Field(sent, 39, 8) = arg
  BY <1>1, <1>2, FrameFields, SMTT(30)
<1>4. Meaning(op, kind, arg) = [op |-> op, values |-> v]
  BY EveryCommand DEF Encodes, arg
<1>5. Known(link, kind, Operations[op].app, index) = {op}
  <2>1. op \in Known(link, kind, Operations[op].app, index)
    BY DEF Known, index
  <2>2. ASSUME NEW other \in Known(link, kind, Operations[op].app, index)
        PROVE  other = op
    <3>1. /\ other \in Ops /\ Number(Operations[other].index) = index
          /\ Operations[other].app = Operations[op].app
          /\ kind.type \in Operations[other].kinds
      BY DEF Known
    <3>2. Operations[other].index \in 0 .. 255 /\ Operations[op].index \in 0 .. 255
      <4>1. Operations[other].index \in 0 .. 63 /\ Operations[op].index \in 0 .. 63
        BY <3>1, IndicesAreShort
      <4> QED
        BY <4>1
    <3>3. Operations[other].index = Operations[op].index
      BY <3>1, <3>2, NumberOfAByte DEF index
    <3> QED
      BY <3>1, <3>3, OneOperation
  <2> QED
    BY <2>1, <2>2
<1> QED
  BY <1>3, <1>4, <1>5

-----------------------------------------------------------------------------
(* The inductive invariant.                                                *)

\* What is asked is one of the operations of this card and this transport.
AskedOK ==
    /\ phase = "idle" => asked = Nothing /\ hit = {}
    /\ phase # "idle" =>
         /\ asked = [op |-> asked.op, values |-> asked.values]
         /\ asked.op \in Ops
         /\ asked.values \in Values(asked.op, bus.kind)
         /\ bus.kind.type \in Operations[asked.op].kinds
         /\ bus.link \in Operations[asked.op].links

FullFrame == Frame(bus.link, Sent(asked.op, asked.values, bus.kind, bus.link))

\* The frame on the bus is that of the command, or struck once.
FrameOK ==
    phase = "sent" =>
        \/ hit = {} /\ frame = FullFrame
        \/ hit = {"command"} /\ \E noise \in Noise : frame = Xor(FullFrame, noise)

\* Without a command a native card does not answer, and what is not answered has
\* no body.
SilenceOK ==
    phase = "replied" /\ bus.link # "spi" /\ heard = Nothing => ~reply.answered

\* A SWITCH that writes one byte of EXT_CSD.
Writes(index) ==
    /\ asked.op = "switch"
    /\ asked.values[1] = Number(3) /\ asked.values[2] = Number(index)

\* The driver knows what it has set EXT_CSD to, but for a SWITCH that is under
\* way; and what that will have set is what it was asked to, if it was heard.
WidthKnown ==
    /\ chosen.width # <<>> /\ ~(phase = "replied" /\ Writes(183)) =>
         extCsd.width = chosen.width[1]
    /\ phase = "replied" /\ Writes(183) /\ heard = asked => extCsd.width = asked.values[3]

TimingKnown ==
    /\ chosen.timing # <<>> /\ ~(phase = "replied" /\ Writes(185)) =>
         extCsd.timing = chosen.timing[1]
    /\ phase = "replied" /\ Writes(185) /\ heard = asked => extCsd.timing = asked.values[3]

\* What there is of EXT_CSD, and of what the driver knows of it.
RegistersOK ==
    /\ extCsd = [width |-> extCsd.width, timing |-> extCsd.timing]
    /\ chosen = [width |-> chosen.width, timing |-> chosen.timing]

\* What a card sends when it takes what it gets for no command, and when it
\* takes it for one.
Refusals ==
    {Silence} \cup {Answer(r1, {}, Ones(32)) : r1 \in {r \in {{2}, {3}} : bus.link = "spi"}}

Answers(op, values) ==
    IF Operations[op].resp = "None" /\ bus.link # "spi" THEN {Silence}
    ELSE {Answer(r1, body, OnWire(bus.link, op, body)) :
             r1 \in IF bus.link # "spi" \/ op \in {"csd", "cid"} THEN {{}}
                    ELSE {{}, {0}, {1}, {4, 6}},
             body \in IF bus.link = "spi" /\ Operations[op].resp \in {"R1", "R1b"}
                      THEN {{}} ELSE Bodies(op, values)}

SentBack == IF heard = Nothing THEN Refusals ELSE Answers(heard.op, heard.values)

Struck(sent) ==
    \/ \E b \in 0 .. 7 : bus.link = "spi" /\ reply = [sent EXCEPT !.r1 = Xor(@, {b})]
    \/ \E noise \in BlockNoise :
         bus.link = "spi" /\ reply = [sent EXCEPT !.wire = Xor(@, noise)]
    \/ \E noise \in ReplyNoise :
         /\ bus.link # "spi" /\ noise \subseteq 0 .. AnswerSent(heard.op).length - 1
         /\ reply = [sent EXCEPT !.wire = Xor(@, noise)]

\* The answer on the bus is that of the card, or struck once.
ReplyOK ==
    phase = "replied" =>
        \/ "reply" \notin hit /\ reply \in SentBack
        \/ "reply" \in hit /\ \E sent \in SentBack : sent.answered /\ Struck(sent)

Invariant ==
    /\ TypeOK
    /\ RegistersOK
    /\ ReplyOK
    /\ AskedOK
    /\ FrameOK
    /\ ObeysWhatWasAsked
    /\ SilenceOK
    /\ WidthKnown
    /\ TimingKnown
    /\ ReadsBackWhatWasWritten

\* The buses there are: only a card in SPI mode may leave commands unchecked.
LEMMA BusLaws ==
    ASSUME bus \in Buses
    PROVE  /\ bus.link \in Transports
           /\ bus.kind.highCapacity \in BOOLEAN
           /\ bus.strict \in BOOLEAN
           /\ bus.link # "spi" => bus.strict
<1> DEFINE Kinds(l) == {c \in Cards : l # "spi" \/ c.type = "sd"}
           Verified(l) == IF l = "spi" THEN Verifies ELSE {TRUE}
           Stricts(l) == IF l = "spi" THEN Strict ELSE {TRUE}
           On(l) == {[link |-> l, kind |-> k, verify |-> v, strict |-> s] :
                        k \in Kinds(l), v \in Verified(l), s \in Stricts(l)}
<1>1. PICK l \in Links : bus \in On(l)
  <2>1. Buses = UNION {On(l) : l \in Links}
    BY DEF Buses
  <2> HIDE DEF On
  <2> QED
    BY <2>1
<1>2. PICK k \in Kinds(l), v \in Verified(l), s \in Stricts(l) :
         bus = [link |-> l, kind |-> k, verify |-> v, strict |-> s]
  <2> HIDE DEF Kinds, Verified, Stricts
  <2> QED
    BY <1>1
<1>3. bus.link = l /\ bus.kind = k /\ bus.strict = s
  BY <1>2
<1>4. l \in Transports
  BY LinksAssumption DEF Transports
<1>5. k.highCapacity \in BOOLEAN
  BY CardsAssumption
<1>6. s \in BOOLEAN /\ (l # "spi" => s = TRUE)
  BY SettingsAssumption
<1> QED
  BY <1>3, <1>4, <1>5, <1>6

\* The numbers that are written to EXT_CSD.
LEMMA NumbersOfTheSwitch ==
    /\ Number(0) = {}
    /\ Number(3) # {} /\ Number(3) # Ones(1)
    /\ Number(183) # Number(185)
<1>1. Number(0) = {}
  <2>1. Number(0) \subseteq 0 .. 7
    BY BitsOfAByte
  <2>2. /\ 0 \notin Number(0) /\ 1 \notin Number(0) /\ 2 \notin Number(0) /\ 3 \notin Number(0)
        /\ 4 \notin Number(0) /\ 5 \notin Number(0) /\ 6 \notin Number(0) /\ 7 \notin Number(0)
    BY DEF Number
  <2> QED
    BY <2>1, <2>2
<1>2. 1 \in Number(3)
  BY DEF Number
<1>3. 1 \notin Ones(1)
  BY DEF Ones
<1>4. Number(183) # Number(185)
  <2>1. 1 \in Number(183) /\ 1 \notin Number(185)
    BY DEF Number
  <2> QED
    BY <2>1
<1> QED
  BY <1>1, <1>2, <1>3, <1>4

\* It holds at first.
LEMMA InitInvariant == Init => Invariant
<1> SUFFICES ASSUME Init PROVE Invariant
  OBVIOUS
<1>1. /\ bus \in Buses /\ phase = "idle" /\ asked = Nothing /\ frame = {} /\ heard = Nothing
      /\ reply = Silence /\ hit = {} /\ told = Ok(<<>>)
      /\ extCsd = [width |-> {}, timing |-> {}]
      /\ chosen = [width |-> <<{}>>, timing |-> <<{}>>]
  BY DEF Init
<1>2. TypeOK
  <2>1. frame \in Word(48)
    BY <1>1 DEF Word
  <2>2. asked.op = "nothing" /\ heard.op = "nothing" /\ told.ok = TRUE
    BY <1>1 DEF Nothing, Ok
  <2>3. "Sdr1" \in DOMAIN Widths /\ Widths["Sdr1"] = 0
    BY DEF Widths
  <2>4. "Compat" \in DOMAIN Timings /\ Timings["Compat"] = 0
    BY DEF Timings
  <2>5. extCsd.width = Number(Widths["Sdr1"]) /\ extCsd.timing = Number(Timings["Compat"])
    BY <1>1, <2>3, <2>4, NumbersOfTheSwitch
  <2>6. extCsd.width \in {Number(Widths[w]) : w \in DOMAIN Widths}
    BY <2>3, <2>5
  <2>7. extCsd.timing \in {Number(Timings[t]) : t \in DOMAIN Timings}
    BY <2>4, <2>5
  <2> QED
    BY <1>1, <2>1, <2>2, <2>6, <2>7 DEF TypeOK
<1>3. AskedOK
  BY <1>1 DEF AskedOK
<1>4. FrameOK /\ ObeysWhatWasAsked /\ SilenceOK /\ ReadsBackWhatWasWritten
  BY <1>1 DEF FrameOK, ObeysWhatWasAsked, SilenceOK, ReadsBackWhatWasWritten
<1>5. WidthKnown /\ TimingKnown
  BY <1>1 DEF WidthKnown, TimingKnown
<1>6. RegistersOK /\ ReplyOK
  BY <1>1 DEF RegistersOK, ReplyOK
<1> QED
  BY <1>2, <1>3, <1>4, <1>5, <1>6 DEF Invariant

\* What a step leaves alone does not disturb it.
LEMMA StutterInvariant == Invariant /\ UNCHANGED vars => Invariant'
<1> SUFFICES ASSUME Invariant, UNCHANGED vars PROVE Invariant'
  OBVIOUS
<1>1. /\ bus' = bus /\ phase' = phase /\ asked' = asked /\ frame' = frame /\ heard' = heard
      /\ reply' = reply /\ hit' = hit /\ told' = told /\ extCsd' = extCsd /\ chosen' = chosen
  BY DEF vars
<1>2. TypeOK'
  BY <1>1 DEF Invariant, TypeOK
<1>3. AskedOK'
  BY <1>1 DEF Invariant, AskedOK
<1>4. FrameOK'
  BY <1>1 DEF Invariant, FrameOK, FullFrame
<1>5. ObeysWhatWasAsked' /\ SilenceOK'
  BY <1>1 DEF Invariant, ObeysWhatWasAsked, SilenceOK
<1>6. WidthKnown' /\ TimingKnown'
  BY <1>1 DEF Invariant, WidthKnown, TimingKnown, Writes
<1>7. ReadsBackWhatWasWritten'
  BY <1>1 DEF Invariant, ReadsBackWhatWasWritten
<1>8. RegistersOK' /\ ReplyOK'
  <2>1. SentBack' = SentBack
    BY <1>1 DEF SentBack, Refusals, Answers
  <2>2. ASSUME NEW sent PROVE Struck(sent)' <=> Struck(sent)
    BY <1>1 DEF Struck
  <2> HIDE DEF SentBack, Struck
  <2> QED
    BY <1>1, <2>1, <2>2 DEF Invariant, RegistersOK, ReplyOK
<1> QED
  BY <1>2, <1>3, <1>4, <1>5, <1>6, <1>7, <1>8 DEF Invariant

\* Ask: a new command, and its frame on the bus.
LEMMA AskInvariant == Invariant /\ Ask => Invariant'
<1> SUFFICES ASSUME Invariant, Ask PROVE Invariant'
  OBVIOUS
<1>1. /\ phase = "idle" /\ phase' = "sent" /\ asked = Nothing /\ hit = {}
      /\ UNCHANGED <<bus, heard, reply, hit, told, extCsd, chosen>>
  BY DEF Ask, Invariant, AskedOK
<1>2. PICK op \in Ops : \E v \in Values(op, bus.kind) :
        /\ bus.kind.type \in Operations[op].kinds /\ bus.link \in Operations[op].links
        /\ asked' = [op |-> op, values |-> v]
        /\ frame' = Frame(bus.link, Sent(op, v, bus.kind, bus.link))
  BY DEF Ask
<1>3. PICK v \in Values(op, bus.kind) :
        /\ bus.kind.type \in Operations[op].kinds /\ bus.link \in Operations[op].links
        /\ asked' = [op |-> op, values |-> v]
        /\ frame' = Frame(bus.link, Sent(op, v, bus.kind, bus.link))
  BY <1>2
<1>4. bus \in Buses
  BY DEF Invariant, TypeOK
<1>5. frame' \in Word(48)
  <2>1. bus.link \in Transports /\ bus.kind.highCapacity \in BOOLEAN
    BY <1>4, BusLaws
  <2>2. PICK kind, link : kind = bus.kind /\ link = bus.link
    OBVIOUS
  <2>3. PICK sent : sent = Frame(link, Sent(op, v, kind, link))
    OBVIOUS
  <2>4. sent \in Word(48)
    BY <1>3, <2>1, <2>2, <2>3, Heard
  <2> QED
    BY <1>3, <2>2, <2>3, <2>4
<1>6. asked'.op = op /\ asked'.values = v
  BY <1>3
<1>7. TypeOK'
  BY <1>1, <1>5, <1>6 DEF Invariant, TypeOK
<1>8. AskedOK'
  BY <1>1, <1>3, <1>6 DEF AskedOK
<1>9. FrameOK'
  BY <1>1, <1>3, <1>6 DEF FrameOK, FullFrame
<1>10. ObeysWhatWasAsked' /\ SilenceOK' /\ ReadsBackWhatWasWritten'
  BY <1>1 DEF ObeysWhatWasAsked, SilenceOK, ReadsBackWhatWasWritten
<1>11. WidthKnown' /\ TimingKnown'
  BY <1>1 DEF Invariant, WidthKnown, TimingKnown
<1>12. RegistersOK' /\ ReplyOK'
  BY <1>1 DEF Invariant, RegistersOK, ReplyOK
<1> QED
  BY <1>7, <1>8, <1>9, <1>10, <1>11, <1>12 DEF Invariant

\* StrikeCommand: some noise on it.
LEMMA StrikeCommandInvariant == Invariant /\ StrikeCommand => Invariant'
<1> SUFFICES ASSUME Invariant, StrikeCommand PROVE Invariant'
  OBVIOUS
<1>1. /\ phase = "sent" /\ hit = {} /\ hit' = {"command"}
      /\ UNCHANGED <<bus, phase, asked, heard, reply, told, extCsd, chosen>>
  BY DEF StrikeCommand
<1>2. PICK noise \in Noise : frame' = Xor(frame, noise)
  BY DEF StrikeCommand
<1>3. frame = FullFrame
  BY <1>1 DEF Invariant, FrameOK
<1>4. frame' \in Word(48)
  <2>1. noise \subseteq 0 .. 47 /\ frame \subseteq 0 .. 47
    BY NoiseAssumption DEF Word, Invariant, TypeOK
  <2> QED
    BY <1>2, <2>1 DEF Xor, Word
<1>5. TypeOK'
  BY <1>1, <1>4 DEF Invariant, TypeOK
<1>6. AskedOK'
  BY <1>1 DEF Invariant, AskedOK
<1>7. FrameOK'
  BY <1>1, <1>2, <1>3 DEF FrameOK, FullFrame
<1>8. ObeysWhatWasAsked' /\ SilenceOK' /\ ReadsBackWhatWasWritten'
  BY <1>1 DEF ObeysWhatWasAsked, SilenceOK, ReadsBackWhatWasWritten
<1>9. WidthKnown' /\ TimingKnown'
  BY <1>1 DEF Invariant, WidthKnown, TimingKnown, Writes
<1>10. RegistersOK' /\ ReplyOK'
  BY <1>1 DEF Invariant, RegistersOK, ReplyOK
<1> QED
  BY <1>5, <1>6, <1>7, <1>8, <1>9, <1>10 DEF Invariant

\* What a card does with a frame: what it was asked if it is undamaged; nothing if
\* it is damaged, unless it does not check, in SPI mode, where EXT_CSD is unknown.
LEMMA CardHears ==
    ASSUME Invariant, CardTakes
    PROVE  \/ hit = {} /\ heard' = asked /\ Accept(asked.op)
           \/ /\ hit = {"command"} /\ heard' = Nothing /\ extCsd' = extCsd
              /\ bus.link # "spi" => reply' = Silence
           \/ /\ hit = {"command"} /\ ~bus.strict /\ bus.link = "spi" /\ extCsd' = extCsd
              /\ heard'.op \in Ops
<1>1. phase = "sent"
  BY DEF CardTakes
<1>2. /\ asked = [op |-> asked.op, values |-> asked.values]
      /\ asked.op \in Ops
      /\ asked.values \in Values(asked.op, bus.kind)
      /\ bus.kind.type \in Operations[asked.op].kinds
      /\ bus.link \in Operations[asked.op].links
  BY <1>1 DEF Invariant, AskedOK
<1>3. /\ bus.link \in Transports /\ bus.kind.highCapacity \in BOOLEAN
      /\ bus.link # "spi" => bus.strict
  BY BusLaws DEF Invariant, TypeOK
<1> DEFINE ops == Known(bus.link, bus.kind, Operations[asked.op].app, Field(frame, 45, 40))
           right == Remainder(Shr(frame, 1), Powers7, 7)
<1>4. \/ ~Framed /\ heard' = Nothing /\ reply' = Silence /\ UNCHANGED extCsd
      \/ Framed /\ Checked /\ ~Undamaged /\ Refuse({3})
      \/ Framed /\ (~Checked \/ Undamaged) /\ ops = {} /\ Refuse({2})
      \/ Framed /\ (~Checked \/ Undamaged) /\ \E op \in ops : Accept(op)
  BY DEF CardTakes
<1>5. PICK op, kind, link, v : /\ op = asked.op /\ kind = bus.kind /\ link = bus.link
                               /\ v = asked.values
  OBVIOUS
<1>6. PICK sent : sent = FullFrame
  OBVIOUS
<1>7. sent = Frame(link, Sent(op, v, kind, link))
  BY <1>5, <1>6 DEF FullFrame
<1>8. /\ sent \in Word(48) /\ 47 \notin sent /\ 46 \in sent /\ 0 \in sent
      /\ Remainder(Shr(sent, 1), Powers7, 7) = {}
      /\ Known(link, kind, Operations[op].app, Field(sent, 45, 40)) = {op}
      /\ Meaning(op, kind, Field(sent, 39, 8)) = [op |-> op, values |-> v]
  <2>1. /\ op \in Ops /\ v \in Values(op, kind) /\ link \in Transports
        /\ kind.highCapacity \in BOOLEAN
        /\ kind.type \in Operations[op].kinds /\ link \in Operations[op].links
    BY <1>2, <1>3, <1>5
  <2> QED
    BY <1>7, <2>1, Heard, SMTT(30)
<1>9. ASSUME NEW w
      PROVE  /\ Accept(w) => heard' = Meaning(w, bus.kind, Field(frame, 39, 8))
             /\ Refuse(w) => heard' = Nothing /\ extCsd' = extCsd
             /\ Refuse(w) /\ bus.link # "spi" => reply' = Silence
  BY DEF Accept, Refuse
<1>10. CASE hit = {} /\ frame = sent
  <2>1. Framed /\ Undamaged
    BY <1>8, <1>10 DEF Framed, Undamaged
  <2>2. ops = {asked.op}
    BY <1>5, <1>8, <1>10
  <2>3. \E w \in ops : Accept(w)
    BY <1>4, <2>1, <2>2
  <2>4. Accept(asked.op)
    BY <2>2, <2>3
  <2>5. heard' = Meaning(asked.op, bus.kind, Field(frame, 39, 8))
    BY <1>9, <2>4
  <2>6. heard' = asked
    BY <1>2, <1>5, <1>8, <1>10, <2>5
  <2> QED
    BY <1>10, <2>4, <2>6
<1>11. CASE hit = {"command"} /\ \E noise \in Noise : frame = Xor(sent, noise)
  <2>1. PICK noise \in Noise : frame = Xor(sent, noise)
    BY <1>11
  <2>2. ASSUME Framed PROVE ~Undamaged
    <3>1. PICK index \in SUBSET Int, arg \in Word(32) : sent = HardwareFrame(index, arg)
      BY <1>2, <1>3, <1>5, <1>7, FrameOfACommand
    <3>2. noise \in Word(48) /\ noise # {}
      BY NoiseAssumption, BurstAssumption
    <3>3. PICK k \in 0 .. 47 : noise \subseteq k .. k + 6
      BY BurstAssumption
    <3>4. 47 \notin frame /\ 46 \in frame /\ 0 \in frame
      BY <2>2 DEF Framed
    <3>5. frame = Xor(HardwareFrame(index, arg), noise)
      BY <2>1, <3>1
    <3> QED
      BY <3>2, <3>3, <3>4, <3>5, NoiseIsNoticed DEF Undamaged
  <2>3. CASE ~Framed
    BY <1>4, <1>11, <2>3
  <2>4. CASE Framed /\ Checked
    <3>1. Refuse({3})
      BY <1>4, <2>2, <2>4
    <3> QED
      BY <1>9, <1>11, <3>1
  <2>5. CASE Framed /\ ~Checked
    <3>1. bus.link = "spi" /\ ~bus.strict
      BY <2>5 DEF Checked
    <3>2. CASE Refuse({2})
      BY <1>9, <1>11, <3>2
    <3>3. CASE \E w \in ops : Accept(w)
      <4>1. PICK w \in ops : Accept(w)
        BY <3>3
      <4>2. w \in Ops /\ "spi" \in Operations[w].links
        BY <3>1, <4>1 DEF Known
      <4>3. w # "switch"
        <5>1. Operations["switch"].links = Native
          BY DEF Operations, Operation
        <5>2. "spi" \notin Native
          BY DEF Native
        <5> QED
          BY <4>2, <5>1, <5>2
      <4>4. extCsd' = extCsd /\ heard'.op = w
        BY <4>1, <4>3 DEF Accept, Meaning
      <4> QED
        BY <1>11, <3>1, <4>2, <4>4
    <3> QED
      BY <1>4, <2>5, <3>2, <3>3
  <2> QED
    BY <2>3, <2>4, <2>5
<1> QED
  BY <1>1, <1>6, <1>10, <1>11 DEF Invariant, FrameOK

\* What a SWITCH writes is one of the values there are.
LEMMA WrittenIsKnown ==
    ASSUME NEW kind, NEW v \in Values("switch", kind),
           extCsd.width \in {Number(Widths[w]) : w \in DOMAIN Widths},
           extCsd.timing \in {Number(Timings[t]) : t \in DOMAIN Timings},
           extCsd = [width |-> extCsd.width, timing |-> extCsd.timing]
    PROVE  /\ Written(v) = [width |-> Written(v).width, timing |-> Written(v).timing]
           /\ Written(v).width \in {Number(Widths[w]) : w \in DOMAIN Widths}
           /\ Written(v).timing \in {Number(Timings[t]) : t \in DOMAIN Timings}
           /\ Written(v).width = IF v[1] = Number(3) /\ v[2] = Number(183) THEN v[3]
                                 ELSE extCsd.width
           /\ Written(v).timing = IF v[1] = Number(3) /\ v[2] = Number(185) THEN v[3]
                                  ELSE extCsd.timing
<1>1. \/ \E w \in DOMAIN Widths : v = WriteByte(183, Widths[w])
      \/ \E t \in DOMAIN Timings : v = WriteByte(185, Timings[t])
      \/ v = <<Ones(1), Ones(8), {}>>
      \/ v = <<{}, {}, Ones(8)>>
  BY DEF Values
<1>2. Number(3) # {} /\ Number(3) # Ones(1) /\ Number(183) # Number(185)
  BY NumbersOfTheSwitch
<1>3. Written(v) = CASE v[1] = Number(3) /\ v[2] = Number(183) -> [extCsd EXCEPT !.width = v[3]]
                     [] v[1] = Number(3) /\ v[2] = Number(185) -> [extCsd EXCEPT !.timing = v[3]]
                     [] OTHER -> extCsd
  BY DEF Written
<1>4. /\ Written(v) = [width |-> Written(v).width, timing |-> Written(v).timing]
      /\ Written(v).width = IF v[1] = Number(3) /\ v[2] = Number(183) THEN v[3]
                            ELSE extCsd.width
      /\ Written(v).timing = IF v[1] = Number(3) /\ v[2] = Number(185) THEN v[3]
                             ELSE extCsd.timing
  BY <1>2, <1>3
<1>5. CASE \E w \in DOMAIN Widths : v = WriteByte(183, Widths[w])
  <2>1. PICK w \in DOMAIN Widths : v = WriteByte(183, Widths[w])
    BY <1>5
  <2>2. v[1] = Number(3) /\ v[2] = Number(183) /\ v[3] = Number(Widths[w])
    BY <2>1 DEF WriteByte
  <2> QED
    BY <1>2, <1>4, <2>2
<1>6. CASE \E t \in DOMAIN Timings : v = WriteByte(185, Timings[t])
  <2>1. PICK t \in DOMAIN Timings : v = WriteByte(185, Timings[t])
    BY <1>6
  <2>2. v[1] = Number(3) /\ v[2] = Number(185) /\ v[3] = Number(Timings[t])
    BY <2>1 DEF WriteByte
  <2> QED
    BY <1>2, <1>4, <2>2
<1>7. CASE v = <<Ones(1), Ones(8), {}>> \/ v = <<{}, {}, Ones(8)>>
  <2>1. v[1] = Ones(1) \/ v[1] = {}
    BY <1>7
  <2> QED
    BY <1>2, <1>4, <2>1
<1> QED
  BY <1>1, <1>4, <1>5, <1>6, <1>7

\* What CardTakes lets a card send.
LEMMA CardAnswers == Invariant /\ CardTakes => ReplyOK'
<1> SUFFICES ASSUME Invariant, CardTakes PROVE ReplyOK'
  OBVIOUS
<1> DEFINE ops == Known(bus.link, bus.kind, Operations[asked.op].app, Field(frame, 45, 40))
<1>1. bus' = bus /\ hit' = hit /\ "reply" \notin hit
  BY DEF CardTakes, Invariant, FrameOK
<1>2. \/ heard' = Nothing /\ reply' = Silence
      \/ Refuse({3})
      \/ Refuse({2})
      \/ \E op \in ops : Accept(op)
  BY DEF CardTakes
<1>3. CASE heard' = Nothing /\ reply' = Silence
  <2>1. reply' \in SentBack'
    BY <1>3 DEF SentBack, Refusals
  <2> QED
    BY <1>1, <2>1 DEF ReplyOK
<1>4. CASE Refuse({3}) \/ Refuse({2})
  <2>1. PICK r \in {{2}, {3}} : Refuse(r)
    BY <1>4
  <2>2. heard' = Nothing
        /\ reply' = IF bus.link = "spi" THEN Answer(r, {}, Ones(32)) ELSE Silence
    BY <2>1 DEF Refuse
  <2>3. reply' \in SentBack'
    BY <1>1, <2>2 DEF SentBack, Refusals
  <2> QED
    BY <1>1, <2>3 DEF ReplyOK
<1>5. CASE \E op \in ops : Accept(op)
  <2>1. PICK op \in ops : Accept(op)
    BY <1>5
  <2>2. op \in Ops
    BY <2>1 DEF Known
  <2>3. heard'.op = op /\ heard' # Nothing
    <3>1. heard'.op = op
      BY <2>1 DEF Accept, Meaning
    <3>2. op # "nothing"
      BY <2>2, OpsOfTheTable
    <3> QED
      BY <3>1, <3>2 DEF Nothing
  <2>4. reply' \in Answers(op, heard'.values)
    BY <2>1 DEF Accept, Answers
  <2>5. Answers(op, heard'.values) = (Answers(heard.op, heard.values))'
    BY <1>1, <2>3 DEF Answers
  <2>6. reply' \in SentBack'
    BY <2>3, <2>4, <2>5 DEF SentBack
  <2> QED
    BY <1>1, <2>6 DEF ReplyOK
<1> QED
  BY <1>2, <1>3, <1>4, <1>5

\* CardTakes: the card hears the frame and answers it.
LEMMA CardTakesInvariant == Invariant /\ CardTakes => Invariant'
<1> SUFFICES ASSUME Invariant, CardTakes PROVE Invariant'
  OBVIOUS
<1>1. /\ phase = "sent" /\ phase' = "replied" /\ frame' = {}
      /\ bus' = bus /\ asked' = asked /\ hit' = hit /\ told' = told /\ chosen' = chosen
  BY DEF CardTakes
<1>2. /\ asked = [op |-> asked.op, values |-> asked.values]
      /\ asked.op \in Ops /\ asked # Nothing
      /\ asked.values \in Values(asked.op, bus.kind)
      /\ bus.link \in Operations[asked.op].links
  <2>1. /\ asked = [op |-> asked.op, values |-> asked.values]
        /\ asked.op \in Ops
        /\ asked.values \in Values(asked.op, bus.kind)
        /\ bus.link \in Operations[asked.op].links
    BY <1>1 DEF Invariant, AskedOK
  <2>2. asked.op # "nothing"
    BY <2>1, OpsOfTheTable
  <2> QED
    BY <2>1, <2>2 DEF Nothing
<1>3. bus.link = "spi" => asked.op # "switch"
  <2>1. Operations["switch"].links = Native
    BY DEF Operations, Operation
  <2>2. "spi" \notin Native
    BY DEF Native
  <2> QED
    BY <1>2, <2>1, <2>2
<1>4. \/ hit = {} /\ heard' = asked /\ Accept(asked.op)
      \/ /\ hit = {"command"} /\ heard' = Nothing /\ extCsd' = extCsd
         /\ bus.link # "spi" => reply' = Silence
      \/ /\ hit = {"command"} /\ ~bus.strict /\ bus.link = "spi" /\ extCsd' = extCsd
         /\ heard'.op \in Ops
  BY CardHears
<1>5. /\ extCsd.width \in {Number(Widths[w]) : w \in DOMAIN Widths}
      /\ extCsd.timing \in {Number(Timings[t]) : t \in DOMAIN Timings}
      /\ extCsd = [width |-> extCsd.width, timing |-> extCsd.timing]
  BY DEF Invariant, TypeOK, RegistersOK
<1>6. /\ chosen.width # <<>> => extCsd.width = chosen.width[1]
      /\ chosen.timing # <<>> => extCsd.timing = chosen.timing[1]
  BY <1>1 DEF Invariant, WidthKnown, TimingKnown
<1>7. AskedOK' /\ FrameOK' /\ ReadsBackWhatWasWritten'
  BY <1>1 DEF Invariant, AskedOK, FrameOK, ReadsBackWhatWasWritten
<1>8. ReplyOK'
  BY CardAnswers
<1>9. frame' \in Word(48)
  BY <1>1 DEF Word
<1>10. CASE asked.op = "switch" /\ hit = {} /\ heard' = asked /\ Accept(asked.op)
  <2>1. extCsd' = Written(asked.values)
    BY <1>10 DEF Accept
  <2>2. /\ extCsd' = [width |-> extCsd'.width, timing |-> extCsd'.timing]
        /\ extCsd'.width \in {Number(Widths[w]) : w \in DOMAIN Widths}
        /\ extCsd'.timing \in {Number(Timings[t]) : t \in DOMAIN Timings}
        /\ extCsd'.width = IF asked.values[1] = Number(3) /\ asked.values[2] = Number(183)
                           THEN asked.values[3] ELSE extCsd.width
        /\ extCsd'.timing = IF asked.values[1] = Number(3) /\ asked.values[2] = Number(185)
                            THEN asked.values[3] ELSE extCsd.timing
    <3>1. PICK kind : kind = bus.kind
      OBVIOUS
    <3>2. asked.values \in Values("switch", kind)
      BY <1>2, <1>10, <3>1
    <3> QED
      BY <1>5, <2>1, <3>2, WrittenIsKnown
  <2>3. TypeOK' /\ RegistersOK'
    BY <1>1, <1>9, <1>10, <2>2 DEF Invariant, TypeOK, RegistersOK
  <2>4. ObeysWhatWasAsked' /\ SilenceOK'
    BY <1>1, <1>2, <1>10 DEF ObeysWhatWasAsked, SilenceOK
  <2>5. WidthKnown' /\ TimingKnown'
    BY <1>1, <1>6, <1>10, <2>2 DEF WidthKnown, TimingKnown, Writes
  <2> QED
    BY <1>7, <1>8, <2>3, <2>4, <2>5 DEF Invariant
<1>11. CASE asked.op # "switch" \/ ~(hit = {} /\ heard' = asked /\ Accept(asked.op))
  <2>1. extCsd' = extCsd
    BY <1>4, <1>11 DEF Accept
  <2>2. heard'.op \in Ops \cup {"nothing"}
    BY <1>2, <1>4 DEF Nothing
  <2>3. TypeOK' /\ RegistersOK'
    BY <1>1, <1>9, <2>1, <2>2 DEF Invariant, TypeOK, RegistersOK
  <2>4. ObeysWhatWasAsked'
    BY <1>1, <1>4 DEF ObeysWhatWasAsked
  <2>5. SilenceOK'
    BY <1>1, <1>2, <1>4 DEF SilenceOK, Silence
  <2>6. heard' = asked => ~Writes(183) /\ ~Writes(185)
    BY <1>2, <1>3, <1>4, <1>11 DEF Writes
  <2>7. WidthKnown' /\ TimingKnown'
    BY <1>1, <1>6, <2>1, <2>6 DEF WidthKnown, TimingKnown, Writes
  <2> QED
    BY <1>7, <1>8, <2>3, <2>4, <2>5, <2>7 DEF Invariant
<1> QED
  BY <1>10, <1>11

\* StrikeReply: some noise on the answer.
LEMMA StrikeReplyInvariant == Invariant /\ StrikeReply => Invariant'
<1> SUFFICES ASSUME Invariant, StrikeReply PROVE Invariant'
  OBVIOUS
<1>1. /\ phase = "replied" /\ reply.answered /\ "reply" \notin hit /\ hit' = hit \cup {"reply"}
      /\ bus' = bus /\ phase' = phase /\ asked' = asked /\ frame' = frame /\ heard' = heard
      /\ told' = told /\ extCsd' = extCsd /\ chosen' = chosen
  BY DEF StrikeReply
<1>2. TypeOK' /\ AskedOK' /\ FrameOK'
  BY <1>1 DEF Invariant, TypeOK, AskedOK, FrameOK
<1>3. ObeysWhatWasAsked' /\ SilenceOK' /\ ReadsBackWhatWasWritten'
  BY <1>1 DEF Invariant, ObeysWhatWasAsked, SilenceOK, ReadsBackWhatWasWritten
<1>4. WidthKnown' /\ TimingKnown' /\ RegistersOK'
  BY <1>1 DEF Invariant, WidthKnown, TimingKnown, Writes, RegistersOK
<1>5. ReplyOK'
  <2>1. SentBack' = SentBack
    BY <1>1 DEF SentBack, Refusals, Answers
  <2>2. reply \in SentBack
    BY <1>1 DEF Invariant, ReplyOK
  <2>3. PICK sent : sent = reply
    OBVIOUS
  <2>4. \/ \E b \in 0 .. 7 : bus.link = "spi" /\ reply' = [sent EXCEPT !.r1 = Xor(@, {b})]
        \/ \E noise \in BlockNoise :
             bus.link = "spi" /\ reply' = [sent EXCEPT !.wire = Xor(@, noise)]
        \/ \E noise \in ReplyNoise :
             /\ bus.link # "spi" /\ noise \subseteq 0 .. AnswerSent(heard.op).length - 1
             /\ reply' = [sent EXCEPT !.wire = Xor(@, noise)]
    BY <2>3 DEF StrikeReply
  <2>5. \/ \E b \in 0 .. 7 : bus'.link = "spi" /\ reply' = [sent EXCEPT !.r1 = Xor(@, {b})]
        \/ \E noise \in BlockNoise :
             bus'.link = "spi" /\ reply' = [sent EXCEPT !.wire = Xor(@, noise)]
        \/ \E noise \in ReplyNoise :
             /\ bus'.link # "spi" /\ noise \subseteq 0 .. AnswerSent(heard'.op).length - 1
             /\ reply' = [sent EXCEPT !.wire = Xor(@, noise)]
    BY <1>1, <2>4
  <2>6. sent \in SentBack' /\ sent.answered
    BY <1>1, <2>1, <2>2, <2>3
  <2> HIDE DEF SentBack
  <2> QED
    BY <1>1, <2>5, <2>6 DEF ReplyOK, Struck
<1> QED
  BY <1>2, <1>3, <1>4, <1>5 DEF Invariant

\* The responses the operations have.
LEMMA ResponsesOfTheTable ==
    /\ Operations["reset"].resp = "None" /\ Operations["mmcOpCond"].resp = "R3"
    /\ Operations["allSendCid"].resp = "R2" /\ Operations["publishRca"].resp = "R6"
    /\ Operations["assignRca"].resp = "R1" /\ Operations["setDsr"].resp = "None"
    /\ Operations["ioOpCond"].resp = "R4" /\ Operations["accessMode"].resp = "R1"
    /\ Operations["busWidth"].resp = "R1" /\ Operations["switch"].resp = "R1b"
    /\ Operations["select"].resp = "R1b" /\ Operations["ifCond"].resp = "R7"
    /\ Operations["extCsd"].resp = "R1" /\ Operations["csd"].resp = "R2"
    /\ Operations["cid"].resp = "R2" /\ Operations["voltage"].resp = "R1"
    /\ Operations["stop"].resp = "R1b" /\ Operations["status"].resp = "R1"
    /\ Operations["blockLength"].resp = "R1" /\ Operations["readBlock"].resp = "R1"
    /\ Operations["readBlocks"].resp = "R1" /\ Operations["tuning"].resp = "R1"
    /\ Operations["mmcTuning"].resp = "R1" /\ Operations["writeBlock"].resp = "R1"
    /\ Operations["writeBlocks"].resp = "R1" /\ Operations["eraseStart"].resp = "R1"
    /\ Operations["eraseEnd"].resp = "R1" /\ Operations["erase"].resp = "R1b"
    /\ Operations["opCond"].resp = "R3" /\ Operations["app"].resp = "R1"
    /\ Operations["ocr"].resp = "R3" /\ Operations["ioDirect"].resp = "R5"
    /\ Operations["ioExtended"].resp = "R5" /\ Operations["mmcAllSendCid"].resp = "R2"
    /\ Operations["mmcCsd"].resp = "R2"
BY DEF Operations, Operation

ResponseTypes == {"None", "R1", "R1b", "R2", "R3", "R4", "R5", "R6", "R7"}

\* Every operation expects one of the responses.
LEMMA ExpectedResponses ==
    ASSUME NEW op \in Ops, NEW link
    PROVE  Expected(op, link) \in ResponseTypes
<1>1. Operations[op].resp \in ResponseTypes
  BY ResponsesOfTheTable, OpsOfTheTable DEF ResponseTypes
<1> QED
  BY <1>1 DEF Expected, ResponseTypes

\* The command that HostTakes waits for.
AskedCommand == Sent(asked.op, asked.values, bus.kind, bus.link)

\* It expects the response of its operation.
LEMMA ResponseOfTheCommand ==
    ASSUME Invariant, phase = "replied"
    PROVE  /\ AskedCommand.resp = Expected(asked.op, bus.link)
           /\ AskedCommand.resp \in ResponseTypes
<1>1. asked.op \in Ops /\ asked.values \in Values(asked.op, bus.kind)
  BY DEF Invariant, AskedOK
<1>2. bus.kind.highCapacity \in BOOLEAN
  BY BusLaws DEF Invariant, TypeOK
<1>3. PICK op, kind, link, v : /\ op = asked.op /\ kind = bus.kind /\ link = bus.link
                               /\ v = asked.values
  OBVIOUS
<1>4. Sent(op, v, kind, link).resp = Expected(op, link)
  <2>1. op \in Ops /\ kind.highCapacity \in BOOLEAN /\ v \in Values(op, kind)
    BY <1>1, <1>2, <1>3
  <2>2. Encodes(op, v, kind, link)
    BY <2>1, EveryCommand
  <2> QED
    BY <2>2 DEF Encodes
<1>5. Expected(op, link) \in ResponseTypes
  BY <1>1, <1>3, ExpectedResponses
<1> QED
  BY <1>3, <1>4, <1>5 DEF AskedCommand

\* What a card answers is an answer or silence.
LEMMA AnsweredIsBoolean ==
    ASSUME Invariant, phase = "replied"
    PROVE  reply.answered \in BOOLEAN
<1>1. ASSUME NEW sent \in SentBack
      PROVE  sent = Silence \/ \E r1, body, wire : sent = Answer(r1, body, wire)
  <2>1. CASE heard = Nothing
    BY <1>1, <2>1 DEF SentBack, Refusals
  <2>2. CASE heard # Nothing
    BY <1>1, <2>2 DEF SentBack, Answers
  <2> QED
    BY <2>1, <2>2
<1>2. ASSUME NEW sent \in SentBack
      PROVE  /\ sent.answered \in BOOLEAN
             /\ sent = [answered |-> sent.answered, r1 |-> sent.r1, meant |-> sent.meant,
                        wire |-> sent.wire]
  <2>1. CASE sent = Silence
    BY <2>1 DEF Silence
  <2>2. CASE \E r1, body, wire : sent = Answer(r1, body, wire)
    <3>1. PICK r1, body, wire : sent = Answer(r1, body, wire)
      BY <2>2
    <3> QED
      BY <3>1 DEF Answer
  <2> QED
    BY <1>1, <2>1, <2>2
<1>3. CASE reply \in SentBack
  BY <1>2, <1>3
<1>4. ASSUME NEW sent \in SentBack, sent.answered, Struck(sent) PROVE reply.answered \in BOOLEAN
  <2>1. sent = [answered |-> sent.answered, r1 |-> sent.r1, meant |-> sent.meant,
                wire |-> sent.wire]
    BY <1>2, <1>4
  <2>2. reply.answered = sent.answered
    BY <1>4, <2>1 DEF Struck
  <2> QED
    BY <1>2, <2>2
<1> QED
  BY <1>3, <1>4 DEF Invariant, ReplyOK

\* What a controller is programmed to expect: nothing, or an answer of 48 or 136 bits.
LEMMA Programmed ==
    ASSUME NEW c, c.resp \in ResponseTypes
    PROVE  /\ SdhciEncode(c).response =
                CASE c.resp = "None" -> Receive(0, FALSE)
                  [] c.resp \in {"R1", "R1b", "R5", "R6", "R7"} -> Receive(48, TRUE)
                  [] c.resp = "R2" -> Receive(136, TRUE)
                  [] c.resp \in {"R3", "R4"} -> Receive(48, FALSE)
           /\ DwMmcEncode(c).response = SdhciEncode(c).response
           /\ SdhciEncode(c).response.length \in Nat
           /\ SdhciEncode(c).response.length = 0 <=> c.resp = "None"
BY DEF ResponseTypes, SdhciEncode, DwMmcEncode, Receive

\* What a controller takes for the answer it is told to expect.
Sound(programmed, op) ==
    /\ reply.answered
    /\ programmed.length = AnswerSent(op).length
    /\ WellFramed(reply.wire, programmed.length)
    /\ programmed.crc => Remainder(Field(reply.wire, 127, 1), Powers7, 7) = {}

\* A capture succeeds or fails: it succeeds where nothing is expected, or what is
\* comes, framed and with the checksum that is checked.
LEMMA Captures ==
    ASSUME NEW programmed, NEW op, programmed.length \in Nat, reply.answered \in BOOLEAN
    PROVE  /\ Captured(programmed, op).ok \in BOOLEAN
           /\ Captured(programmed, op).ok <=> programmed.length = 0 \/ Sound(programmed, op)
<1>1. /\ Ok({}).ok = TRUE
      /\ \A e : Err(e).ok = FALSE
  BY DEF Ok, Err
<1>2. CASE programmed.length = 0
  <2>1. Captured(programmed, op) = Ok({})
    BY <1>2 DEF Captured
  <2> QED
    BY <1>1, <1>2, <2>1
<1>3. CASE programmed.length # 0 /\ ~reply.answered
  <2>1. Captured(programmed, op) = Err("Timeout")
    BY <1>3 DEF Captured
  <2> QED
    BY <1>1, <1>3, <2>1 DEF Sound
<1>4. CASE programmed.length # 0 /\ reply.answered
  <2>1. Captured(programmed, op) = IF Sound(programmed, op) THEN Ok({}) ELSE Err("Crc")
    BY <1>4 DEF Captured, Sound
  <2> QED
    BY <1>1, <1>4, <2>1
<1> QED
  BY <1>2, <1>3, <1>4 DEF Sound

\* What Received returns, a response or an error: over SPI by the R1, over a
\* controller by what was captured.
LEMMA Receives ==
    ASSUME Invariant, phase = "replied", NEW c, c = AskedCommand
    PROVE  /\ Received(c).ok \in BOOLEAN
           /\ bus.link # "spi" /\ Received(c).ok =>
                LET response == SdhciEncode(c).response
                    registers == Registers(bus.link, heard.op)
                IN /\ Captured(response, heard.op).ok
                   /\ Received(c) = IF bus.link = "sdhci" THEN SdhciDecode(c.resp, registers)
                                    ELSE DwMmcDecode(c.resp, registers)
<1>1. c.resp \in ResponseTypes
  BY ResponseOfTheCommand
<1>2. reply.answered \in BOOLEAN
  BY AnsweredIsBoolean
<1>3. bus.link \in Transports
  BY BusLaws DEF Invariant, TypeOK
<1>4. \A e : Ok(e).ok = TRUE /\ Err(e).ok = FALSE
  BY DEF Ok, Err
<1>5. /\ SdhciEncode(c).response.length \in Nat
      /\ DwMmcEncode(c).response = SdhciEncode(c).response
  BY <1>1, Programmed
<1>6. Captured(SdhciEncode(c).response, heard.op).ok \in BOOLEAN
  BY <1>2, <1>5, Captures
<1>7. ASSUME NEW r
      PROVE  SdhciDecode(c.resp, r).ok \in BOOLEAN /\ DwMmcDecode(c.resp, r).ok \in BOOLEAN
  BY <1>1, <1>4 DEF SdhciDecode, DwMmcDecode, Response, ResponseTypes
<1>8. CASE bus.link = "spi"
  <2>1. SpiBlock.ok \in BOOLEAN
    BY <1>4 DEF SpiBlock
  <2>2. SpiRead(c.resp, reply.r1, reply.wire, SpiBlock).ok \in BOOLEAN
    <3> HIDE DEF SpiBlock
    <3> QED
      BY <1>4, <2>1 DEF SpiRead, Response
  <2>3. Received(c) = IF reply.answered THEN SpiRead(c.resp, reply.r1, reply.wire, SpiBlock)
                      ELSE Err("Timeout")
    BY <1>8 DEF Received
  <2> QED
    BY <1>2, <1>4, <1>8, <2>2, <2>3
<1>9. CASE bus.link # "spi"
  <2>1. Received(c) = IF Captured(SdhciEncode(c).response, heard.op).ok
                      THEN IF bus.link = "sdhci"
                           THEN SdhciDecode(c.resp, Registers(bus.link, heard.op))
                           ELSE DwMmcDecode(c.resp, Registers(bus.link, heard.op))
                      ELSE Captured(SdhciEncode(c).response, heard.op)
    BY <1>3, <1>5, <1>9 DEF Received, Transports
  <2> QED
    BY <1>6, <1>7, <1>9, <2>1
<1> QED
  BY <1>8, <1>9

\* What the driver learns is a view or an error.
LEMMA LearnedIsEither ==
    ASSUME NEW op, NEW v, NEW r
    PROVE  Learned(op, v, r).ok \in BOOLEAN
<1>1. \A e : Ok(e).ok = TRUE /\ Err(e).ok = FALSE
  BY DEF Ok, Err
<1> QED
  BY <1>1 DEF Learned

\* A command that no card has heard comes to nothing on a controller, unless it
\* expects nothing.
LEMMA UnheardFails ==
    ASSUME Invariant, phase = "replied", bus.link # "spi", heard = Nothing,
           Operations[asked.op].resp # "None"
    PROVE  ~Received(AskedCommand).ok
<1> DEFINE response == SdhciEncode(AskedCommand).response
<1>1. ~reply.answered
  BY DEF Invariant, SilenceOK
<1>2. AskedCommand.resp \in ResponseTypes /\ AskedCommand.resp # "None"
  BY ResponseOfTheCommand DEF Expected
<1>3. response.length \in Nat /\ response.length # 0
  <2>1. PICK c : c = AskedCommand
    OBVIOUS
  <2> QED
    BY <1>2, <2>1, Programmed
<1>4. ~Captured(response, heard.op).ok
  <2>1. reply.answered \in BOOLEAN
    BY AnsweredIsBoolean
  <2> HIDE DEF response
  <2> QED
    BY <1>1, <1>3, <2>1, Captures DEF Sound
<1> QED
  BY <1>4, Receives

\* HostTakes, and a SWITCH: what the driver then knows is what was written.
LEMMA SwitchIsKnown ==
    ASSUME Invariant, HostTakes
    PROVE  /\ WidthKnown' /\ TimingKnown'
           /\ chosen' = [width |-> chosen'.width, timing |-> chosen'.timing]
<1>1. /\ phase = "replied" /\ phase' = "told" /\ asked' = asked /\ heard' = heard
      /\ bus' = bus /\ extCsd' = extCsd /\ chosen' = Believed(told')
      /\ told' = IF Received(AskedCommand).ok
                 THEN Learned(asked.op, asked.values, Received(AskedCommand).view)
                 ELSE Received(AskedCommand)
  BY DEF HostTakes, AskedCommand
<1>2. chosen = [width |-> chosen.width, timing |-> chosen.timing]
  BY DEF Invariant, RegistersOK
<1>3. asked.op = "switch" /\ told'.ok => heard = asked
  <2>1. SUFFICES ASSUME asked.op = "switch", heard # asked PROVE ~told'.ok
    OBVIOUS
  <2>2. Operations["switch"].links = Native /\ Operations["switch"].resp = "R1b"
    BY DEF Operations, Operation
  <2>3. bus.link # "spi"
    <3>1. bus.link \in Operations[asked.op].links
      BY <1>1 DEF Invariant, AskedOK
    <3> QED
      BY <2>1, <2>2, <3>1 DEF Native
  <2>4. bus.strict
    BY <2>3, BusLaws DEF Invariant, TypeOK
  <2>5. heard = Nothing
    BY <1>1, <2>1, <2>4 DEF Invariant, ObeysWhatWasAsked
  <2>6. ~Received(AskedCommand).ok
    BY <1>1, <2>1, <2>2, <2>3, <2>5, UnheardFails
  <2> QED
    BY <1>1, <2>6
<1>4. CASE Writes(183)
  <2>1. chosen' = [chosen EXCEPT !.width = IF told'.ok THEN <<asked.values[3]>> ELSE <<>>]
    <3>1. ASSUME NEW new
          PROVE  Believed(new)
                 = [chosen EXCEPT !.width = IF new.ok THEN <<asked.values[3]>> ELSE <<>>]
      BY <1>4, NumbersOfTheSwitch DEF Believed, Writes
    <3> QED
      BY <1>1, <3>1
  <2>2. /\ chosen'.width = IF told'.ok THEN <<asked.values[3]>> ELSE <<>>
        /\ chosen'.timing = chosen.timing
        /\ chosen' = [width |-> chosen'.width, timing |-> chosen'.timing]
    BY <1>2, <2>1
  <2>3. told'.ok => extCsd.width = asked.values[3]
    BY <1>1, <1>3, <1>4 DEF Invariant, WidthKnown, Writes
  <2>4. WidthKnown'
    BY <1>1, <2>2, <2>3 DEF WidthKnown
  <2>5. ~Writes(185)
    BY <1>4, NumbersOfTheSwitch DEF Writes
  <2>6. TimingKnown'
    BY <1>1, <2>2, <2>5 DEF Invariant, TimingKnown
  <2> QED
    BY <2>2, <2>4, <2>6
<1>5. CASE Writes(185)
  <2>1. Number(183) # Number(185)
    BY NumbersOfTheSwitch
  <2>2. chosen' = [chosen EXCEPT !.timing = IF told'.ok THEN <<asked.values[3]>> ELSE <<>>]
    <3>1. ASSUME NEW new
          PROVE  Believed(new)
                 = [chosen EXCEPT !.timing = IF new.ok THEN <<asked.values[3]>> ELSE <<>>]
      BY <1>5, <2>1 DEF Believed, Writes
    <3> QED
      BY <1>1, <3>1
  <2>3. /\ chosen'.timing = IF told'.ok THEN <<asked.values[3]>> ELSE <<>>
        /\ chosen'.width = chosen.width
        /\ chosen' = [width |-> chosen'.width, timing |-> chosen'.timing]
    BY <1>2, <2>2
  <2>4. told'.ok => extCsd.timing = asked.values[3]
    BY <1>1, <1>3, <1>5 DEF Invariant, TimingKnown, Writes
  <2>5. TimingKnown'
    BY <1>1, <2>3, <2>4 DEF TimingKnown
  <2>6. ~Writes(183)
    BY <1>5, <2>1 DEF Writes
  <2>7. WidthKnown'
    BY <1>1, <2>3, <2>6 DEF Invariant, WidthKnown
  <2> QED
    BY <2>3, <2>5, <2>7
<1>6. CASE ~Writes(183) /\ ~Writes(185)
  <2>1. chosen' = chosen
    BY <1>1, <1>6 DEF Believed, Writes
  <2>2. WidthKnown' /\ TimingKnown'
    BY <1>1, <1>6, <2>1 DEF Invariant, WidthKnown, TimingKnown
  <2> QED
    BY <1>2, <2>1, <2>2
<1> QED
  BY <1>4, <1>5, <1>6

\* Small numbers are different words.
LEMMA SmallNumbers ==
    /\ Number(0) = {} /\ Number(1) = {0} /\ Number(2) = {1} /\ Number(3) = {0, 1}
    /\ Number(4) = {2} /\ Number(5) = {0, 2} /\ Number(6) = {1, 2} /\ Number(7) = {0, 1, 2}
    /\ Number(8) = {3}
<1>1. ASSUME NEW n \in 0 .. 8
      PROVE  Number(n) \subseteq 0 .. 7
  BY BitsOfAByte
<1>2. ASSUME NEW n \in 0 .. 8
      PROVE  /\ 0 \in Number(n) <=> n % 2 = 1
             /\ 1 \in Number(n) <=> (n \div 2) % 2 = 1
             /\ 2 \in Number(n) <=> (n \div 4) % 2 = 1
             /\ 3 \in Number(n) <=> (n \div 8) % 2 = 1
             /\ 4 \notin Number(n) /\ 5 \notin Number(n) /\ 6 \notin Number(n) /\ 7 \notin Number(n)
  BY DEF Number
<1>3. /\ 0 \in 0 .. 8 /\ 1 \in 0 .. 8 /\ 2 \in 0 .. 8 /\ 3 \in 0 .. 8 /\ 4 \in 0 .. 8
      /\ 5 \in 0 .. 8 /\ 6 \in 0 .. 8 /\ 7 \in 0 .. 8 /\ 8 \in 0 .. 8
  OBVIOUS
<1>4. ASSUME NEW n \in 0 .. 8
      PROVE  Number(n) = {b \in 0 .. 3 : \/ b = 0 /\ n % 2 = 1
                                         \/ b = 1 /\ (n \div 2) % 2 = 1
                                         \/ b = 2 /\ (n \div 4) % 2 = 1
                                         \/ b = 3 /\ (n \div 8) % 2 = 1}
  BY <1>1, <1>2
<1>5. Number(0) = {} /\ Number(1) = {0} /\ Number(2) = {1}
  BY <1>3, <1>4
<1>6. Number(3) = {0, 1} /\ Number(4) = {2} /\ Number(5) = {0, 2}
  BY <1>3, <1>4
<1>7. Number(6) = {1, 2} /\ Number(7) = {0, 1, 2} /\ Number(8) = {3}
  BY <1>3, <1>4
<1> QED
  BY <1>5, <1>6, <1>7

\* The width that is read is the one that the byte is the number of.
LEMMA ReadsTheWidth ==
    ASSUME NEW raw, raw[183] \in {Number(Widths[w]) : w \in DOMAIN Widths}
    PROVE  MmcBusWidth(raw) = Named(Widths, raw[183], "Unknown")
<1>1. /\ Widths["Sdr1"] = 0 /\ Widths["Sdr4"] = 1 /\ Widths["Sdr8"] = 2
      /\ DOMAIN Widths = {"Sdr1", "Sdr4", "Sdr8"}
  BY DEF Widths
<1>2. PICK name \in DOMAIN Widths : raw[183] = Number(Widths[name])
  OBVIOUS
<1>3. ASSUME NEW n \in DOMAIN Widths, Number(Widths[n]) = Number(Widths[name]) PROVE n = name
  BY <1>1, <1>3, SmallNumbers
<1>4. Named(Widths, raw[183], "Unknown") = name
  BY <1>2, <1>3 DEF Named
<1>5. MmcBusWidth(raw) = name
  BY <1>1, <1>2, SmallNumbers DEF MmcBusWidth
<1> QED
  BY <1>4, <1>5

\* So is the timing, the lower four bits of its byte.
LEMMA ReadsTheTiming ==
    ASSUME NEW raw, raw[185] \in {Number(Timings[t]) : t \in DOMAIN Timings}
    PROVE  MmcTiming(raw) = Named(Timings, raw[185], "Unknown")
<1>1. /\ Timings["Compat"] = 0 /\ Timings["HighSpeed"] = 1 /\ Timings["Hs200"] = 2
      /\ DOMAIN Timings = {"Compat", "HighSpeed", "Hs200"}
  BY DEF Timings
<1>2. PICK name \in DOMAIN Timings : raw[185] = Number(Timings[name])
  OBVIOUS
<1>3. ASSUME NEW n \in DOMAIN Timings, Number(Timings[n]) = Number(Timings[name]) PROVE n = name
  BY <1>1, <1>3, SmallNumbers
<1>4. Named(Timings, raw[185], "Unknown") = name
  BY <1>2, <1>3 DEF Named
<1>5. raw[185] \cap 0 .. 3 = raw[185]
  BY <1>1, <1>2, SmallNumbers
<1>6. MmcTiming(raw) = name
  BY <1>1, <1>2, <1>5, SmallNumbers DEF MmcTiming
<1> QED
  BY <1>4, <1>6

\* What is read of EXT_CSD is read as R1, and is its bytes.
LEMMA ExtCsdIsRead ==
    ASSUME Invariant, HostTakes, asked.op = "extCsd", told'.ok
    PROVE  told' = Ok(ExtCsdView(RawExtCsd(reply.meant)))
<1>1. /\ phase = "replied"
      /\ told' = IF Received(AskedCommand).ok
                 THEN Learned(asked.op, asked.values, Received(AskedCommand).view)
                 ELSE Received(AskedCommand)
  BY DEF HostTakes, AskedCommand
<1>2. Operations["extCsd"].links = Native /\ Operations["extCsd"].resp = "R1"
  BY DEF Operations, Operation
<1>3. bus.link # "spi"
  <2>1. bus.link \in Operations[asked.op].links
    BY <1>1 DEF Invariant, AskedOK
  <2> QED
    BY <1>2, <2>1 DEF Native
<1>4. Received(AskedCommand).ok
  BY <1>1
<1>5. AskedCommand.resp = "R1"
  BY <1>1, <1>2, ResponseOfTheCommand DEF Expected
<1>6. Received(AskedCommand).view.type = "R1"
  <2>1. PICK c, registers : c = AskedCommand /\ registers = Registers(bus.link, heard.op)
    OBVIOUS
  <2>2. Received(c) = IF bus.link = "sdhci" THEN SdhciDecode(c.resp, registers)
                      ELSE DwMmcDecode(c.resp, registers)
    BY <1>1, <1>3, <1>4, <2>1, Receives
  <2> QED
    BY <1>5, <2>1, <2>2 DEF SdhciDecode, DwMmcDecode, Response, Ok
<1>7. told' = Learned("extCsd", asked.values, Received(AskedCommand).view)
  BY <1>1, <1>4
<1> QED
  BY <1>6, <1>7 DEF Learned

\* HostTakes: the driver learns what came of its command.
LEMMA HostTakesInvariant == Invariant /\ HostTakes => Invariant'
<1> SUFFICES ASSUME Invariant, HostTakes PROVE Invariant'
  OBVIOUS
<1>1. /\ phase = "replied" /\ phase' = "told" /\ bus' = bus /\ asked' = asked /\ frame' = frame
      /\ heard' = heard /\ reply' = reply /\ hit' = hit /\ extCsd' = extCsd
      /\ told' = IF Received(AskedCommand).ok
                 THEN Learned(asked.op, asked.values, Received(AskedCommand).view)
                 ELSE Received(AskedCommand)
      /\ chosen' = Believed(told')
  BY DEF HostTakes, AskedCommand
<1>2. told'.ok \in BOOLEAN
  BY <1>1, Receives, LearnedIsEither
<1>3. TypeOK'
  BY <1>1, <1>2 DEF Invariant, TypeOK
<1>4. AskedOK' /\ FrameOK' /\ SilenceOK' /\ ReplyOK' /\ ObeysWhatWasAsked'
  BY <1>1 DEF Invariant, AskedOK, FrameOK, SilenceOK, ReplyOK, ObeysWhatWasAsked
<1>5. WidthKnown' /\ TimingKnown' /\ RegistersOK'
  BY <1>1, SwitchIsKnown DEF Invariant, RegistersOK
<1>6. ReadsBackWhatWasWritten'
  <2>1. SUFFICES ASSUME asked.op = "extCsd", told'.ok
                 PROVE  /\ chosen'.width # <<>> =>
                             told'.view[2] = Named(Widths, chosen'.width[1], "Unknown")
                        /\ chosen'.timing # <<>> =>
                             told'.view[3] = Named(Timings, chosen'.timing[1], "Unknown")
    BY <1>1 DEF ReadsBackWhatWasWritten
  <2>2. told' = Ok(ExtCsdView(RawExtCsd(reply.meant)))
    BY <2>1, ExtCsdIsRead
  <2>3. PICK raw : raw = RawExtCsd(reply.meant)
    OBVIOUS
  <2>4. told'.view[2] = MmcBusWidth(raw) /\ told'.view[3] = MmcTiming(raw)
    BY <2>2, <2>3 DEF Ok, ExtCsdView
  <2>5. raw[183] = extCsd.width /\ raw[185] = extCsd.timing
    BY <2>3 DEF RawExtCsd
  <2>6. MmcBusWidth(raw) = Named(Widths, extCsd.width, "Unknown")
    BY <2>5, ReadsTheWidth DEF Invariant, TypeOK
  <2>7. MmcTiming(raw) = Named(Timings, extCsd.timing, "Unknown")
    BY <2>5, ReadsTheTiming DEF Invariant, TypeOK
  <2>8. chosen' = chosen
    BY <1>1, <2>1 DEF Believed
  <2>9. /\ chosen.width # <<>> => extCsd.width = chosen.width[1]
        /\ chosen.timing # <<>> => extCsd.timing = chosen.timing[1]
    BY <1>1, <2>1 DEF Invariant, WidthKnown, TimingKnown, Writes
  <2> QED
    BY <2>4, <2>6, <2>7, <2>8, <2>9
<1> QED
  BY <1>3, <1>4, <1>5, <1>6 DEF Invariant

\* Done: the next command may be asked.
LEMMA DoneInvariant == Invariant /\ Done => Invariant'
<1> SUFFICES ASSUME Invariant, Done PROVE Invariant'
  OBVIOUS
<1>1. /\ phase = "told" /\ phase' = "idle" /\ asked' = Nothing /\ heard' = Nothing
      /\ reply' = Silence /\ hit' = {} /\ told' = Ok(<<>>)
      /\ bus' = bus /\ frame' = frame /\ extCsd' = extCsd /\ chosen' = chosen
  BY DEF Done
<1>2. TypeOK'
  BY <1>1 DEF Invariant, TypeOK, Nothing, Ok
<1>3. AskedOK' /\ FrameOK' /\ SilenceOK' /\ ReplyOK'
  BY <1>1 DEF AskedOK, FrameOK, SilenceOK, ReplyOK
<1>4. ObeysWhatWasAsked' /\ ReadsBackWhatWasWritten'
  BY <1>1 DEF ObeysWhatWasAsked, ReadsBackWhatWasWritten
<1>5. WidthKnown' /\ TimingKnown' /\ RegistersOK'
  BY <1>1 DEF Invariant, WidthKnown, TimingKnown, RegistersOK
<1> QED
  BY <1>2, <1>3, <1>4, <1>5 DEF Invariant

\* The invariant is one.
THEOREM InvariantHolds == Spec => []Invariant
<1>1. Init => Invariant
  BY InitInvariant
<1>2. Invariant /\ [Next]_vars => Invariant'
  BY AskInvariant, StrikeCommandInvariant, CardTakesInvariant, StrikeReplyInvariant,
     HostTakesInvariant, DoneInvariant, StutterInvariant DEF Next
<1> QED
  BY <1>1, <1>2, PTL DEF Spec

\* Types, six bytes to a frame, and an EXT_CSD that holds what init means to write.
THEOREM TypesHold == Spec => []TypeOK
<1>1. Invariant => TypeOK
  BY DEF Invariant
<1> QED
  BY <1>1, InvariantHolds, PTL

\* A card that checks its commands obeys what it was asked, or nothing.
THEOREM CardsObey == Spec => []ObeysWhatWasAsked
<1>1. Invariant => ObeysWhatWasAsked
  BY DEF Invariant
<1> QED
  BY <1>1, InvariantHolds, PTL

\* What is read of EXT_CSD is what was last written without an error.
THEOREM WritesAreReadBack == Spec => []ReadsBackWhatWasWritten
<1>1. Invariant => ReadsBackWhatWasWritten
  BY DEF Invariant
<1> QED
  BY <1>1, InvariantHolds, PTL

-----------------------------------------------------------------------------
(* The value of a word.                                                    *)

Bit(w, b, weight) == IF b \in w THEN weight ELSE 0

\* The value of four bits of a word, from bit lo, and that of 24 bits.
Nibble(w, lo) == Bit(w, lo, 1) + Bit(w, lo + 1, 2) + Bit(w, lo + 2, 4) + Bit(w, lo + 3, 8)

Weights(w) ==
    Nibble(w, 0) + 16 * Nibble(w, 4) + 256 * Nibble(w, 8) + 4096 * Nibble(w, 12)
    + 65536 * Nibble(w, 16) + 1048576 * Nibble(w, 20)

\* Four bits have a value below 16; one bit less is a power of two less.
LEMMA NibbleLaws ==
    ASSUME NEW w, NEW lo \in Nat
    PROVE  /\ Nibble(w, lo) \in 0 .. 15
           /\ \A x : x \notin lo .. lo + 3 => Nibble(w \ {x}, lo) = Nibble(w, lo)
           /\ lo \in w => Nibble(w, lo) = 1 + Nibble(w \ {lo}, lo)
           /\ lo + 1 \in w => Nibble(w, lo) = 2 + Nibble(w \ {lo + 1}, lo)
           /\ lo + 2 \in w => Nibble(w, lo) = 4 + Nibble(w \ {lo + 2}, lo)
           /\ lo + 3 \in w => Nibble(w, lo) = 8 + Nibble(w \ {lo + 3}, lo)
<1>1. \A v, b : \A weight \in Nat : Bit(v, b, weight) \in {0, weight}
  BY DEF Bit
<1>2. \A x, b, weight : b # x => Bit(w \ {x}, b, weight) = Bit(w, b, weight)
  BY DEF Bit
<1>3. \A x, weight : x \in w => Bit(w \ {x}, x, weight) = 0 /\ Bit(w, x, weight) = weight
  BY DEF Bit
<1>4. lo # lo + 1 /\ lo # lo + 2 /\ lo # lo + 3 /\ lo + 1 # lo + 2 /\ lo + 1 # lo + 3
      /\ lo + 2 # lo + 3
  OBVIOUS
<1>5. Nibble(w, lo) \in 0 .. 15
  BY <1>1 DEF Nibble
<1>6. \A x : x \notin lo .. lo + 3 => Nibble(w \ {x}, lo) = Nibble(w, lo)
  <2>1. lo \in lo .. lo + 3 /\ lo + 1 \in lo .. lo + 3 /\ lo + 2 \in lo .. lo + 3
        /\ lo + 3 \in lo .. lo + 3
    OBVIOUS
  <2>2. ASSUME NEW x, x \notin lo .. lo + 3
        PROVE  /\ Bit(w \ {x}, lo, 1) = Bit(w, lo, 1)
               /\ Bit(w \ {x}, lo + 1, 2) = Bit(w, lo + 1, 2)
               /\ Bit(w \ {x}, lo + 2, 4) = Bit(w, lo + 2, 4)
               /\ Bit(w \ {x}, lo + 3, 8) = Bit(w, lo + 3, 8)
    <3>1. lo # x /\ lo + 1 # x /\ lo + 2 # x /\ lo + 3 # x
      BY <2>1, <2>2
    <3> QED
      BY <3>1 DEF Bit
  <2> QED
    BY <2>2 DEF Nibble
<1>7. lo \in w => Nibble(w, lo) = 1 + Nibble(w \ {lo}, lo)
  <2>1. SUFFICES ASSUME lo \in w PROVE Nibble(w, lo) = 1 + Nibble(w \ {lo}, lo)
    OBVIOUS
  <2>2. /\ Bit(w \ {lo}, lo + 1, 2) = Bit(w, lo + 1, 2)
        /\ Bit(w \ {lo}, lo + 2, 4) = Bit(w, lo + 2, 4)
        /\ Bit(w \ {lo}, lo + 3, 8) = Bit(w, lo + 3, 8)
    BY <1>4 DEF Bit
  <2>3. Bit(w \ {lo}, lo, 1) = 0 /\ Bit(w, lo, 1) = 1
    BY <1>3, <2>1
  <2>4. Bit(w, lo + 1, 2) \in Int /\ Bit(w, lo + 2, 4) \in Int /\ Bit(w, lo + 3, 8) \in Int
    BY <1>1
  <2> QED
    BY <2>2, <2>3, <2>4 DEF Nibble
<1>8. lo + 1 \in w => Nibble(w, lo) = 2 + Nibble(w \ {lo + 1}, lo)
  <2>1. SUFFICES ASSUME lo + 1 \in w PROVE Nibble(w, lo) = 2 + Nibble(w \ {lo + 1}, lo)
    OBVIOUS
  <2>2. /\ Bit(w \ {lo + 1}, lo, 1) = Bit(w, lo, 1)
        /\ Bit(w \ {lo + 1}, lo + 2, 4) = Bit(w, lo + 2, 4)
        /\ Bit(w \ {lo + 1}, lo + 3, 8) = Bit(w, lo + 3, 8)
    BY <1>4 DEF Bit
  <2>3. Bit(w \ {lo + 1}, lo + 1, 2) = 0 /\ Bit(w, lo + 1, 2) = 2
    BY <1>3, <2>1
  <2>4. Bit(w, lo, 1) \in Int /\ Bit(w, lo + 2, 4) \in Int /\ Bit(w, lo + 3, 8) \in Int
    BY <1>1
  <2> QED
    BY <2>2, <2>3, <2>4 DEF Nibble
<1>9. lo + 2 \in w => Nibble(w, lo) = 4 + Nibble(w \ {lo + 2}, lo)
  <2>1. SUFFICES ASSUME lo + 2 \in w PROVE Nibble(w, lo) = 4 + Nibble(w \ {lo + 2}, lo)
    OBVIOUS
  <2>2. /\ Bit(w \ {lo + 2}, lo, 1) = Bit(w, lo, 1)
        /\ Bit(w \ {lo + 2}, lo + 1, 2) = Bit(w, lo + 1, 2)
        /\ Bit(w \ {lo + 2}, lo + 3, 8) = Bit(w, lo + 3, 8)
    BY <1>4 DEF Bit
  <2>3. Bit(w \ {lo + 2}, lo + 2, 4) = 0 /\ Bit(w, lo + 2, 4) = 4
    BY <1>3, <2>1
  <2>4. Bit(w, lo, 1) \in Int /\ Bit(w, lo + 1, 2) \in Int /\ Bit(w, lo + 3, 8) \in Int
    BY <1>1
  <2> QED
    BY <2>2, <2>3, <2>4 DEF Nibble
<1>10. lo + 3 \in w => Nibble(w, lo) = 8 + Nibble(w \ {lo + 3}, lo)
  <2>1. SUFFICES ASSUME lo + 3 \in w PROVE Nibble(w, lo) = 8 + Nibble(w \ {lo + 3}, lo)
    OBVIOUS
  <2>2. /\ Bit(w \ {lo + 3}, lo, 1) = Bit(w, lo, 1)
        /\ Bit(w \ {lo + 3}, lo + 1, 2) = Bit(w, lo + 1, 2)
        /\ Bit(w \ {lo + 3}, lo + 2, 4) = Bit(w, lo + 2, 4)
    BY <1>4 DEF Bit
  <2>3. Bit(w \ {lo + 3}, lo + 3, 8) = 0 /\ Bit(w, lo + 3, 8) = 8
    BY <1>3, <2>1
  <2>4. Bit(w, lo, 1) \in Int /\ Bit(w, lo + 1, 2) \in Int /\ Bit(w, lo + 2, 4) \in Int
    BY <1>1
  <2> QED
    BY <2>2, <2>3, <2>4 DEF Nibble
<1> QED
  BY <1>5, <1>6, <1>7, <1>8, <1>9, <1>10

\* One bit less, and its weight less.
LEMMA OneBitLess ==
    ASSUME NEW w \in SUBSET (0 .. 23), NEW x \in w
    PROVE  Weights(w) = 2^x + Weights(w \ {x}) /\ 2^x \in Nat \ {0}
<1> DEFINE less == w \ {x}
           N(v, lo) == Nibble(v, lo)
<1>1. ASSUME NEW v
      PROVE  /\ N(v, 0) \in Int /\ N(v, 4) \in Int /\ N(v, 8) \in Int
             /\ N(v, 12) \in Int /\ N(v, 16) \in Int /\ N(v, 20) \in Int
  <2>1. \A lo \in Nat : Nibble(v, lo) \in 0 .. 15
    BY NibbleLaws
  <2> QED
    BY <2>1
<1>2. \A lo \in Nat : x \notin lo .. lo + 3 => N(less, lo) = N(w, lo)
  <2>1. ASSUME NEW lo \in Nat, x \notin lo .. lo + 3
        PROVE  Nibble(less, lo) = Nibble(w, lo)
    BY <2>1, NibbleLaws
  <2> QED
    BY <2>1
<1>3. \A v : Weights(v) = N(v, 0) + 16 * N(v, 4) + 256 * N(v, 8) + 4096 * N(v, 12)
                          + 65536 * N(v, 16) + 1048576 * N(v, 20)
  BY DEF Weights
<1>4. CASE x \in 0 .. 3
  <2>1. N(less, 4) = N(w, 4) /\ N(less, 8) = N(w, 8) /\ N(less, 12) = N(w, 12)
        /\ N(less, 16) = N(w, 16) /\ N(less, 20) = N(w, 20)
    BY <1>2, <1>4
  <2>2. \/ x = 0 /\ 2^x = 1 /\ N(w, 0) = 1 + N(less, 0)
        \/ x = 1 /\ 2^x = 2 /\ N(w, 0) = 2 + N(less, 0)
        \/ x = 2 /\ 2^x = 4 /\ N(w, 0) = 4 + N(less, 0)
        \/ x = 3 /\ 2^x = 8 /\ N(w, 0) = 8 + N(less, 0)
    <3>1. PICK lo \in Nat : lo = 0
      OBVIOUS
    <3>2. /\ lo \in w => N(w, lo) = 1 + N(w \ {lo}, lo)
          /\ lo + 1 \in w => N(w, lo) = 2 + N(w \ {lo + 1}, lo)
          /\ lo + 2 \in w => N(w, lo) = 4 + N(w \ {lo + 2}, lo)
          /\ lo + 3 \in w => N(w, lo) = 8 + N(w \ {lo + 3}, lo)
      BY NibbleLaws
    <3> HIDE DEF N
    <3>3. CASE x = 0
      BY <3>1, <3>2, <3>3
    <3>4. CASE x = 1
      BY <3>1, <3>2, <3>4
    <3>5. CASE x = 2
      BY <3>1, <3>2, <3>5
    <3>6. CASE x = 3
      BY <3>1, <3>2, <3>6
    <3> QED
      BY <1>4, <3>3, <3>4, <3>5, <3>6
  <2> HIDE DEF less, N
  <2>3. Weights(w) = 2^x + Weights(less) /\ 2^x \in Nat \ {0}
    BY <1>1, <1>3, <2>1, <2>2
  <2> QED
    BY <2>3 DEF less
<1>5. CASE x \in 4 .. 7
  <2>1. N(less, 0) = N(w, 0) /\ N(less, 8) = N(w, 8) /\ N(less, 12) = N(w, 12)
        /\ N(less, 16) = N(w, 16) /\ N(less, 20) = N(w, 20)
    BY <1>2, <1>5
  <2>2. \/ x = 4 /\ 2^x = 16 /\ N(w, 4) = 1 + N(less, 4)
        \/ x = 5 /\ 2^x = 32 /\ N(w, 4) = 2 + N(less, 4)
        \/ x = 6 /\ 2^x = 64 /\ N(w, 4) = 4 + N(less, 4)
        \/ x = 7 /\ 2^x = 128 /\ N(w, 4) = 8 + N(less, 4)
    <3>1. PICK lo \in Nat : lo = 4
      OBVIOUS
    <3>2. /\ lo \in w => N(w, lo) = 1 + N(w \ {lo}, lo)
          /\ lo + 1 \in w => N(w, lo) = 2 + N(w \ {lo + 1}, lo)
          /\ lo + 2 \in w => N(w, lo) = 4 + N(w \ {lo + 2}, lo)
          /\ lo + 3 \in w => N(w, lo) = 8 + N(w \ {lo + 3}, lo)
      BY NibbleLaws
    <3> HIDE DEF N
    <3>3. CASE x = 4
      BY <3>1, <3>2, <3>3
    <3>4. CASE x = 5
      BY <3>1, <3>2, <3>4
    <3>5. CASE x = 6
      BY <3>1, <3>2, <3>5
    <3>6. CASE x = 7
      BY <3>1, <3>2, <3>6
    <3> QED
      BY <1>5, <3>3, <3>4, <3>5, <3>6
  <2> HIDE DEF less, N
  <2>3. Weights(w) = 2^x + Weights(less) /\ 2^x \in Nat \ {0}
    BY <1>1, <1>3, <2>1, <2>2
  <2> QED
    BY <2>3 DEF less
<1>6. CASE x \in 8 .. 11
  <2>1. N(less, 0) = N(w, 0) /\ N(less, 4) = N(w, 4) /\ N(less, 12) = N(w, 12)
        /\ N(less, 16) = N(w, 16) /\ N(less, 20) = N(w, 20)
    BY <1>2, <1>6
  <2>2. \/ x = 8 /\ 2^x = 256 /\ N(w, 8) = 1 + N(less, 8)
        \/ x = 9 /\ 2^x = 512 /\ N(w, 8) = 2 + N(less, 8)
        \/ x = 10 /\ 2^x = 1024 /\ N(w, 8) = 4 + N(less, 8)
        \/ x = 11 /\ 2^x = 2048 /\ N(w, 8) = 8 + N(less, 8)
    <3>1. PICK lo \in Nat : lo = 8
      OBVIOUS
    <3>2. /\ lo \in w => N(w, lo) = 1 + N(w \ {lo}, lo)
          /\ lo + 1 \in w => N(w, lo) = 2 + N(w \ {lo + 1}, lo)
          /\ lo + 2 \in w => N(w, lo) = 4 + N(w \ {lo + 2}, lo)
          /\ lo + 3 \in w => N(w, lo) = 8 + N(w \ {lo + 3}, lo)
      BY NibbleLaws
    <3> HIDE DEF N
    <3>3. CASE x = 8
      BY <3>1, <3>2, <3>3
    <3>4. CASE x = 9
      BY <3>1, <3>2, <3>4
    <3>5. CASE x = 10
      BY <3>1, <3>2, <3>5
    <3>6. CASE x = 11
      BY <3>1, <3>2, <3>6
    <3> QED
      BY <1>6, <3>3, <3>4, <3>5, <3>6
  <2> HIDE DEF less, N
  <2>3. Weights(w) = 2^x + Weights(less) /\ 2^x \in Nat \ {0}
    BY <1>1, <1>3, <2>1, <2>2
  <2> QED
    BY <2>3 DEF less
<1>7. CASE x \in 12 .. 15
  <2>1. N(less, 0) = N(w, 0) /\ N(less, 4) = N(w, 4) /\ N(less, 8) = N(w, 8)
        /\ N(less, 16) = N(w, 16) /\ N(less, 20) = N(w, 20)
    BY <1>2, <1>7
  <2>2. \/ x = 12 /\ 2^x = 4096 /\ N(w, 12) = 1 + N(less, 12)
        \/ x = 13 /\ 2^x = 8192 /\ N(w, 12) = 2 + N(less, 12)
        \/ x = 14 /\ 2^x = 16384 /\ N(w, 12) = 4 + N(less, 12)
        \/ x = 15 /\ 2^x = 32768 /\ N(w, 12) = 8 + N(less, 12)
    <3>1. PICK lo \in Nat : lo = 12
      OBVIOUS
    <3>2. /\ lo \in w => N(w, lo) = 1 + N(w \ {lo}, lo)
          /\ lo + 1 \in w => N(w, lo) = 2 + N(w \ {lo + 1}, lo)
          /\ lo + 2 \in w => N(w, lo) = 4 + N(w \ {lo + 2}, lo)
          /\ lo + 3 \in w => N(w, lo) = 8 + N(w \ {lo + 3}, lo)
      BY NibbleLaws
    <3> HIDE DEF N
    <3>3. CASE x = 12
      BY <3>1, <3>2, <3>3
    <3>4. CASE x = 13
      BY <3>1, <3>2, <3>4
    <3>5. CASE x = 14
      BY <3>1, <3>2, <3>5
    <3>6. CASE x = 15
      BY <3>1, <3>2, <3>6
    <3> QED
      BY <1>7, <3>3, <3>4, <3>5, <3>6
  <2> HIDE DEF less, N
  <2>3. Weights(w) = 2^x + Weights(less) /\ 2^x \in Nat \ {0}
    BY <1>1, <1>3, <2>1, <2>2
  <2> QED
    BY <2>3 DEF less
<1>8. CASE x \in 16 .. 19
  <2>1. N(less, 0) = N(w, 0) /\ N(less, 4) = N(w, 4) /\ N(less, 8) = N(w, 8)
        /\ N(less, 12) = N(w, 12) /\ N(less, 20) = N(w, 20)
    BY <1>2, <1>8
  <2>2. \/ x = 16 /\ 2^x = 65536 /\ N(w, 16) = 1 + N(less, 16)
        \/ x = 17 /\ 2^x = 131072 /\ N(w, 16) = 2 + N(less, 16)
        \/ x = 18 /\ 2^x = 262144 /\ N(w, 16) = 4 + N(less, 16)
        \/ x = 19 /\ 2^x = 524288 /\ N(w, 16) = 8 + N(less, 16)
    <3>1. PICK lo \in Nat : lo = 16
      OBVIOUS
    <3>2. /\ lo \in w => N(w, lo) = 1 + N(w \ {lo}, lo)
          /\ lo + 1 \in w => N(w, lo) = 2 + N(w \ {lo + 1}, lo)
          /\ lo + 2 \in w => N(w, lo) = 4 + N(w \ {lo + 2}, lo)
          /\ lo + 3 \in w => N(w, lo) = 8 + N(w \ {lo + 3}, lo)
      BY NibbleLaws
    <3> HIDE DEF N
    <3>3. CASE x = 16
      BY <3>1, <3>2, <3>3
    <3>4. CASE x = 17
      BY <3>1, <3>2, <3>4
    <3>5. CASE x = 18
      BY <3>1, <3>2, <3>5
    <3>6. CASE x = 19
      BY <3>1, <3>2, <3>6
    <3> QED
      BY <1>8, <3>3, <3>4, <3>5, <3>6
  <2> HIDE DEF less, N
  <2>3. Weights(w) = 2^x + Weights(less) /\ 2^x \in Nat \ {0}
    BY <1>1, <1>3, <2>1, <2>2
  <2> QED
    BY <2>3 DEF less
<1>9. CASE x \in 20 .. 23
  <2>1. N(less, 0) = N(w, 0) /\ N(less, 4) = N(w, 4) /\ N(less, 8) = N(w, 8)
        /\ N(less, 12) = N(w, 12) /\ N(less, 16) = N(w, 16)
    BY <1>2, <1>9
  <2>2. \/ x = 20 /\ 2^x = 1048576 /\ N(w, 20) = 1 + N(less, 20)
        \/ x = 21 /\ 2^x = 2097152 /\ N(w, 20) = 2 + N(less, 20)
        \/ x = 22 /\ 2^x = 4194304 /\ N(w, 20) = 4 + N(less, 20)
        \/ x = 23 /\ 2^x = 8388608 /\ N(w, 20) = 8 + N(less, 20)
    <3>1. PICK lo \in Nat : lo = 20
      OBVIOUS
    <3>2. /\ lo \in w => N(w, lo) = 1 + N(w \ {lo}, lo)
          /\ lo + 1 \in w => N(w, lo) = 2 + N(w \ {lo + 1}, lo)
          /\ lo + 2 \in w => N(w, lo) = 4 + N(w \ {lo + 2}, lo)
          /\ lo + 3 \in w => N(w, lo) = 8 + N(w \ {lo + 3}, lo)
      BY NibbleLaws
    <3> HIDE DEF N
    <3>3. CASE x = 20
      BY <3>1, <3>2, <3>3
    <3>4. CASE x = 21
      BY <3>1, <3>2, <3>4
    <3>5. CASE x = 22
      BY <3>1, <3>2, <3>5
    <3>6. CASE x = 23
      BY <3>1, <3>2, <3>6
    <3> QED
      BY <1>9, <3>3, <3>4, <3>5, <3>6
  <2> HIDE DEF less, N
  <2>3. Weights(w) = 2^x + Weights(less) /\ 2^x \in Nat \ {0}
    BY <1>1, <1>3, <2>1, <2>2
  <2> QED
    BY <2>3 DEF less
<1>10. \/ x \in 0 .. 3 \/ x \in 4 .. 7 \/ x \in 8 .. 11
       \/ x \in 12 .. 15 \/ x \in 16 .. 19 \/ x \in 20 .. 23
  OBVIOUS
<1> QED
  BY <1>4, <1>5, <1>6, <1>7, <1>8, <1>9, <1>10

\* Value adds the weights up, whichever bit it takes first.
LEMMA ValueIsTheWeights ==
    ASSUME NEW w \in SUBSET (0 .. 23)
    PROVE  Value(w) = Weights(w)
<1> DEFINE First(s) == CHOOSE x \in s : TRUE
           Sums(f) == f = [s \in SUBSET w |-> IF s = {} THEN 0
                                              ELSE LET x == First(s) IN 2^x + f[s \ {x}]]
           sum == CHOOSE f : Sums(f)
           whole == [s \in SUBSET w |-> Weights(s)]
<1>1. \A s : s # {} => First(s) \in s
  OBVIOUS
<1>2. Weights({}) = 0
  BY DEF Weights, Nibble, Bit
<1>3. ASSUME NEW s \in SUBSET w, s # {}
      PROVE  /\ s \ {First(s)} \in SUBSET w
             /\ Weights(s) = 2^First(s) + Weights(s \ {First(s)})
             /\ 2^First(s) \in Nat \ {0}
  <2>1. First(s) \in s /\ s \in SUBSET (0 .. 23)
    BY <1>1, <1>3
  <2> HIDE DEF First
  <2> QED
    BY <2>1, OneBitLess
<1>4. ASSUME NEW s \in SUBSET w PROVE Weights(s) \in Nat
  <2>1. \A lo \in Nat : Nibble(s, lo) \in 0 .. 15
    BY NibbleLaws
  <2>2. /\ Nibble(s, 0) \in Nat /\ Nibble(s, 4) \in Nat /\ Nibble(s, 8) \in Nat
        /\ Nibble(s, 12) \in Nat /\ Nibble(s, 16) \in Nat /\ Nibble(s, 20) \in Nat
    BY <2>1
  <2> QED
    BY <2>2 DEF Weights
<1> HIDE DEF First
<1>5. Sums(whole)
  <2>1. \A s \in SUBSET w : whole[s] = Weights(s)
    OBVIOUS
  <2>2. \A s \in SUBSET w : whole[s] = IF s = {} THEN 0 ELSE 2^First(s) + whole[s \ {First(s)}]
    BY <1>2, <1>3, <2>1
  <2> QED
    BY <2>2
<1>6. Sums(sum)
  BY <1>5
<1>7. \A s \in SUBSET w : sum[s] = IF s = {} THEN 0 ELSE 2^First(s) + sum[s \ {First(s)}]
  <2> HIDE DEF sum
  <2> QED
    BY <1>6
<1>8. Value(w) = sum[w]
  BY DEF Value, MapThenSumSet, MapThenFoldSet, First
<1> HIDE DEF sum
<1>9. ASSUME NEW s \in SUBSET w, sum[s] # Weights(s) PROVE FALSE
  <2> DEFINE wrong == {Weights(t) : t \in {t \in SUBSET w : sum[t] # Weights(t)}}
  <2>1. wrong \in SUBSET Nat /\ wrong # {}
    BY <1>4, <1>9
  <2>2. PICK n \in wrong : \A m \in wrong : ~(m < n)
    BY <2>1, LeastNumber
  <2>3. PICK t \in SUBSET w : sum[t] # Weights(t) /\ n = Weights(t)
    BY <2>2
  <2>4. t # {}
    BY <1>2, <1>7, <2>3
  <2>5. /\ t \ {First(t)} \in SUBSET w
        /\ Weights(t) = 2^First(t) + Weights(t \ {First(t)})
        /\ 2^First(t) \in Nat \ {0}
    BY <1>3, <2>4
  <2>6. sum[t] = 2^First(t) + sum[t \ {First(t)}]
    BY <1>7, <2>4
  <2>7. sum[t \ {First(t)}] # Weights(t \ {First(t)})
    BY <2>3, <2>5, <2>6
  <2>8. Weights(t \ {First(t)}) \in wrong
    BY <2>5, <2>7
  <2>9. Weights(t \ {First(t)}) \in Nat /\ Weights(t) \in Nat
    BY <1>4, <2>5
  <2>10. Weights(t \ {First(t)}) < n
    BY <2>3, <2>5, <2>9
  <2> QED
    BY <2>2, <2>8, <2>10
<1> QED
  BY <1>8, <1>9

\* The value of a word of four bits.
LEMMA ValueOfFour ==
    ASSUME NEW w \in SUBSET (0 .. 3)
    PROVE  /\ Value(w) = Nibble(w, 0)
           /\ Value(w) \in 0 .. 15
<1>1. Value(w) = Weights(w)
  BY ValueIsTheWeights
<1>2. ASSUME NEW lo \in Nat, lo >= 4 PROVE Nibble(w, lo) = 0
  BY <1>2 DEF Nibble, Bit
<1>3. /\ Nibble(w, 4) = 0 /\ Nibble(w, 8) = 0 /\ Nibble(w, 12) = 0
      /\ Nibble(w, 16) = 0 /\ Nibble(w, 20) = 0
  BY <1>2
<1>4. Nibble(w, 0) \in 0 .. 15
  BY NibbleLaws
<1>5. Weights(w) = Nibble(w, 0)
  BY <1>3, <1>4 DEF Weights
<1> QED
  BY <1>1, <1>4, <1>5

-----------------------------------------------------------------------------
(* What an answer means, field by field.                                   *)

\* CURRENT_STATE.
LEMMA StateOfTheCard ==
    ASSUME NEW raw
    PROVE  CurrentState(raw) = Named(States, Field(raw, 12, 9), "Reserved")
<1> DEFINE w == Field(raw, 12, 9)
<1>1. w \in SUBSET (0 .. 3)
  BY FieldMember
<1> HIDE DEF w
<1>2. Value(w) = Nibble(w, 0) /\ Value(w) \in 0 .. 15
  BY <1>1, ValueOfFour
<1>3. /\ DOMAIN States = {"Idle", "Ready", "Identification", "Standby", "Transfer",
                          "SendingData", "ReceiveData", "Programming", "Disconnect"}
      /\ States["Idle"] = 0 /\ States["Ready"] = 1 /\ States["Identification"] = 2
      /\ States["Standby"] = 3 /\ States["Transfer"] = 4 /\ States["SendingData"] = 5
      /\ States["ReceiveData"] = 6 /\ States["Programming"] = 7 /\ States["Disconnect"] = 8
  BY DEF States
<1>4. /\ Number(States["Idle"]) = {} /\ Number(States["Ready"]) = {0}
      /\ Number(States["Identification"]) = {1} /\ Number(States["Standby"]) = {0, 1}
      /\ Number(States["Transfer"]) = {2} /\ Number(States["SendingData"]) = {0, 2}
      /\ Number(States["ReceiveData"]) = {1, 2} /\ Number(States["Programming"]) = {0, 1, 2}
      /\ Number(States["Disconnect"]) = {3}
  BY <1>3, SmallNumbers
<1>5. CurrentState(raw) = IF Value(w) <= 8 THEN CardStateNames[Value(w) + 1] ELSE "Reserved"
  BY DEF CurrentState, w
<1>6. ASSUME NEW name \in DOMAIN States, Number(States[name]) = w
      PROVE  Named(States, w, "Reserved") = name
  <2>1. ASSUME NEW n \in DOMAIN States, Number(States[n]) = w PROVE n = name
    BY <1>3, <1>4, <1>6, <2>1
  <2> QED
    BY <1>6, <2>1 DEF Named
<1>7. CASE w = {}
  <2>1. Value(w) = 0
    BY <1>2, <1>7 DEF Nibble, Bit
  <2>2. CurrentState(raw) = "Idle"
    BY <1>5, <2>1 DEF CardStateNames
  <2>3. Named(States, w, "Reserved") = "Idle"
    BY <1>3, <1>4, <1>6, <1>7
  <2> QED
    BY <2>2, <2>3 DEF w
<1>8. CASE w = {0}
  <2>1. Value(w) = 1
    BY <1>2, <1>8 DEF Nibble, Bit
  <2>2. CurrentState(raw) = "Ready"
    BY <1>5, <2>1 DEF CardStateNames
  <2>3. Named(States, w, "Reserved") = "Ready"
    BY <1>3, <1>4, <1>6, <1>8
  <2> QED
    BY <2>2, <2>3 DEF w
<1>9. CASE w = {1}
  <2>1. Value(w) = 2
    BY <1>2, <1>9 DEF Nibble, Bit
  <2>2. CurrentState(raw) = "Identification"
    BY <1>5, <2>1 DEF CardStateNames
  <2>3. Named(States, w, "Reserved") = "Identification"
    BY <1>3, <1>4, <1>6, <1>9
  <2> QED
    BY <2>2, <2>3 DEF w
<1>10. CASE w = {0, 1}
  <2>1. Value(w) = 3
    BY <1>2, <1>10 DEF Nibble, Bit
  <2>2. CurrentState(raw) = "Standby"
    BY <1>5, <2>1 DEF CardStateNames
  <2>3. Named(States, w, "Reserved") = "Standby"
    BY <1>3, <1>4, <1>6, <1>10
  <2> QED
    BY <2>2, <2>3 DEF w
<1>11. CASE w = {2}
  <2>1. Value(w) = 4
    BY <1>2, <1>11 DEF Nibble, Bit
  <2>2. CurrentState(raw) = "Transfer"
    BY <1>5, <2>1 DEF CardStateNames
  <2>3. Named(States, w, "Reserved") = "Transfer"
    BY <1>3, <1>4, <1>6, <1>11
  <2> QED
    BY <2>2, <2>3 DEF w
<1>12. CASE w = {0, 2}
  <2>1. Value(w) = 5
    BY <1>2, <1>12 DEF Nibble, Bit
  <2>2. CurrentState(raw) = "SendingData"
    BY <1>5, <2>1 DEF CardStateNames
  <2>3. Named(States, w, "Reserved") = "SendingData"
    BY <1>3, <1>4, <1>6, <1>12
  <2> QED
    BY <2>2, <2>3 DEF w
<1>13. CASE w = {1, 2}
  <2>1. Value(w) = 6
    BY <1>2, <1>13 DEF Nibble, Bit
  <2>2. CurrentState(raw) = "ReceiveData"
    BY <1>5, <2>1 DEF CardStateNames
  <2>3. Named(States, w, "Reserved") = "ReceiveData"
    BY <1>3, <1>4, <1>6, <1>13
  <2> QED
    BY <2>2, <2>3 DEF w
<1>14. CASE w = {0, 1, 2}
  <2>1. Value(w) = 7
    BY <1>2, <1>14 DEF Nibble, Bit
  <2>2. CurrentState(raw) = "Programming"
    BY <1>5, <2>1 DEF CardStateNames
  <2>3. Named(States, w, "Reserved") = "Programming"
    BY <1>3, <1>4, <1>6, <1>14
  <2> QED
    BY <2>2, <2>3 DEF w
<1>15. CASE w = {3}
  <2>1. Value(w) = 8
    BY <1>2, <1>15 DEF Nibble, Bit
  <2>2. CurrentState(raw) = "Disconnect"
    BY <1>5, <2>1 DEF CardStateNames
  <2>3. Named(States, w, "Reserved") = "Disconnect"
    BY <1>3, <1>4, <1>6, <1>15
  <2> QED
    BY <2>2, <2>3 DEF w
<1>16. CASE 3 \in w /\ w # {3}
  <2>1. PICK b \in w : b \in 0 .. 2
    <3>1. \A b \in w : b = 3 \/ b \in 0 .. 2
      BY <1>1
    <3>2. \E b \in w : b # 3
      BY <1>16
    <3> QED
      BY <3>1, <3>2
  <2>2. b = 0 \/ b = 1 \/ b = 2
    BY <2>1
  <2>3. ~(Value(w) <= 8)
    BY <1>2, <1>16, <2>1, <2>2 DEF Nibble, Bit
  <2>4. \A n \in DOMAIN States : Number(States[n]) # w
    BY <1>3, <1>4, <1>16, <2>1, <2>2
  <2>5. Named(States, w, "Reserved") = "Reserved"
    BY <2>4 DEF Named
  <2> QED
    BY <1>5, <2>3, <2>5 DEF w
<1>17. \/ w = {} \/ w = {0} \/ w = {1} \/ w = {0, 1} \/ w = {2} \/ w = {0, 2} \/ w = {1, 2}
       \/ w = {0, 1, 2} \/ 3 \in w
  <2>1. SUFFICES ASSUME 3 \notin w
                 PROVE  \/ w = {} \/ w = {0} \/ w = {1} \/ w = {0, 1} \/ w = {2}
                        \/ w = {0, 2} \/ w = {1, 2} \/ w = {0, 1, 2}
    OBVIOUS
  <2>2. \A b \in w : b = 0 \/ b = 1 \/ b = 2
    BY <1>1, <2>1
  <2> QED
    BY <2>2
<1> QED
  BY <1>7, <1>8, <1>9, <1>10, <1>11, <1>12, <1>13, <1>14, <1>15, <1>16, <1>17

\* The error of an R1 in SPI mode is that of the most important flag.
LEMMA ErrorOfTheCard ==
    ASSUME NEW r1, NEW other, other = SpiCardError(r1)
    PROVE  other = SpiError(r1)
<1> DEFINE flag(i) == SpiErrors[i][1]
           first == CHOOSE i \in 1 .. 6 : flag(i) \in r1 /\ \A j \in 1 .. i - 1 : flag(j) \notin r1
<1>1. /\ flag(1) = 3 /\ flag(2) = 2 /\ flag(3) = 5 /\ flag(4) = 6 /\ flag(5) = 4 /\ flag(6) = 1
      /\ SpiErrors[1][2] = "CommandCrcFailed" /\ SpiErrors[2][2] = "IllegalCommand"
      /\ SpiErrors[3][2] = "AddressError" /\ SpiErrors[4][2] = "AddressError"
      /\ SpiErrors[5][2] = "EraseSequence" /\ SpiErrors[6][2] = "EraseSequence"
  BY DEF SpiErrors
<1>2. \A i \in 1 .. 6 : i = 1 \/ i = 2 \/ i = 3 \/ i = 4 \/ i = 5 \/ i = 6
  OBVIOUS
<1>3. SpiError(r1) = IF \A i \in 1 .. 6 : flag(i) \notin r1 THEN "None" ELSE SpiErrors[first][2]
  BY DEF SpiError
<1>4. ASSUME NEW i \in 1 .. 6, flag(i) \in r1, \A j \in 1 .. i - 1 : flag(j) \notin r1
      PROVE  SpiError(r1) = SpiErrors[i][2]
  <2>1. first \in 1 .. 6 /\ flag(first) \in r1 /\ \A j \in 1 .. first - 1 : flag(j) \notin r1
    BY <1>4
  <2> HIDE DEF first, flag
  <2>2. first = i
    <3>1. CASE first < i
      BY <1>4, <2>1, <3>1
    <3>2. CASE i < first
      BY <1>4, <2>1, <3>2
    <3> QED
      BY <2>1, <3>1, <3>2
  <2> QED
    BY <1>3, <1>4, <2>2
<1> HIDE DEF flag, first
<1>5. ASSUME NEW i \in 1 .. 6, flag(i) \in r1,
             i > 1 => flag(1) \notin r1, i > 2 => flag(2) \notin r1, i > 3 => flag(3) \notin r1,
             i > 4 => flag(4) \notin r1, i > 5 => flag(5) \notin r1
      PROVE  SpiError(r1) = SpiErrors[i][2]
  <2>1. \A j \in 1 .. i - 1 : j < i /\ (j = 1 \/ j = 2 \/ j = 3 \/ j = 4 \/ j = 5)
    OBVIOUS
  <2>2. \A j \in 1 .. i - 1 : flag(j) \notin r1
    BY <1>5, <2>1
  <2> QED
    BY <1>4, <1>5, <2>2
<1>6. /\ 3 \in r1 => SpiError(r1) = "CommandCrcFailed"
      /\ 3 \notin r1 /\ 2 \in r1 => SpiError(r1) = "IllegalCommand"
      /\ 3 \notin r1 /\ 2 \notin r1 /\ 5 \in r1 => SpiError(r1) = "AddressError"
      /\ 3 \notin r1 /\ 2 \notin r1 /\ 5 \notin r1 /\ 6 \in r1 => SpiError(r1) = "AddressError"
  <2>1. 1 \in 1 .. 6 /\ 2 \in 1 .. 6 /\ 3 \in 1 .. 6 /\ 4 \in 1 .. 6
    OBVIOUS
  <2> QED
    BY <1>1, <1>5, <2>1
<1>7. /\ r1 \cap {2, 3, 5, 6} = {} /\ 4 \in r1 => SpiError(r1) = "EraseSequence"
      /\ r1 \cap {2, 3, 5, 6} = {} /\ 4 \notin r1 /\ 1 \in r1 => SpiError(r1) = "EraseSequence"
  <2>1. 5 \in 1 .. 6 /\ 6 \in 1 .. 6
    OBVIOUS
  <2> QED
    BY <1>1, <1>5, <2>1
<1>8. r1 \cap 1 .. 6 = {} => SpiError(r1) = "None"
  BY <1>1, <1>2, <1>3
<1>9. SpiCardError(r1) =
        CASE r1 \cap 1 .. 6 = {} -> "None"
          [] 3 \in r1 -> "CommandCrcFailed"
          [] 3 \notin r1 /\ 2 \in r1 -> "IllegalCommand"
          [] r1 \cap {2, 3} = {} /\ r1 \cap {5, 6} # {} -> "AddressError"
          [] r1 \cap {2, 3, 5, 6} = {} /\ r1 \cap {1, 4} # {} -> "EraseSequence"
  <2> DEFINE bits == r1 \cap 1 .. 6
  <2>1. /\ 3 \in bits <=> 3 \in r1
        /\ 2 \in bits <=> 2 \in r1
        /\ bits \cap 2 .. 3 = r1 \cap {2, 3}
        /\ bits \cap {5, 6} = r1 \cap {5, 6}
        /\ bits \cap {2, 3, 5, 6} = r1 \cap {2, 3, 5, 6}
        /\ bits \cap {1, 4} = r1 \cap {1, 4}
    OBVIOUS
  <2>2. SpiCardError(r1) =
          CASE bits = {} -> "None"
            [] 3 \in bits -> "CommandCrcFailed"
            [] 3 \notin bits /\ 2 \in bits -> "IllegalCommand"
            [] bits \cap 2 .. 3 = {} /\ bits \cap {5, 6} # {} -> "AddressError"
            [] bits \cap {2, 3, 5, 6} = {} /\ bits \cap {1, 4} # {} -> "EraseSequence"
    BY DEF SpiCardError
  <2> HIDE DEF bits
  <2>3. bits = {} <=> r1 \cap 1 .. 6 = {}
    BY DEF bits
  <2> QED
    BY <2>1, <2>2, <2>3
<1>10. CASE r1 \cap 1 .. 6 = {}
  <2>1. SpiCardError(r1) = "None"
    BY <1>9, <1>10
  <2> QED
    BY <1>8, <1>10, <2>1
<1>11. CASE 3 \in r1
  BY <1>6, <1>9, <1>11
<1>12. CASE 3 \notin r1 /\ 2 \in r1
  BY <1>6, <1>9, <1>12
<1>13. CASE 3 \notin r1 /\ 2 \notin r1 /\ (5 \in r1 \/ 6 \in r1)
  BY <1>6, <1>9, <1>13
<1>14. CASE r1 \cap {2, 3, 5, 6} = {} /\ (4 \in r1 \/ 1 \in r1)
  BY <1>7, <1>9, <1>14
<1>15. ASSUME NEW b \in 1 .. 6 PROVE b = 1 \/ b = 2 \/ b = 3 \/ b = 4 \/ b = 5 \/ b = 6
  OBVIOUS
<1> QED
  BY <1>10, <1>11, <1>12, <1>13, <1>14, <1>15

\* One more than a word of n bits has n bits, or is the next power of two.
LEMMA IncrementLaws ==
    ASSUME NEW n \in 0 .. 62, NEW w \in SUBSET (0 .. n - 1)
    PROVE  /\ Increment(w) \subseteq 0 .. n
           /\ Increment(w) # {}
           /\ n \in Increment(w) => Increment(w) = {n}
<1> DEFINE Free(b) == b \notin w /\ Ones(b) \subseteq w
           carry == CHOOSE b \in 0 .. 62 : Free(b)
<1>1. \E b \in 0 .. 62 : Free(b)
  <2> DEFINE free == (0 .. 62) \ w
  <2>1. free \in SUBSET Nat /\ free # {}
    <3>1. n \in 0 .. 62 /\ n \notin w
      OBVIOUS
    <3> QED
      BY <3>1
  <2>2. PICK b \in free : \A c \in free : ~(c < b)
    BY <2>1, LeastNumber
  <2>3. b \in 0 .. 62 /\ b \notin w
    BY <2>2
  <2>4. Ones(b) \subseteq w
    <3>1. ASSUME NEW c \in Ones(b) PROVE c \in w
      <4>1. c \in 0 .. 62 /\ c < b
        BY <2>3 DEF Ones
      <4> QED
        BY <2>2, <4>1
    <3> QED
      BY <3>1
  <2> QED
    BY <2>3, <2>4
<1>2. carry \in 0 .. 62 /\ carry \notin w /\ Ones(carry) \subseteq w
  BY <1>1
<1>3. Increment(w) = (w \ Ones(carry)) \cup {carry}
  BY DEF Increment
<1> HIDE DEF carry
<1>4. carry <= n
  <2>1. SUFFICES ASSUME n < carry PROVE FALSE
    BY <1>2
  <2>2. n \in Ones(carry)
    BY <1>2, <2>1 DEF Ones
  <2> QED
    BY <1>2, <2>2
<1>5. Increment(w) \subseteq 0 .. n /\ Increment(w) # {}
  <2>1. carry \in 0 .. n
    BY <1>2, <1>4
  <2>2. \A b : b \in w => b \in 0 .. n
    OBVIOUS
  <2>3. Increment(w) \subseteq w \cup {carry} /\ carry \in Increment(w)
    BY <1>3, Zenon
  <2> QED
    BY <2>1, <2>2, <2>3, Zenon
<1>6. n \in Increment(w) => Increment(w) = {n}
  <2>1. SUFFICES ASSUME n \in Increment(w) PROVE Increment(w) = {n}
    OBVIOUS
  <2>2. carry = n
    BY <1>3, <2>1
  <2>3. w \subseteq Ones(carry)
    BY <2>2 DEF Ones
  <2> QED
    BY <1>3, <2>2, <2>3
<1> QED
  BY <1>5, <1>6

\* Four bytes, the first of them the highest, are a field of 32 bits.
LEMMA FourBytes ==
    ASSUME NEW w, NEW lo \in Int, NEW bytes,
           \A i \in 0 .. 3 : \A b : b \in bytes[i] <=> b \in 0 .. 7 /\ b + 8 * (3 - i) + lo \in w
    PROVE  FromBytes(bytes, 4) = Field(w, lo + 31, lo)
<1>1. FromBytes(bytes, 4) = Shl(bytes[0], 24, 32) \cup Shl(bytes[1], 16, 32)
                            \cup Shl(bytes[2], 8, 32) \cup Shl(bytes[3], 0, 32)
  <2>1. FromBytes(bytes, 4) = UNION {Shl(bytes[i], 8 * (4 - i - 1), 8 * 4) : i \in 0 .. 4 - 1}
    BY DEF FromBytes
  <2>2. 0 .. 4 - 1 = {0, 1, 2, 3}
    OBVIOUS
  <2>3. UNION {Shl(bytes[i], 8 * (4 - i - 1), 8 * 4) : i \in {0, 1, 2, 3}}
        = Shl(bytes[0], 8 * (4 - 0 - 1), 8 * 4) \cup Shl(bytes[1], 8 * (4 - 1 - 1), 8 * 4)
          \cup Shl(bytes[2], 8 * (4 - 2 - 1), 8 * 4) \cup Shl(bytes[3], 8 * (4 - 3 - 1), 8 * 4)
    <3>1. ASSUME NEW F(_)
          PROVE UNION {F(i) : i \in {0, 1, 2, 3}} = F(0) \cup F(1) \cup F(2) \cup F(3)
      OBVIOUS
    <3> DEFINE F(i) == Shl(bytes[i], 8 * (4 - i - 1), 8 * 4)
    <3>2. UNION {F(i) : i \in {0, 1, 2, 3}} = F(0) \cup F(1) \cup F(2) \cup F(3)
      <4> HIDE DEF F
      <4> QED
        OBVIOUS
    <3> QED
      BY <3>2
  <2> QED
    BY <2>1, <2>2, <2>3
<1>2. \A b : /\ b \in bytes[0] <=> b \in 0 .. 7 /\ b + 24 + lo \in w
             /\ b \in bytes[1] <=> b \in 0 .. 7 /\ b + 16 + lo \in w
             /\ b \in bytes[2] <=> b \in 0 .. 7 /\ b + 8 + lo \in w
             /\ b \in bytes[3] <=> b \in 0 .. 7 /\ b + lo \in w
  <2>1. ASSUME NEW i \in 0 .. 3, NEW b
        PROVE b \in bytes[i] <=> b \in 0 .. 7 /\ b + 8 * (3 - i) + lo \in w
    OBVIOUS
  <2>2. \A b : b \in bytes[0] <=> b \in 0 .. 7 /\ b + 24 + lo \in w
    <3>1. PICK i \in 0 .. 3 : i = 0
      OBVIOUS
    <3> QED
      BY <2>1, <3>1
  <2>3. \A b : b \in bytes[1] <=> b \in 0 .. 7 /\ b + 16 + lo \in w
    <3>1. PICK i \in 0 .. 3 : i = 1
      OBVIOUS
    <3> QED
      BY <2>1, <3>1
  <2>4. \A b : b \in bytes[2] <=> b \in 0 .. 7 /\ b + 8 + lo \in w
    <3>1. PICK i \in 0 .. 3 : i = 2
      OBVIOUS
    <3> QED
      BY <2>1, <3>1
  <2>5. \A b : b \in bytes[3] <=> b \in 0 .. 7 /\ b + lo \in w
    <3>1. PICK i \in 0 .. 3 : i = 3
      OBVIOUS
    <3> QED
      BY <2>1, <3>1
  <2> QED
    BY <2>2, <2>3, <2>4, <2>5
<1>3. /\ \A b : b \in Shl(bytes[0], 24, 32) <=> b \in 24 .. 31 /\ b + lo \in w
      /\ \A b : b \in Shl(bytes[1], 16, 32) <=> b \in 16 .. 23 /\ b + lo \in w
      /\ \A b : b \in Shl(bytes[2], 8, 32) <=> b \in 8 .. 15 /\ b + lo \in w
      /\ \A b : b \in Shl(bytes[3], 0, 32) <=> b \in 0 .. 7 /\ b + lo \in w
  <2>1. \A b : b \in Shl(bytes[0], 24, 32) <=> b \in 24 .. 31 /\ b + lo \in w
    <3>1. \A b : b \in Shl(bytes[0], 24, 32) <=> b \in 0 .. 32 - 1 /\ b - 24 \in bytes[0]
      BY <1>2, ShlMember
    <3>2. \A b \in 0 .. 32 - 1 : b - 24 + 24 + lo = b + lo
      OBVIOUS
    <3> QED
      BY <1>2, <3>1, <3>2
  <2>2. \A b : b \in Shl(bytes[1], 16, 32) <=> b \in 16 .. 23 /\ b + lo \in w
    <3>1. \A b : b \in Shl(bytes[1], 16, 32) <=> b \in 0 .. 32 - 1 /\ b - 16 \in bytes[1]
      BY <1>2, ShlMember
    <3>2. \A b \in 0 .. 32 - 1 : b - 16 + 16 + lo = b + lo
      OBVIOUS
    <3> QED
      BY <1>2, <3>1, <3>2
  <2>3. \A b : b \in Shl(bytes[2], 8, 32) <=> b \in 8 .. 15 /\ b + lo \in w
    <3>1. \A b : b \in Shl(bytes[2], 8, 32) <=> b \in 0 .. 32 - 1 /\ b - 8 \in bytes[2]
      BY <1>2, ShlMember
    <3>2. \A b \in 0 .. 32 - 1 : b - 8 + 8 + lo = b + lo
      OBVIOUS
    <3> QED
      BY <1>2, <3>1, <3>2
  <2>4. \A b : b \in Shl(bytes[3], 0, 32) <=> b \in 0 .. 7 /\ b + lo \in w
    <3>1. \A b : b \in Shl(bytes[3], 0, 32) <=> b \in 0 .. 32 - 1 /\ b - 0 \in bytes[3]
      BY <1>2, ShlMember
    <3> QED
      BY <1>2, <3>1
  <2> QED
    BY <2>1, <2>2, <2>3, <2>4
<1>4. \A b : b \in Field(w, lo + 31, lo) <=> b \in 0 .. 31 /\ b + lo \in w
  <2>1. (lo + 31) - lo = 31
    OBVIOUS
  <2> QED
    BY <2>1, FieldMember
<1>5. \A b : b \in FromBytes(bytes, 4) <=> b \in Field(w, lo + 31, lo)
  <2>1. \A b : b \in 0 .. 31 <=> b \in 24 .. 31 \/ b \in 16 .. 23 \/ b \in 8 .. 15 \/ b \in 0 .. 7
    OBVIOUS
  <2>2. \A b : b \in FromBytes(bytes, 4)
               <=> \/ b \in Shl(bytes[0], 24, 32) \/ b \in Shl(bytes[1], 16, 32)
                   \/ b \in Shl(bytes[2], 8, 32) \/ b \in Shl(bytes[3], 0, 32)
    BY <1>1
  <2> QED
    BY <1>3, <1>4, <2>1, <2>2
<1> QED
  BY <1>5

\* The sixteen bytes of a register of 128 bits, the first of them the highest.
Holds(raw, w) ==
    \A i \in 0 .. 15 : \A b : b \in raw[i] <=> b \in 0 .. 7 /\ b + (120 - 8 * i) \in w

\* What lies in a byte of them.
LEMMA HoldsAt ==
    ASSUME NEW raw, NEW w, Holds(raw, w), NEW i \in 0 .. 15, NEW lo \in Int, lo = 120 - 8 * i
    PROVE  \A b : b \in raw[i] <=> b \in 0 .. 7 /\ b + lo \in w
BY DEF Holds

\* CidView: every field of the CID.
LEMMA CidIsTheTruth ==
    ASSUME NEW raw, NEW w, Holds(raw, w)
    PROVE  CidView(raw) = CidTruth(w)
<1>1. ASSUME NEW i \in 0 .. 15, NEW lo \in Int, lo = 120 - 8 * i, NEW hi \in Int, hi = lo + 7
      PROVE  raw[i] = Field(w, hi, lo)
  <2>1. \A b : b \in raw[i] <=> b \in 0 .. 7 /\ b + lo \in w
    BY <1>1, HoldsAt
  <2>2. \A b : b \in Field(w, hi, lo) <=> b \in 0 .. hi - lo /\ b + lo \in w
    BY FieldMember
  <2>3. hi - lo = 7
    BY <1>1
  <2> QED
    BY <2>1, <2>2, <2>3
<1>2. raw[0] = Field(w, 127, 120) /\ raw[1] = Field(w, 119, 112) /\ raw[2] = Field(w, 111, 104)
  BY <1>1
<1>3. [i \in 1 .. 5 |-> raw[i + 2]] = [i \in 1 .. 5 |-> Field(w, 111 - 8 * i, 104 - 8 * i)]
  <2>1. ASSUME NEW i \in 1 .. 5 PROVE raw[i + 2] = Field(w, 111 - 8 * i, 104 - 8 * i)
    <3>1. PICK j, lo, hi : j = i + 2 /\ lo = 104 - 8 * i /\ hi = 111 - 8 * i
      OBVIOUS
    <3>2. j \in 0 .. 15 /\ lo \in Int /\ hi \in Int /\ lo = 120 - 8 * j /\ hi = lo + 7
      BY <3>1
    <3>3. raw[j] = Field(w, hi, lo)
      BY <1>1, <3>2
    <3> QED
      BY <3>1, <3>3
  <2> QED
    BY <2>1
<1>4. /\ \A b : b \in raw[8] <=> b \in 0 .. 7 /\ b + 56 \in w
      /\ \A b : b \in raw[13] <=> b \in 0 .. 7 /\ b + 16 \in w
      /\ \A b : b \in raw[14] <=> b \in 0 .. 7 /\ b + 8 \in w
  <2>1. 8 \in 0 .. 15 /\ 13 \in 0 .. 15 /\ 14 \in 0 .. 15
    OBVIOUS
  <2> QED
    BY <2>1, HoldsAt
<1>5. /\ \A b : b \in Field(w, 63, 60) <=> b \in 0 .. 63 - 60 /\ b + 60 \in w
      /\ \A b : b \in Field(w, 59, 56) <=> b \in 0 .. 59 - 56 /\ b + 56 \in w
      /\ \A b : b \in Field(w, 19, 12) <=> b \in 0 .. 19 - 12 /\ b + 12 \in w
      /\ \A b : b \in Field(w, 11, 8) <=> b \in 0 .. 11 - 8 /\ b + 8 \in w
  BY FieldMember
<1>6. Shr(raw[8], 4) = Field(w, 63, 60)
  <2>1. \A b : b \in Shr(raw[8], 4) <=> b \in 0 .. 3 /\ b + 60 \in w
    BY <1>4 DEF Shr
  <2> QED
    BY <1>5, <2>1
<1>7. raw[8] \cap 0 .. 3 = Field(w, 59, 56)
  <2>1. \A b : b \in raw[8] \cap 0 .. 3 <=> b \in 0 .. 3 /\ b + 56 \in w
    BY <1>4
  <2> QED
    BY <1>5, <2>1
<1>8. raw[14] \cap 0 .. 3 = Field(w, 11, 8)
  <2>1. \A b : b \in raw[14] \cap 0 .. 3 <=> b \in 0 .. 3 /\ b + 8 \in w
    BY <1>4
  <2> QED
    BY <1>5, <2>1
<1>9. Shl(raw[13] \cap 0 .. 3, 4, 8) \cup Shr(raw[14], 4) = Field(w, 19, 12)
  <2>1. \A b : b \in Shl(raw[13] \cap 0 .. 3, 4, 8) <=> b \in 4 .. 7 /\ b + 12 \in w
    BY <1>4 DEF Shl
  <2>2. \A b : b \in Shr(raw[14], 4) <=> b \in 0 .. 3 /\ b + 12 \in w
    BY <1>4 DEF Shr
  <2>3. \A b : b \in 0 .. 19 - 12 <=> b \in 0 .. 3 \/ b \in 4 .. 7
    OBVIOUS
  <2>4. \A b : b \in Shl(raw[13] \cap 0 .. 3, 4, 8) \cup Shr(raw[14], 4) <=> b \in Field(w, 19, 12)
    BY <1>5, <2>1, <2>2, <2>3
  <2> QED
    BY <2>4
<1>10. FromBytes([i \in 0 .. 3 |-> raw[9 + i]], 4) = Field(w, 55, 24)
  <2> DEFINE bytes == [i \in 0 .. 3 |-> raw[9 + i]]
  <2>1. ASSUME NEW i \in 0 .. 3
        PROVE  \A b : b \in bytes[i] <=> b \in 0 .. 7 /\ b + 8 * (3 - i) + 24 \in w
    <3>1. PICK j, lo : j = 9 + i /\ lo = 8 * (3 - i) + 24
      OBVIOUS
    <3>2. j \in 0 .. 15 /\ lo \in Int /\ lo = 120 - 8 * j
      BY <3>1
    <3>3. \A b : b \in raw[j] <=> b \in 0 .. 7 /\ b + lo \in w
      BY <3>2, HoldsAt
    <3>4. \A b \in Int : b + lo = b + 8 * (3 - i) + 24
      BY <3>1
    <3> QED
      BY <3>1, <3>3, <3>4
  <2>2. PICK lo \in Int : lo = 24
    OBVIOUS
  <2> HIDE DEF bytes
  <2>3. FromBytes(bytes, 4) = Field(w, lo + 31, lo)
    BY <2>1, <2>2, FourBytes
  <2> QED
    BY <2>2, <2>3 DEF bytes
<1> QED
  BY <1>2, <1>3, <1>6, <1>7, <1>8, <1>9, <1>10 DEF CidView, CidTruth

\* C_SIZE, C_SIZE_MULT and READ_BL_LEN, whose sum of bits is at most 45, and the
\* capacity in blocks of both versions of the CSD.
LEMMA CsdIsTheTruth ==
    ASSUME NEW raw, NEW w, Holds(raw, w)
    PROVE  CapacityBlocks(raw) = CsdTruth(w)
<1>1. /\ \A b : b \in raw[0] <=> b \in 0 .. 7 /\ b + 120 \in w
      /\ \A b : b \in raw[5] <=> b \in 0 .. 7 /\ b + 80 \in w
      /\ \A b : b \in raw[6] <=> b \in 0 .. 7 /\ b + 72 \in w
      /\ \A b : b \in raw[7] <=> b \in 0 .. 7 /\ b + 64 \in w
      /\ \A b : b \in raw[8] <=> b \in 0 .. 7 /\ b + 56 \in w
      /\ \A b : b \in raw[9] <=> b \in 0 .. 7 /\ b + 48 \in w
      /\ \A b : b \in raw[10] <=> b \in 0 .. 7 /\ b + 40 \in w
  <2>1. 0 \in 0 .. 15 /\ 5 \in 0 .. 15 /\ 6 \in 0 .. 15 /\ 7 \in 0 .. 15 /\ 8 \in 0 .. 15
        /\ 9 \in 0 .. 15 /\ 10 \in 0 .. 15
    OBVIOUS
  <2> QED
    BY <2>1, HoldsAt
<1>2. /\ \A b : b \in Field(w, 127, 126) <=> b \in 0 .. 127 - 126 /\ b + 126 \in w
      /\ \A b : b \in Field(w, 73, 62) <=> b \in 0 .. 73 - 62 /\ b + 62 \in w
      /\ \A b : b \in Field(w, 49, 47) <=> b \in 0 .. 49 - 47 /\ b + 47 \in w
      /\ \A b : b \in Field(w, 83, 80) <=> b \in 0 .. 83 - 80 /\ b + 80 \in w
      /\ \A b : b \in Field(w, 69, 48) <=> b \in 0 .. 69 - 48 /\ b + 48 \in w
  BY FieldMember
<1>3. CsdVersion(raw) = Field(w, 127, 126)
  <2>1. \A b : b \in Shr(raw[0], 6) <=> b \in 0 .. 1 /\ b + 126 \in w
    BY <1>1 DEF Shr
  <2> QED
    BY <1>2, <2>1 DEF CsdVersion
<1>4. raw[5] \cap 0 .. 3 = Field(w, 83, 80)
  <2>1. \A b : b \in raw[5] \cap 0 .. 3 <=> b \in 0 .. 3 /\ b + 80 \in w
    BY <1>1
  <2> QED
    BY <1>2, <2>1
<1>5. Shl(raw[6] \cap 0 .. 1, 10, 32) \cup Shl(raw[7], 2, 32) \cup Shr(raw[8], 6)
      = Field(w, 73, 62)
  <2>1. \A b : b \in Shl(raw[6] \cap 0 .. 1, 10, 32) <=> b \in 10 .. 11 /\ b + 62 \in w
    BY <1>1, SMTT(30) DEF Shl
  <2>2. \A b : b \in Shl(raw[7], 2, 32) <=> b \in 2 .. 9 /\ b + 62 \in w
    BY <1>1 DEF Shl
  <2>3. \A b : b \in Shr(raw[8], 6) <=> b \in 0 .. 1 /\ b + 62 \in w
    BY <1>1 DEF Shr
  <2>4. \A b : b \in 0 .. 73 - 62 <=> b \in 0 .. 1 \/ b \in 2 .. 9 \/ b \in 10 .. 11
    OBVIOUS
  <2>5. \A b : b \in Shl(raw[6] \cap 0 .. 1, 10, 32) \cup Shl(raw[7], 2, 32) \cup Shr(raw[8], 6)
               <=> b \in Field(w, 73, 62)
    BY <1>2, <2>1, <2>2, <2>3, <2>4, SMTT(30)
  <2> QED
    BY <2>5
<1>6. Shl(raw[9] \cap 0 .. 1, 1, 32) \cup Shr(raw[10], 7) = Field(w, 49, 47)
  <2>1. \A b : b \in Shl(raw[9] \cap 0 .. 1, 1, 32) <=> b \in 1 .. 2 /\ b + 47 \in w
    BY <1>1 DEF Shl
  <2>2. \A b : b \in Shr(raw[10], 7) <=> b \in 0 .. 0 /\ b + 47 \in w
    BY <1>1 DEF Shr
  <2>3. \A b : b \in 0 .. 49 - 47 <=> b \in 0 .. 0 \/ b \in 1 .. 2
    OBVIOUS
  <2>4. \A b : b \in Shl(raw[9] \cap 0 .. 1, 1, 32) \cup Shr(raw[10], 7) <=> b \in Field(w, 49, 47)
    BY <1>2, <2>1, <2>2, <2>3, SMTT(30)
  <2> QED
    BY <2>4
<1>7. Shl(raw[7] \cap 0 .. 5, 16, 32) \cup Shl(raw[8], 8, 32) \cup raw[9] = Field(w, 69, 48)
  <2>1. \A b : b \in Shl(raw[7] \cap 0 .. 5, 16, 32) <=> b \in 16 .. 21 /\ b + 48 \in w
    <3>1. \A c : c \in raw[7] \cap 0 .. 5 <=> c \in 0 .. 5 /\ c + 64 \in w
      BY <1>1
    <3>2. \A b : b \in Shl(raw[7] \cap 0 .. 5, 16, 32)
                 <=> b \in 0 .. 32 - 1 /\ b - 16 \in raw[7] \cap 0 .. 5
      BY ShlMember
    <3>3. \A b \in Int : (b - 16) + 64 = b + 48 /\ (b - 16 \in 0 .. 5 <=> b \in 16 .. 21)
      OBVIOUS
    <3>4. \A b \in 16 .. 21 : b \in 0 .. 32 - 1
      OBVIOUS
    <3> QED
      BY <3>1, <3>2, <3>3, <3>4
  <2>2. \A b : b \in Shl(raw[8], 8, 32) <=> b \in 8 .. 15 /\ b + 48 \in w
    BY <1>1, SMTT(30) DEF Shl
  <2>3. \A b : b \in 0 .. 69 - 48 <=> b \in 0 .. 7 \/ b \in 8 .. 15 \/ b \in 16 .. 21
    OBVIOUS
  <2>4. \A b : b \in Shl(raw[7] \cap 0 .. 5, 16, 32) \cup Shl(raw[8], 8, 32) \cup raw[9]
               <=> b \in Field(w, 69, 48)
    BY <1>1, <1>2, <2>1, <2>2, <2>3
  <2> QED
    BY <2>4
<1> DEFINE size == Field(w, 73, 62)
           mult == Field(w, 49, 47)
           len == Field(w, 83, 80)
<1>8. size \in SUBSET (0 .. 11) /\ mult \in SUBSET (0 .. 3) /\ len \in SUBSET (0 .. 3)
  BY <1>2
<1>9. CsdV1CapacityBlocks(raw) = Shr(Shl(Increment(size), Value(mult) + 2 + Value(len), 64), 9)
  BY <1>4, <1>5, <1>6 DEF CsdV1CapacityBlocks
<1>10. CsdV2CapacityBlocks(raw) = Shl(Increment(Field(w, 69, 48)), 10, 64)
  BY <1>7 DEF CsdV2CapacityBlocks
<1> HIDE DEF size, mult, len
<1>11. Value(mult) \in 0 .. 15 /\ Value(len) \in 0 .. 15
  BY <1>8, ValueOfFour
<1>12. Increment(size) \subseteq 0 .. 12
  <2>1. PICK n \in 0 .. 62 : n = 12
    OBVIOUS
  <2>2. size \in SUBSET (0 .. n - 1)
    BY <1>8, <2>1
  <2> QED
    BY <2>1, <2>2, IncrementLaws
<1>13. Shr(Shl(Increment(size), Value(mult) + 2 + Value(len), 64), 9)
       = Shl(Increment(size), Value(mult) + 2 + Value(len) - 9, 64)
  <2>1. PICK k \in 0 .. 32, less \in Int : k = Value(mult) + 2 + Value(len) /\ less = k - 9
    BY <1>11
  <2>2. PICK inc \in SUBSET Int : inc = Increment(size) /\ inc \subseteq 0 .. 12
    BY <1>12
  <2>3. \A b : b \in Shl(inc, k, 64) <=> b \in 0 .. 64 - 1 /\ b - k \in inc
    BY ShlMember
  <2>4. \A b : b \in Shl(inc, less, 64) <=> b \in 0 .. 64 - 1 /\ b - less \in inc
    BY ShlMember
  <2>5. \A b : b \in Shr(Shl(inc, k, 64), 9) <=> b \in Nat /\ b + 9 \in Shl(inc, k, 64)
    <3>1. Shl(inc, k, 64) \in SUBSET Int
      BY <2>3
    <3> QED
      BY <3>1, ShrMember
  <2>6. ASSUME NEW b \in Nat
        PROVE  b + 9 \in Shl(inc, k, 64) <=> b \in Shl(inc, less, 64)
    <3>1. (b + 9) - k = b - less
      BY <2>1
    <3>2. b - less \in 0 .. 12 => b \in 0 .. 64 - 1 /\ b + 9 \in 0 .. 64 - 1
      BY <2>1
    <3> QED
      BY <2>2, <2>3, <2>4, <3>1, <3>2
  <2>7. \A b : b \in Shr(Shl(inc, k, 64), 9) <=> b \in Shl(inc, less, 64)
    BY <2>4, <2>5, <2>6
  <2>8. Shr(Shl(inc, k, 64), 9) = Shl(inc, less, 64)
    BY <2>7
  <2> QED
    BY <1>11, <2>1, <2>2, <2>8
<1> QED
  BY <1>3, <1>9, <1>10, <1>13 DEF CapacityBlocks, CsdTruth, CsdV1Truth, size, mult, len

\* The block of a register over SPI.
LEMMA SpiHolds ==
    ASSUME NEW w
    PROVE  Holds(Bytes(w, 16), w)
<1>1. ASSUME NEW i \in 0 .. 15
      PROVE  \A b : b \in Bytes(w, 16)[i] <=> b \in 0 .. 7 /\ b + (120 - 8 * i) \in w
  <2>1. PICK lo \in Int : lo = 120 - 8 * i
    OBVIOUS
  <2>2. Bytes(w, 16)[i] = Field(w, lo + 7, lo)
    <3>1. Bytes(w, 16)[i] = Field(w, 8 * (16 - i) - 1, 8 * (16 - i - 1))
      BY DEF Bytes
    <3>2. 8 * (16 - i) - 1 = lo + 7 /\ 8 * (16 - i - 1) = lo
      BY <2>1
    <3> QED
      BY <3>1, <3>2
  <2>3. \A b : b \in Field(w, lo + 7, lo) <=> b \in 0 .. (lo + 7) - lo /\ b + lo \in w
    BY FieldMember
  <2>4. (lo + 7) - lo = 7
    OBVIOUS
  <2> QED
    BY <2>1, <2>2, <2>3, <2>4
<1> QED
  BY <1>1 DEF Holds

\* A byte of a word of 32 bits.
LEMMA ByteOfAWord ==
    ASSUME NEW w, NEW i \in 0 .. 3
    PROVE  \A b : b \in Bytes(w, 4)[i] <=> b \in 0 .. 7 /\ b + (24 - 8 * i) \in w
<1>1. PICK lo \in Int : lo = 24 - 8 * i
  OBVIOUS
<1>2. Bytes(w, 4)[i] = Field(w, lo + 7, lo)
  <2>1. Bytes(w, 4)[i] = Field(w, 8 * (4 - i) - 1, 8 * (4 - i - 1))
    BY DEF Bytes
  <2>2. 8 * (4 - i) - 1 = lo + 7 /\ 8 * (4 - i - 1) = lo
    BY <1>1
  <2> QED
    BY <2>1, <2>2
<1>3. \A b : b \in Field(w, lo + 7, lo) <=> b \in 0 .. (lo + 7) - lo /\ b + lo \in w
  BY FieldMember
<1>4. (lo + 7) - lo = 7
  OBVIOUS
<1> QED
  BY <1>1, <1>2, <1>3, <1>4

\* The four registers of DesignWare.
LEMMA DwMmcHolds ==
    ASSUME NEW w, NEW register, register = [i \in 0 .. 3 |-> Field(w, 32 * i + 31, 32 * i)]
    PROVE  Holds(DwMmcReadR2(register), w)
<1>1. ASSUME NEW i \in 0 .. 15
      PROVE  \A b : b \in DwMmcReadR2(register)[i] <=> b \in 0 .. 7 /\ b + (120 - 8 * i) \in w
  <2>1. PICK q \in 0 .. 3, r \in 0 .. 3 : i = 4 * q + r /\ i \div 4 = q /\ i % 4 = r
    OBVIOUS
  <2>2. DwMmcReadR2(register)[i] = Bytes(register[3 - q], 4)[r]
    BY <2>1 DEF DwMmcReadR2
  <2>3. PICK s \in 0 .. 3, lo \in Int : s = 3 - q /\ lo = 32 * s
    OBVIOUS
  <2>4. register[s] = Field(w, lo + 31, lo)
    BY <2>3
  <2>5. \A b : b \in register[s] <=> b \in 0 .. 31 /\ b + lo \in w
    <3>1. \A b : b \in Field(w, lo + 31, lo) <=> b \in 0 .. (lo + 31) - lo /\ b + lo \in w
      BY FieldMember
    <3>2. (lo + 31) - lo = 31
      OBVIOUS
    <3> QED
      BY <2>4, <3>1, <3>2
  <2>6. \A b : b \in Bytes(register[s], 4)[r] <=> b \in 0 .. 7 /\ b + (24 - 8 * r) \in register[s]
    BY ByteOfAWord
  <2>7. \A b \in 0 .. 7 : b + (24 - 8 * r) \in 0 .. 31
                          /\ (b + (24 - 8 * r)) + lo = b + (120 - 8 * i)
    BY <2>1, <2>3
  <2>8. \A b : b \in Bytes(register[s], 4)[r] <=> b \in 0 .. 7 /\ b + (120 - 8 * i) \in w
    BY <2>5, <2>6, <2>7
  <2> QED
    BY <2>2, <2>3, <2>8
<1> QED
  BY <1>1 DEF Holds

\* The four registers of SDHCI, which hold the register without its CRC.
LEMMA SdhciHolds ==
    ASSUME NEW w, w \subseteq 8 .. 127, NEW register,
           register = [i \in 0 .. 3 |-> Field(Shr(w, 8), 32 * i + 31, 32 * i)]
    PROVE  Holds(SdhciReadR2(register), w)
<1>1. ASSUME NEW s \in 0 .. 3, NEW lo \in Int, lo = 32 * s + 8
      PROVE  \A b : b \in register[s] <=> b \in 0 .. 31 /\ b + lo \in w
  <2>1. PICK low \in Int : low = 32 * s
    OBVIOUS
  <2>2. register[s] = Field(Shr(w, 8), low + 31, low)
    BY <2>1
  <2>3. \A b : b \in Field(Shr(w, 8), low + 31, low)
               <=> b \in 0 .. (low + 31) - low /\ b + low \in Shr(w, 8)
    BY FieldMember
  <2>4. (low + 31) - low = 31
    OBVIOUS
  <2>5. \A c : c \in Shr(w, 8) <=> c \in Nat /\ c + 8 \in w
    BY DEF Shr
  <2>6. \A b \in 0 .. 31 : b + low \in Nat /\ (b + low) + 8 = b + lo
    BY <1>1, <2>1
  <2> QED
    BY <2>2, <2>3, <2>4, <2>5, <2>6
<1> DEFINE word == [i \in 0 .. 3 |-> IF i = 3 THEN Shl(register[0], 8, 32)
                                     ELSE Shl(register[3 - i], 8, 32) \cup Shr(register[2 - i], 24)]
<1>2. ASSUME NEW q \in 0 .. 3, NEW lo \in Int, lo = 96 - 32 * q
      PROVE  \A b : b \in word[q] <=> b \in 0 .. 31 /\ b + lo \in w
  <2>1. CASE q = 3
    <3>1. \A b : b \in register[0] <=> b \in 0 .. 31 /\ b + 8 \in w
      <4>1. PICK s \in 0 .. 3, low \in Int : s = 0 /\ low = 32 * s + 8
        OBVIOUS
      <4>2. \A b : b \in register[s] <=> b \in 0 .. 31 /\ b + low \in w
        BY <1>1, <4>1
      <4> QED
        BY <4>1, <4>2
    <3>2. lo = 0
      BY <1>2, <2>1
    <3>3. \A b : b \in Shl(register[0], 8, 32) <=> b \in 8 .. 31 /\ b \in w
      <4>1. register[0] \in SUBSET Int
        BY <3>1
      <4>2. \A b : b \in Shl(register[0], 8, 32) <=> b \in 0 .. 32 - 1 /\ b - 8 \in register[0]
        BY <4>1, ShlMember
      <4>3. \A b \in 0 .. 32 - 1 : b - 8 \in 0 .. 31 <=> b \in 8 .. 31
        OBVIOUS
      <4>4. \A b \in Int : (b - 8) + 8 = b
        OBVIOUS
      <4>5. \A b \in 8 .. 31 : b \in 0 .. 32 - 1
        OBVIOUS
      <4> QED
        BY <3>1, <4>2, <4>3, <4>4, <4>5
    <3>4. \A b \in w : b \in 8 .. 127
      OBVIOUS
    <3> QED
      BY <2>1, <3>2, <3>3, <3>4
  <2>2. CASE q # 3
    <3>1. PICK s \in 1 .. 3, t \in 0 .. 3 : s = 3 - q /\ t = 2 - q
      BY <2>2
    <3>2. PICK low \in Int, lower \in Int : low = 32 * s + 8 /\ lower = 32 * t + 8
      OBVIOUS
    <3>3. \A b : b \in register[s] <=> b \in 0 .. 31 /\ b + low \in w
      BY <1>1, <3>2
    <3>4. \A b : b \in register[t] <=> b \in 0 .. 31 /\ b + lower \in w
      BY <1>1, <3>2
    <3>5. low = lo + 8 /\ lower = lo - 24
      BY <1>2, <3>1, <3>2
    <3>6. \A b : b \in Shl(register[s], 8, 32) <=> b \in 8 .. 31 /\ b + lo \in w
      <4>1. register[s] \in SUBSET Int
        BY <3>3
      <4>2. \A b : b \in Shl(register[s], 8, 32) <=> b \in 0 .. 32 - 1 /\ b - 8 \in register[s]
        BY <4>1, ShlMember
      <4>3. \A b \in 0 .. 32 - 1 : b - 8 \in 0 .. 31 <=> b \in 8 .. 31
        OBVIOUS
      <4>4. \A b \in Int : (b - 8) + low = b + lo
        BY <3>5
      <4>5. \A b \in 8 .. 31 : b \in 0 .. 32 - 1
        OBVIOUS
      <4>6. \A b \in Int : b - 8 \in register[s] <=> b - 8 \in 0 .. 31 /\ b + lo \in w
        <5>1. ASSUME NEW b \in Int
              PROVE b - 8 \in register[s] <=> b - 8 \in 0 .. 31 /\ b + lo \in w
          <6>1. PICK c \in Int : c = b - 8
            OBVIOUS
          <6>2. c \in register[s] <=> c \in 0 .. 31 /\ c + low \in w
            BY <3>3
          <6>3. c + low = b + lo
            BY <4>4, <6>1
          <6> QED
            BY <6>1, <6>2, <6>3
        <5> QED
          BY <5>1
      <4>7. ASSUME NEW b \in 0 .. 32 - 1
            PROVE b \in Shl(register[s], 8, 32) <=> b \in 8 .. 31 /\ b + lo \in w
        <5>1. b \in Shl(register[s], 8, 32) <=> b - 8 \in register[s]
          BY <4>2
        <5>2. b - 8 \in register[s] <=> b - 8 \in 0 .. 31 /\ b + lo \in w
          BY <4>6
        <5>3. b - 8 \in 0 .. 31 <=> b \in 8 .. 31
          BY <4>3
        <5> QED
          BY <5>1, <5>2, <5>3
      <4>8. \A b : b \notin 0 .. 32 - 1 => b \notin Shl(register[s], 8, 32) /\ b \notin 8 .. 31
        BY <4>2, <4>5
      <4> QED
        BY <4>7, <4>8
    <3>7. \A b : b \in Shr(register[t], 24) <=> b \in 0 .. 7 /\ b + lo \in w
      <4>1. register[t] \in SUBSET Int
        BY <3>4
      <4>2. \A b : b \in Shr(register[t], 24) <=> b \in Nat /\ b + 24 \in register[t]
        BY <4>1, ShrMember
      <4>3. \A b \in Nat : b + 24 \in 0 .. 31 <=> b \in 0 .. 7
        OBVIOUS
      <4>4. \A b \in Nat : (b + 24) + lower = b + lo
        BY <3>5
      <4>5. ASSUME NEW b \in Nat
            PROVE b + 24 \in register[t] <=> b + 24 \in 0 .. 31 /\ b + lo \in w
        <5>1. PICK c \in Int : c = b + 24
          OBVIOUS
        <5>2. c \in register[t] <=> c \in 0 .. 31 /\ c + lower \in w
          BY <3>4
        <5>3. c + lower = b + lo
          BY <4>4, <5>1
        <5> QED
          BY <5>1, <5>2, <5>3
      <4>6. \A b : b \in 0 .. 7 => b \in Nat
        OBVIOUS
      <4> QED
        BY <4>2, <4>3, <4>5, <4>6
    <3>8. word[q] = Shl(register[s], 8, 32) \cup Shr(register[t], 24)
      BY <2>2, <3>1
    <3>9. \A b : b \in 0 .. 31 <=> b \in 0 .. 7 \/ b \in 8 .. 31
      OBVIOUS
    <3> HIDE DEF word
    <3> QED
      BY <3>6, <3>7, <3>8, <3>9
  <2> QED
    BY <2>1, <2>2
<1>3. \A i \in 0 .. 15 : SdhciReadR2(register)[i] = Bytes(word[i \div 4], 4)[i % 4]
  BY DEF SdhciReadR2
<1> HIDE DEF word
<1>4. ASSUME NEW i \in 0 .. 15
      PROVE  \A b : b \in SdhciReadR2(register)[i] <=> b \in 0 .. 7 /\ b + (120 - 8 * i) \in w
  <2>1. PICK q \in 0 .. 3, r \in 0 .. 3 : i = 4 * q + r /\ i \div 4 = q /\ i % 4 = r
    OBVIOUS
  <2>2. SdhciReadR2(register)[i] = Bytes(word[q], 4)[r]
    BY <1>3, <2>1
  <2>3. PICK lo \in Int : lo = 96 - 32 * q
    OBVIOUS
  <2>4. \A b : b \in word[q] <=> b \in 0 .. 31 /\ b + lo \in w
    BY <1>2, <2>3
  <2>5. \A b : b \in Bytes(word[q], 4)[r] <=> b \in 0 .. 7 /\ b + (24 - 8 * r) \in word[q]
    BY ByteOfAWord
  <2>6. \A b \in 0 .. 7 : b + (24 - 8 * r) \in 0 .. 31
                          /\ (b + (24 - 8 * r)) + lo = b + (120 - 8 * i)
    BY <2>1, <2>3
  <2> QED
    BY <2>2, <2>4, <2>5, <2>6
<1> QED
  BY <1>4 DEF Holds

\* The upper half of a byte of a register.
LEMMA UpperNibble ==
    ASSUME NEW byte, NEW w, NEW k \in Int, \A b : b \in byte <=> b \in 0 .. 7 /\ b + k \in w
    PROVE  \A b : b \in Shr(byte, 4) <=> b \in 0 .. 3 /\ b + k + 4 \in w
<1>1. byte \in SUBSET Int
  OBVIOUS
<1>2. \A b : b \in Shr(byte, 4) <=> b \in Nat /\ b + 4 \in byte
  BY <1>1, ShrMember
<1>3. \A b \in Nat : b + 4 \in byte <=> b + 4 \in 0 .. 7 /\ (b + 4) + k \in w
  OBVIOUS
<1>4. \A b \in Nat : (b + 4 \in 0 .. 7 <=> b \in 0 .. 3) /\ (b + 4) + k = b + k + 4
  OBVIOUS
<1> QED
  BY <1>2, <1>3, <1>4

\* The answer to CMD6, 64 bytes of it.
LEMMA SwitchIsTheTruth ==
    ASSUME NEW w
    PROVE  SwitchView(Bytes(w, 64)) = SwitchTruth(w)
<1> DEFINE raw == Bytes(w, 64)
<1>1. ASSUME NEW i \in 0 .. 63, NEW lo \in Int, lo = 504 - 8 * i
      PROVE  \A b : b \in raw[i] <=> b \in 0 .. 7 /\ b + lo \in w
  <2>1. raw[i] = Field(w, lo + 7, lo)
    <3>1. raw[i] = Field(w, 8 * (64 - i) - 1, 8 * (64 - i - 1))
      BY DEF Bytes
    <3>2. 8 * (64 - i) - 1 = lo + 7 /\ 8 * (64 - i - 1) = lo
      BY <1>1
    <3> QED
      BY <3>1, <3>2
  <2>2. \A b : b \in Field(w, lo + 7, lo) <=> b \in 0 .. (lo + 7) - lo /\ b + lo \in w
    BY FieldMember
  <2>3. (lo + 7) - lo = 7
    OBVIOUS
  <2> QED
    BY <2>1, <2>2, <2>3
<1> HIDE DEF raw
<1>2. /\ \A b : b \in raw[13] <=> b \in 0 .. 7 /\ b + 400 \in w
      /\ \A b : b \in raw[14] <=> b \in 0 .. 7 /\ b + 392 \in w
      /\ \A b : b \in raw[15] <=> b \in 0 .. 7 /\ b + 384 \in w
      /\ \A b : b \in raw[16] <=> b \in 0 .. 7 /\ b + 376 \in w
  BY <1>1
<1>3. /\ \A b : b \in Field(w, 379, 376) <=> b \in 0 .. 379 - 376 /\ b + 376 \in w
      /\ \A b : b \in Field(w, 383, 380) <=> b \in 0 .. 383 - 380 /\ b + 380 \in w
      /\ \A b : b \in Field(w, 387, 384) <=> b \in 0 .. 387 - 384 /\ b + 384 \in w
      /\ \A b : b \in Field(w, 391, 388) <=> b \in 0 .. 391 - 388 /\ b + 388 \in w
      /\ \A b : b \in Field(w, 395, 392) <=> b \in 0 .. 395 - 392 /\ b + 392 \in w
      /\ \A b : b \in Field(w, 399, 396) <=> b \in 0 .. 399 - 396 /\ b + 396 \in w
  BY FieldMember
<1>4. /\ raw[16] \cap 0 .. 3 = Field(w, 379, 376)
      /\ raw[15] \cap 0 .. 3 = Field(w, 387, 384)
      /\ raw[14] \cap 0 .. 3 = Field(w, 395, 392)
  <2>1. 379 - 376 = 3 /\ 387 - 384 = 3 /\ 395 - 392 = 3
    OBVIOUS
  <2>2. \A b : b \in 0 .. 3 => b \in 0 .. 7
    OBVIOUS
  <2>3. raw[16] \cap 0 .. 3 = Field(w, 379, 376)
    BY <1>2, <1>3, <2>1, <2>2
  <2>4. raw[15] \cap 0 .. 3 = Field(w, 387, 384)
    BY <1>2, <1>3, <2>1, <2>2
  <2>5. raw[14] \cap 0 .. 3 = Field(w, 395, 392)
    BY <1>2, <1>3, <2>1, <2>2
  <2> QED
    BY <2>3, <2>4, <2>5
<1>5. Shr(raw[16], 4) = Field(w, 383, 380)
  <2>1. \A b : b \in Shr(raw[16], 4) <=> b \in 0 .. 3 /\ b + 380 \in w
    <3>1. PICK k \in Int : k = 376
      OBVIOUS
    <3>2. \A b : b \in raw[16] <=> b \in 0 .. 7 /\ b + k \in w
      BY <1>2, <3>1
    <3>3. \A b : b \in Shr(raw[16], 4) <=> b \in 0 .. 3 /\ b + k + 4 \in w
      BY <3>2, UpperNibble
    <3>4. \A b \in Int : b + k + 4 = b + 380
      BY <3>1
    <3> QED
      BY <3>3, <3>4
  <2> QED
    BY <1>3, <2>1
<1>6. Shr(raw[15], 4) = Field(w, 391, 388)
  <2>1. \A b : b \in Shr(raw[15], 4) <=> b \in 0 .. 3 /\ b + 388 \in w
    <3>1. PICK k \in Int : k = 384
      OBVIOUS
    <3>2. \A b : b \in raw[15] <=> b \in 0 .. 7 /\ b + k \in w
      BY <1>2, <3>1
    <3>3. \A b : b \in Shr(raw[15], 4) <=> b \in 0 .. 3 /\ b + k + 4 \in w
      BY <3>2, UpperNibble
    <3>4. \A b \in Int : b + k + 4 = b + 388
      BY <3>1
    <3> QED
      BY <3>3, <3>4
  <2> QED
    BY <1>3, <2>1
<1>7. Shr(raw[14], 4) = Field(w, 399, 396)
  <2>1. \A b : b \in Shr(raw[14], 4) <=> b \in 0 .. 3 /\ b + 396 \in w
    <3>1. PICK k \in Int : k = 392
      OBVIOUS
    <3>2. \A b : b \in raw[14] <=> b \in 0 .. 7 /\ b + k \in w
      BY <1>2, <3>1
    <3>3. \A b : b \in Shr(raw[14], 4) <=> b \in 0 .. 3 /\ b + k + 4 \in w
      BY <3>2, UpperNibble
    <3>4. \A b \in Int : b + k + 4 = b + 396
      BY <3>1
    <3> QED
      BY <3>3, <3>4
  <2> QED
    BY <1>3, <2>1
<1>8. [group \in 1 .. 6 |-> SelectedFunction(raw, group)]
      = [group \in 1 .. 6 |-> Field(w, Selections[group][1], Selections[group][2])]
  <2>1. /\ Selections[1] = <<379, 376>> /\ Selections[2] = <<383, 380>>
        /\ Selections[3] = <<387, 384>> /\ Selections[4] = <<391, 388>>
        /\ Selections[5] = <<395, 392>> /\ Selections[6] = <<399, 396>>
    BY DEF Selections
  <2>2. /\ SelectedFunction(raw, 1) = Field(w, Selections[1][1], Selections[1][2])
        /\ SelectedFunction(raw, 2) = Field(w, Selections[2][1], Selections[2][2])
        /\ SelectedFunction(raw, 3) = Field(w, Selections[3][1], Selections[3][2])
        /\ SelectedFunction(raw, 4) = Field(w, Selections[4][1], Selections[4][2])
        /\ SelectedFunction(raw, 5) = Field(w, Selections[5][1], Selections[5][2])
        /\ SelectedFunction(raw, 6) = Field(w, Selections[6][1], Selections[6][2])
    BY <1>4, <1>5, <1>6, <1>7, <2>1 DEF SelectedFunction
  <2>3. \A group \in 1 .. 6 : \/ group = 1 \/ group = 2 \/ group = 3
                              \/ group = 4 \/ group = 5 \/ group = 6
    OBVIOUS
  <2>4. \A group \in 1 .. 6 :
           SelectedFunction(raw, group) = Field(w, Selections[group][1], Selections[group][2])
    BY <2>2, <2>3
  <2> QED
    BY <2>4
<1>9. [function \in 0 .. 7 |-> function \in raw[13]]
      = [function \in 0 .. 7 |-> 400 + function \in w]
  <2>1. \A function \in 0 .. 7 : (function \in raw[13]) = (400 + function \in w)
    <3>1. \A function \in 0 .. 7 : function + 400 = 400 + function
      OBVIOUS
    <3> QED
      BY <1>2, <3>1
  <2> QED
    BY <2>1
<1> QED
  BY <1>8, <1>9 DEF SwitchView, SwitchTruth, raw

\* SEC_COUNT, whose four bytes come with the lowest first, and DEVICE_TYPE.
LEMMA ExtCsdIsTheTruth ==
    ASSUME NEW w, w.sectors \in Word(32), NEW raw, raw = RawExtCsd(w),
           extCsd.width \in {Number(Widths[x]) : x \in DOMAIN Widths},
           extCsd.timing \in {Number(Timings[t]) : t \in DOMAIN Timings}
    PROVE  ExtCsdView(raw)
           = <<IF w.sectors = {} THEN <<>> ELSE <<w.sectors>>,
               Named(Widths, extCsd.width, "Unknown"), Named(Timings, extCsd.timing, "Unknown"),
               <<0 \in w.device, 1 \in w.device, 4 \in w.device \/ 5 \in w.device>>>>
<1>1. raw[183] = extCsd.width /\ raw[185] = extCsd.timing /\ raw[196] = w.device
  BY DEF RawExtCsd
<1>2. MmcBusWidth(raw) = Named(Widths, extCsd.width, "Unknown")
  BY <1>1, ReadsTheWidth
<1>3. MmcTiming(raw) = Named(Timings, extCsd.timing, "Unknown")
  BY <1>1, ReadsTheTiming
<1>4. DeviceTypes(raw) = <<0 \in w.device, 1 \in w.device, 4 \in w.device \/ 5 \in w.device>>
  <2>1. (w.device \cap 4 .. 5 # {}) = (4 \in w.device \/ 5 \in w.device)
    <3>1. \A b : b \in 4 .. 5 <=> b = 4 \/ b = 5
      OBVIOUS
    <3> QED
      BY <3>1
  <2> QED
    BY <1>1, <2>1 DEF DeviceTypes
<1>5. FromBytes([i \in 0 .. 3 |-> raw[212 + 3 - i]], 4) = w.sectors
  <2> DEFINE bytes == [i \in 0 .. 3 |-> raw[212 + 3 - i]]
  <2>1. ASSUME NEW i \in 0 .. 3
        PROVE  \A b : b \in bytes[i] <=> b \in 0 .. 7 /\ b + 8 * (3 - i) + 0 \in w.sectors
    <3>1. PICK j, lo : j = 212 + 3 - i /\ lo = 8 * (3 - i)
      OBVIOUS
    <3>2. j \in 212 .. 215 /\ lo \in Int /\ lo = 8 * (j - 212)
      BY <3>1
    <3>3. raw[j] = Field(w.sectors, lo + 7, lo)
      BY <3>2 DEF RawExtCsd
    <3>4. \A b : b \in Field(w.sectors, lo + 7, lo)
                 <=> b \in 0 .. (lo + 7) - lo /\ b + lo \in w.sectors
      BY <3>2, FieldMember
    <3>5. (lo + 7) - lo = 7
      BY <3>2
    <3>6. bytes[i] = raw[j]
      BY <3>1
    <3>7. \A b \in Int : b + lo = b + 8 * (3 - i) + 0
      BY <3>1
    <3> QED
      BY <3>3, <3>4, <3>5, <3>6, <3>7
  <2>2. PICK lo \in Int : lo = 0
    OBVIOUS
  <2> HIDE DEF bytes
  <2>3. FromBytes(bytes, 4) = Field(w.sectors, lo + 31, lo)
    BY <2>1, <2>2, FourBytes
  <2>4. Field(w.sectors, lo + 31, lo) = w.sectors
    <3>1. \A b : b \in Field(w.sectors, lo + 31, lo)
                 <=> b \in 0 .. (lo + 31) - lo /\ b + lo \in w.sectors
      BY FieldMember
    <3>2. (lo + 31) - lo = 31 /\ \A b \in Int : b + lo = b
      BY <2>2
    <3>3. w.sectors \subseteq 0 .. 31
      BY DEF Word
    <3> QED
      BY <3>1, <3>2, <3>3
  <2> QED
    BY <2>3, <2>4 DEF bytes
<1> QED
  BY <1>2, <1>3, <1>4, <1>5 DEF ExtCsdView, SectorCount

\* What is built of fields lies in them.
LEMMA BuiltWithin ==
    ASSUME NEW fields, NEW values, NEW S,
           \A i \in DOMAIN fields : \A b \in values[i] : b + fields[i][2] \in S
    PROVE  Built(fields, values) \subseteq S
BY DEF Built, Shl

\* What is built of samples of fields lies where the fields do.
LEMMA AllBuiltWithin ==
    ASSUME NEW fields, NEW lo \in Nat, NEW hi \in Nat,
           \A i \in DOMAIN fields : /\ fields[i][1] \in lo .. hi /\ fields[i][2] \in lo .. hi
                                    /\ fields[i][2] <= fields[i][1],
           NEW body \in AllBuilt(fields)
    PROVE  body \in SUBSET (lo .. hi)
<1>1. PICK v \in Samples(fields) : body = Built(fields, v)
  BY DEF AllBuilt
<1>2. \A i \in DOMAIN fields : fields[i][1] \in Int /\ Width(fields[i]) \in Nat
  BY DEF Width
<1>3. Fits(v, fields)
  BY <1>2, FillingsFit
<1>4. ASSUME NEW i \in DOMAIN fields, NEW b \in v[i] PROVE b + fields[i][2] \in lo .. hi
  <2>1. v[i] \subseteq 0 .. Width(fields[i]) - 1
    BY <1>3 DEF Fits, Word
  <2>2. PICK up, low : up = fields[i][1] /\ low = fields[i][2]
    OBVIOUS
  <2>3. up \in lo .. hi /\ low \in lo .. hi /\ low <= up
    BY <2>2
  <2>4. b \in 0 .. (up - low + 1) - 1
    BY <2>1, <2>2 DEF Width
  <2>5. b + low \in lo .. hi
    BY <2>3, <2>4
  <2> QED
    BY <2>2, <2>5
<1>5. body \subseteq lo .. hi
  BY <1>1, <1>4, BuiltWithin
<1> QED
  BY <1>5

\* The operations that are answered with a register of 128 bits.
Registered == {"csd", "cid", "allSendCid", "mmcCsd", "mmcAllSendCid"}

\* The registers of a card have nothing in place of their CRC.
LEMMA RegistersEndAtTheCrc ==
    ASSUME NEW op \in Registered, NEW values, NEW body \in Bodies(op, values)
    PROVE  body \in SUBSET (8 .. 127)
<1>0. Operations[op].resp = "R2"
  BY ResponsesOfTheTable DEF Registered
<1>1. ASSUME NEW filling, NEW l \in 9 .. 11 PROVE CsdV1(filling, l) \subseteq 8 .. 127
  <2>1. Number(l) \subseteq 0 .. 7
    BY BitsOfAByte
  <2>2. \A b : b \in Shl(Number(l), 80, 128) => b \in 80 .. 87
    BY <2>1 DEF Shl
  <2> QED
    BY <2>2 DEF CsdV1
<1>2. ASSUME NEW v \in SUBSET (0 .. 1) PROVE \A b \in Shl(v, 126, 128) : b \in 126 .. 127
  BY DEF Shl
<1>3. CASE op = "csd"
  <2>1. Bodies(op, values) = Csds
    BY <1>0, <1>3 DEF Bodies
  <2>2. CASE body \in {CsdV1(filling, l) : filling \in Fillings, l \in 9 .. 11}
    BY <1>1, <2>2
  <2>3. CASE body \in {CsdV2(filling, v) : filling \in Fillings, v \in {{0}, {1}}}
    <3>1. PICK filling \in Fillings, v \in {{0}, {1}} : body = CsdV2(filling, v)
      BY <2>3
    <3>2. v \in SUBSET (0 .. 1)
      OBVIOUS
    <3> QED
      BY <1>2, <3>1, <3>2 DEF CsdV2
  <2> QED
    BY <2>1, <2>2, <2>3 DEF Csds
<1>4. CASE op = "mmcCsd"
  <2>1. Bodies(op, values) = MmcCsds
    BY <1>0, <1>4 DEF Bodies
  <2>2. PICK filling \in Fillings, l \in 9 .. 11, structure \in SUBSET {0, 1} :
           body = CsdV1(filling, l) \cup Shl(structure, 126, 128)
    BY <2>1 DEF MmcCsds
  <2>3. structure \in SUBSET (0 .. 1)
    OBVIOUS
  <2>4. \A b \in CsdV1(filling, l) : b \in 8 .. 127
    BY <1>1
  <2>5. \A b \in Shl(structure, 126, 128) : b \in 8 .. 127
    BY <1>2, <2>3
  <2>6. \A b \in body : b \in 8 .. 127
    BY <2>2, <2>4, <2>5
  <2> QED
    BY <2>6
<1>5. CASE op \in {"cid", "allSendCid"}
  <2>1. Bodies(op, values) = AllBuilt(Cid)
    BY <1>0, <1>5 DEF Bodies
  <2>2. /\ DOMAIN Cid = 1 .. 8
        /\ Cid[1] = <<127, 120>> /\ Cid[2] = <<119, 104>> /\ Cid[3] = <<103, 64>>
        /\ Cid[4] = <<63, 60>> /\ Cid[5] = <<59, 56>> /\ Cid[6] = <<55, 24>>
        /\ Cid[7] = <<19, 12>> /\ Cid[8] = <<11, 8>>
    BY DEF Cid
  <2>3. \A i \in 1 .. 8 : i = 1 \/ i = 2 \/ i = 3 \/ i = 4 \/ i = 5 \/ i = 6 \/ i = 7 \/ i = 8
    OBVIOUS
  <2>4. PICK lo \in Nat, hi \in Nat : lo = 8 /\ hi = 127
    OBVIOUS
  <2>5. PICK fields : fields = Cid
    OBVIOUS
  <2>6. \A i \in DOMAIN fields : /\ fields[i][1] \in lo .. hi /\ fields[i][2] \in lo .. hi
                                 /\ fields[i][2] <= fields[i][1]
    BY <2>2, <2>3, <2>4, <2>5
  <2>7. body \in AllBuilt(fields)
    BY <2>1, <2>5
  <2>8. body \in SUBSET (lo .. hi)
    BY <2>6, <2>7, AllBuiltWithin
  <2> QED
    BY <2>4, <2>8
<1>6. CASE op = "mmcAllSendCid"
  <2>1. Bodies(op, values) = AllBuilt(MmcCid)
    BY <1>0, <1>6 DEF Bodies
  <2>2. /\ DOMAIN MmcCid = 1 .. 8
        /\ MmcCid[1] = <<127, 120>> /\ MmcCid[2] = <<113, 112>> /\ MmcCid[3] = <<111, 104>>
        /\ MmcCid[4] = <<103, 56>> /\ MmcCid[5] = <<55, 48>> /\ MmcCid[6] = <<47, 16>>
        /\ MmcCid[7] = <<15, 12>> /\ MmcCid[8] = <<11, 8>>
    BY DEF MmcCid
  <2>3. \A i \in 1 .. 8 : i = 1 \/ i = 2 \/ i = 3 \/ i = 4 \/ i = 5 \/ i = 6 \/ i = 7 \/ i = 8
    OBVIOUS
  <2>4. PICK lo \in Nat, hi \in Nat : lo = 8 /\ hi = 127
    OBVIOUS
  <2>5. PICK fields : fields = MmcCid
    OBVIOUS
  <2>6. \A i \in DOMAIN fields : /\ fields[i][1] \in lo .. hi /\ fields[i][2] \in lo .. hi
                                 /\ fields[i][2] <= fields[i][1]
    BY <2>2, <2>3, <2>4, <2>5
  <2>7. body \in AllBuilt(fields)
    BY <2>1, <2>5
  <2>8. body \in SUBSET (lo .. hi)
    BY <2>6, <2>7, AllBuiltWithin
  <2> QED
    BY <2>4, <2>8
<1> QED
  BY <1>3, <1>4, <1>5, <1>6 DEF Registered

\* The pattern of CMD8 comes back as it was sent; a line that stays high does not
\* hold it.
LEMMA IfCondIsVerified ==
    ASSUME NEW kind, NEW v \in Values("ifCond", kind), NEW body \in Bodies("ifCond", v)
    PROVE  /\ body = {8, 7, 5, 3, 1}
           /\ Verify(body, v[1], v[2]) /\ ~Verify(Ones(32), v[1], v[2])
<1>1. v = <<{0}, {7, 5, 3, 1}>>
  BY DEF Values
<1>2. body = Built(<<<<11, 8>>, <<7, 0>>>>, v)
  <2>1. Operations["ifCond"].resp = "R7"
    BY ResponsesOfTheTable
  <2> QED
    BY <2>1 DEF Bodies
<1>3. v[1] = {0} /\ v[2] = {7, 5, 3, 1}
  BY <1>1
<1>4. body = {8, 7, 5, 3, 1}
  <2> DEFINE fields == <<<<11, 8>>, <<7, 0>>>>
  <2>1. DOMAIN fields = {1, 2} /\ fields[1][2] = 8 /\ fields[2][2] = 0
    OBVIOUS
  <2>2. body = UNION {Shl(v[i], fields[i][2], 512) : i \in DOMAIN fields}
    BY <1>2 DEF Built
  <2> HIDE DEF fields
  <2>3. body = Shl(v[1], 8, 512) \cup Shl(v[2], 0, 512)
    BY <2>1, <2>2
  <2>4. Shl({0}, 8, 512) = {8} /\ Shl({7, 5, 3, 1}, 0, 512) = {7, 5, 3, 1}
    BY DEF Shl
  <2> QED
    BY <1>3, <2>3, <2>4
<1>5. Field(body, 11, 8) = {0}
  <2>1. \A b : b \in Field(body, 11, 8) <=> b \in 0 .. 11 - 8 /\ b + 8 \in body
    BY FieldMember
  <2> QED
    BY <1>4, <2>1
<1>6. body \cap 0 .. 7 = {7, 5, 3, 1}
  BY <1>4
<1>7. 1 \in Field(Ones(32), 11, 8)
  <2>1. \A b : b \in Field(Ones(32), 11, 8) <=> b \in 0 .. 11 - 8 /\ b + 8 \in Ones(32)
    BY FieldMember
  <2> QED
    BY <2>1 DEF Ones
<1>8. 1 \notin {0}
  OBVIOUS
<1> QED
  BY <1>3, <1>4, <1>5, <1>6, <1>7, <1>8 DEF Verify

-----------------------------------------------------------------------------
(* An answer on a native bus.                                              *)

\* Which responses go with which operations.
LEMMA ResponsesDecide ==
    ASSUME NEW op \in Ops
    PROVE  /\ Operations[op].resp \in ResponseTypes
           /\ Operations[op].resp = "None" <=> op \in {"reset", "setDsr"}
           /\ Operations[op].resp = "R2" <=> op \in Registered
           /\ Operations[op].resp = "R3" <=> op \in {"ocr", "opCond", "mmcOpCond"}
           /\ Operations[op].resp = "R4" <=> op = "ioOpCond"
           /\ Operations[op].resp = "R5" <=> op \in {"ioDirect", "ioExtended"}
           /\ Operations[op].resp = "R6" <=> op = "publishRca"
           /\ Operations[op].resp = "R7" <=> op = "ifCond"
           /\ op \in {"extCsd", "accessMode"} => Operations[op].resp = "R1"
<1>1. /\ Operations[op].resp = "None" <=> op \in {"reset", "setDsr"}
      /\ Operations[op].resp = "R2" <=> op \in Registered
  BY ResponsesOfTheTable, OpsOfTheTable DEF Registered
<1>2. /\ Operations[op].resp = "R3" <=> op \in {"ocr", "opCond", "mmcOpCond"}
      /\ Operations[op].resp = "R4" <=> op = "ioOpCond"
  BY ResponsesOfTheTable, OpsOfTheTable
<1>3. /\ Operations[op].resp = "R5" <=> op \in {"ioDirect", "ioExtended"}
      /\ Operations[op].resp = "R6" <=> op = "publishRca"
  BY ResponsesOfTheTable, OpsOfTheTable
<1>4. /\ Operations[op].resp = "R7" <=> op = "ifCond"
      /\ op \in {"extCsd", "accessMode"} => Operations[op].resp = "R1"
  BY ResponsesOfTheTable, OpsOfTheTable
<1>5. Operations[op].resp \in ResponseTypes
  BY ResponsesOfTheTable, OpsOfTheTable DEF ResponseTypes
<1> QED
  BY <1>1, <1>2, <1>3, <1>4, <1>5

\* Whatever is sealed keeps what it has above the checksum, and passes the check.
LEMMA SealedLaws ==
    ASSUME NEW body \in SUBSET (8 .. 127)
    PROVE  /\ \A b : b \in Sealed(body) => b \in 0 .. 7 \/ b \in body
           /\ \A b : b \in body => b \in Sealed(body)
           /\ 0 \in Sealed(body)
           /\ Remainder(Shr(Sealed(body), 1), Powers7, 7) = {}
<1> DEFINE whole == Sealed(body)
           data == Shr(body, 1)
           check == Remainder(data, Powers7, 7)
           R(w) == Remainder(w, Powers7, 7)
<1>1. check \subseteq 0 .. 6
  <2>1. check \subseteq 0 .. 7 - 1
    BY RemainderMember
  <2> QED
    BY <2>1
<1>2. \A b : b \in Shl(check, 1, 48) <=> b \in 1 .. 7 /\ b - 1 \in check
  <2>1. \A b : b \in Shl(check, 1, 48) <=> b \in 0 .. 48 - 1 /\ b - 1 \in check
    <3>1. check \in SUBSET Int
      BY <1>1
    <3> HIDE DEF check
    <3> QED
      BY <3>1, ShlMember
  <2>2. \A b \in 0 .. 48 - 1 : b - 1 \in check => b \in 1 .. 7
    <3>1. \A c \in check : c \in 0 .. 6
      BY <1>1
    <3> HIDE DEF check
    <3>2. \A b \in 0 .. 48 - 1 : b - 1 \in 0 .. 6 => b \in 1 .. 7
      OBVIOUS
    <3> QED
      BY <3>1, <3>2
  <2>3. \A b \in 1 .. 7 : b \in 0 .. 48 - 1
    OBVIOUS
  <2> HIDE DEF check
  <2> QED
    BY <2>1, <2>2, <2>3
<1>3. \A b : b \in whole <=> b \in body \/ (b \in 1 .. 7 /\ b - 1 \in check) \/ b = 0
  <2>1. whole = body \cup Shl(check, 1, 48) \cup {0}
    BY DEF Sealed
  <2> HIDE DEF whole, check
  <2> QED
    BY <1>2, <2>1
<1>4. \A b : b \in data <=> b \in Nat /\ b + 1 \in body
  <2>1. body \in SUBSET Int
    OBVIOUS
  <2> QED
    BY <2>1, ShrMember
<1> HIDE DEF whole, check, data
<1>5. data \subseteq 7 .. 126
  BY <1>4
<1>6. whole \in SUBSET Int
  <2>1. \A b \in body : b \in Int
    OBVIOUS
  <2>2. \A b \in 1 .. 7 : b \in Int
    OBVIOUS
  <2>3. 0 \in Int
    OBVIOUS
  <2>4. \A b \in whole : b \in Int
    BY <1>3, <2>1, <2>2, <2>3, Zenon
  <2> QED
    BY <2>4
<1>7. Shr(whole, 1) = Xor(data, check)
  <2>1. \A b : b \in Shr(whole, 1) <=> b \in Nat /\ b + 1 \in whole
    BY <1>6, ShrMember
  <2>2. \A b \in Nat : b \in Shr(whole, 1) <=> b \in Xor(data, check)
    <3> TAKE b \in Nat
    <3>1. (b + 1) - 1 = b /\ b + 1 # 0
      OBVIOUS
    <3>2. b \in Shr(whole, 1) <=> b \in data \/ (b \in 0 .. 6 /\ b \in check)
      BY <1>3, <1>4, <2>1, <3>1
    <3>3. ~(b \in data /\ b \in check)
      BY <1>1, <1>5
    <3>4. b \in Xor(data, check) <=> ~(b \in data <=> b \in check)
      BY XorMember
    <3> QED
      BY <1>1, <3>2, <3>3, <3>4
  <2>3. Xor(data, check) \subseteq Nat /\ Shr(whole, 1) \subseteq Nat
    BY <1>1, <1>5, <2>1 DEF Xor
  <2> QED
    BY <2>2, <2>3
<1>8. R(Shr(whole, 1)) = {}
  <2>1. IsFiniteSet(data) /\ IsFiniteSet(check)
    <3>1. PICK n \in Nat : n = 126
      OBVIOUS
    <3>2. data \subseteq 0 .. n /\ check \subseteq 0 .. n
      BY <1>1, <1>5, <3>1
    <3> QED
      BY <3>2, WordsAreFinite
  <2>2. R(Xor(data, check)) = Xor(R(data), R(check))
    BY <2>1, RemainderXor
  <2>3. R(check) = check
    <3>1. PICK m \in Nat : m = 127
      OBVIOUS
    <3>2. Generator(G7, 7)
      BY Generator7
    <3>3. check \subseteq 0 .. 7 - 1 /\ 7 - 1 <= m
      BY <1>1, <3>1
    <3>4. Remainder(check, Powers(G7, 7, m), 7) = check
      BY <3>2, <3>3, RemainderSmall
    <3> QED
      BY <3>1, <3>4 DEF Powers7, G7
  <2>4. R(data) = check
    BY DEF check
  <2>5. Xor(check, check) = {}
    BY DEF Xor
  <2> QED
    BY <1>7, <2>2, <2>3, <2>4, <2>5
<1> QED
  BY <1>3, <1>8 DEF whole

\* What an answer of some length has to be like for a controller to take it, and
\* what of it the controller passes on.
Checks(wire) == Remainder(Field(wire, 127, 1), Powers7, 7) = {}

Agree(w, v, lo, hi) == \A b \in lo .. hi : b \in w <=> b \in v

\* What a checksum covers is all that it depends on.
LEMMA ChecksAgree ==
    ASSUME NEW w, NEW v \in SUBSET (0 .. 127), Agree(w, v, 1, 127),
           Remainder(Shr(v, 1), Powers7, 7) = {}
    PROVE  Checks(w)
<1>1. \A b : b \in Field(w, 127, 1) <=> b \in 0 .. 127 - 1 /\ b + 1 \in w
  BY FieldMember
<1>2. \A b : b \in Shr(v, 1) <=> b \in Nat /\ b + 1 \in v
  <2>1. v \in SUBSET Int
    OBVIOUS
  <2> QED
    BY <2>1, ShrMember
<1>3. \A b : b \in Field(w, 127, 1) <=> b \in Shr(v, 1)
  <2>1. ASSUME NEW b \in 0 .. 127 - 1 PROVE b + 1 \in w <=> b + 1 \in v
    <3>1. b + 1 \in 1 .. 127
      OBVIOUS
    <3> QED
      BY <3>1 DEF Agree
  <2>2. ASSUME NEW b \in Nat, b + 1 \in v PROVE b \in 0 .. 127 - 1
    <3>1. b + 1 \in 0 .. 127
      BY <2>2
    <3> QED
      BY <3>1
  <2>3. \A b \in 0 .. 127 - 1 : b \in Nat
    OBVIOUS
  <2> QED
    BY <1>1, <1>2, <2>1, <2>2, <2>3
<1>4. Field(w, 127, 1) = Shr(v, 1)
  BY <1>3
<1> QED
  BY <1>4 DEF Checks

\* A burst that leaves the checksum of an answer right has not struck what that
\* covers.
LEMMA StruckAnswer ==
    ASSUME NEW wire, Checks(wire), NEW noise \in ReplyNoise,
           NEW struck, struck = Xor(wire, noise), Checks(struck)
    PROVE  Agree(struck, wire, 1, 127)
<1> DEFINE R(w) == Remainder(w, Powers7, 7)
<1>1. PICK burst, before, after :
         /\ burst = Field(noise, 127, 1) /\ before = Field(wire, 127, 1)
         /\ after = Field(struck, 127, 1)
  OBVIOUS
<1>2. /\ \A b : b \in burst <=> b \in 0 .. 127 - 1 /\ b + 1 \in noise
      /\ \A b : b \in before <=> b \in 0 .. 127 - 1 /\ b + 1 \in wire
      /\ \A b : b \in after <=> b \in 0 .. 127 - 1 /\ b + 1 \in struck
  BY <1>1, FieldMember
<1>3. \A b : b \in struck <=> ~(b \in wire <=> b \in noise)
  BY XorMember
<1>4. after = Xor(before, burst)
  <2>1. \A b : b \in Xor(before, burst) <=> ~(b \in before <=> b \in burst)
    BY XorMember
  <2>2. \A b : b \in after <=> b \in Xor(before, burst)
    BY <1>2, <1>3, <2>1, Zenon
  <2> QED
    BY <2>2
<1>5. R(before) = {} /\ R(after) = {}
  BY <1>1 DEF Checks
<1>6. R(after) = Xor(R(before), R(burst))
  <2>1. PICK n \in Nat : n = 127 - 1
    OBVIOUS
  <2>2. before \subseteq 0 .. n /\ burst \subseteq 0 .. n
    BY <1>2, <2>1
  <2>3. IsFiniteSet(before) /\ IsFiniteSet(burst)
    BY <2>2, WordsAreFinite
  <2> QED
    BY <1>4, <2>3, RemainderXor
<1>7. R(burst) = {}
  <2>1. \A x : Xor({}, x) = x
    BY DEF Xor
  <2> QED
    BY <1>5, <1>6, <2>1
<1>8. burst = {}
  <2>1. SUFFICES ASSUME burst # {} PROVE FALSE
    OBVIOUS
  <2>2. PICK k \in 0 .. 135 : noise \subseteq k .. k + 6
    BY BurstAssumption
  <2>3. PICK n : n = IF k = 0 THEN 0 ELSE IF k <= 122 THEN k - 1 ELSE 121
    OBVIOUS
  <2>4. n \in Nat /\ n + 6 <= 127
    BY <2>3
  <2>5. burst \subseteq n .. n + 6
    <3>1. ASSUME NEW b \in burst PROVE b \in n .. n + 6
      <4>1. b \in 0 .. 127 - 1 /\ b + 1 \in k .. k + 6
        BY <1>2, <2>2
      <4> QED
        BY <2>3, <4>1
    <3> QED
      BY <3>1
  <2>6. PICK d, m : d = 7 /\ m = 127
    OBVIOUS
  <2>7. m \in Nat /\ n + d - 1 <= m /\ Generator(G7, d) /\ burst \subseteq n .. n + d - 1
        /\ Powers7 = Powers(G7, d, m)
    BY <2>4, <2>5, <2>6, Generator7 DEF Powers7, G7
  <2>8. Remainder(burst, Powers(G7, d, m), d) # {}
    BY <2>1, <2>4, <2>7, BurstsAreNoticed
  <2> QED
    BY <1>7, <2>6, <2>7, <2>8
<1>9. ASSUME NEW b \in 1 .. 127 PROVE b \in struck <=> b \in wire
  <2>1. b - 1 \in 0 .. 127 - 1 /\ (b - 1) + 1 = b
    OBVIOUS
  <2>2. b \notin noise
    BY <1>2, <1>8, <2>1
  <2> QED
    BY <1>3, <2>2
<1> QED
  BY <1>9 DEF Agree

\* What short answers hold has the 32 bits that are theirs.
LEMMA ContentFits ==
    ASSUME NEW op \in Ops, Operations[op].resp \notin {"None", "R2"},
           NEW kind, NEW v \in Values(op, kind), NEW body \in Bodies(op, v)
    PROVE  Content(op, body) \in SUBSET (0 .. 31)
<1>1. PICK lo, hi, resp :
         lo \in Nat /\ hi \in Nat /\ lo = 0 /\ hi = 31 /\ resp = Operations[op].resp
  OBVIOUS
<1>2. resp \in ResponseTypes /\ resp \notin {"None", "R2"}
  BY <1>1, ResponsesDecide
<1>10. /\ resp # "R7" => op \notin {"ifCond", "csd", "mmcCsd", "cid", "allSendCid", "mmcAllSendCid"}
       /\ resp \notin {"R1", "R1b", "R7"} => op \notin {"extCsd", "accessMode"}
  BY <1>1, <1>2, ResponsesDecide DEF Registered
<1>3. CASE op \in {"extCsd", "accessMode"}
  <2>1. Content(op, body) = {}
    BY <1>3 DEF Content
  <2> QED
    BY <2>1
<1>4. ASSUME NEW fields, body \in AllBuilt(fields), op \notin {"extCsd", "accessMode"},
             \A i \in DOMAIN fields : /\ fields[i][1] \in lo .. hi /\ fields[i][2] \in lo .. hi
                                      /\ fields[i][2] <= fields[i][1]
      PROVE  Content(op, body) \in SUBSET (0 .. 31)
  <2>0. lo \in Nat /\ hi \in Nat
    BY <1>1
  <2>1. body \in SUBSET (lo .. hi)
    BY <1>4, <2>0, AllBuiltWithin
  <2>2. Content(op, body) = body
    BY <1>4 DEF Content
  <2> QED
    BY <1>1, <2>1, <2>2
<1>5. CASE resp \in {"R1", "R1b"} /\ op \notin {"extCsd", "accessMode"}
  <2>1. Bodies(op, v) = AllBuilt(Status)
    BY <1>10, <1>1, <1>5 DEF Bodies
  <2>2. PICK fields : fields = Status
    OBVIOUS
  <2>3. /\ DOMAIN fields = 1 .. 4
        /\ fields[1] = <<12, 9>> /\ fields[2] = <<8, 8>>
        /\ fields[3] = <<7, 7>> /\ fields[4] = <<24, 19>>
    BY <2>2 DEF Status
  <2>4. \A i \in DOMAIN fields : /\ fields[i][1] \in lo .. hi /\ fields[i][2] \in lo .. hi
                                 /\ fields[i][2] <= fields[i][1]
    <3>1. \A i \in 1 .. 4 : i = 1 \/ i = 2 \/ i = 3 \/ i = 4
      OBVIOUS
    <3> QED
      BY <1>1, <2>3, <3>1
  <2>5. body \in AllBuilt(fields)
    BY <2>1, <2>2
  <2> QED
    BY <1>4, <1>5, <2>4, <2>5
<1>6. CASE resp = "R3"
  <2>1. PICK fields : fields = <<<<31, 31>>, <<30, 30>>, <<29, 29>>, <<24, 24>>, <<23, 15>>>>
    OBVIOUS
  <2>2. Bodies(op, v) = AllBuilt(fields)
    BY <1>10, <1>1, <1>6, <2>1 DEF Bodies
  <2>3. \A i \in DOMAIN fields : /\ fields[i][1] \in lo .. hi /\ fields[i][2] \in lo .. hi
                                 /\ fields[i][2] <= fields[i][1]
    <3>1. \A i \in 1 .. 5 : i = 1 \/ i = 2 \/ i = 3 \/ i = 4 \/ i = 5
      OBVIOUS
    <3>2. /\ DOMAIN fields = 1 .. 5
          /\ fields[1] = <<31, 31>> /\ fields[2] = <<30, 30>> /\ fields[3] = <<29, 29>>
          /\ fields[4] = <<24, 24>> /\ fields[5] = <<23, 15>>
      BY <2>1
    <3> QED
      BY <1>1, <3>1, <3>2
  <2>4. op \notin {"extCsd", "accessMode"}
    BY <1>1, <1>6, ResponsesDecide
  <2>5. body \in AllBuilt(fields)
    BY <2>2
  <2> QED
    BY <1>4, <2>3, <2>4, <2>5
<1>7. CASE resp = "R4"
  <2>1. PICK fields : fields = <<<<31, 31>>, <<30, 28>>, <<27, 27>>>>
    OBVIOUS
  <2>2. Bodies(op, v) = AllBuilt(fields)
    BY <1>10, <1>1, <1>7, <2>1 DEF Bodies
  <2>3. \A i \in DOMAIN fields : /\ fields[i][1] \in lo .. hi /\ fields[i][2] \in lo .. hi
                                 /\ fields[i][2] <= fields[i][1]
    <3>1. \A i \in 1 .. 3 : i = 1 \/ i = 2 \/ i = 3
      OBVIOUS
    <3>2. /\ DOMAIN fields = 1 .. 3
          /\ fields[1] = <<31, 31>> /\ fields[2] = <<30, 28>> /\ fields[3] = <<27, 27>>
      BY <2>1
    <3> QED
      BY <1>1, <3>1, <3>2
  <2>4. op \notin {"extCsd", "accessMode"}
    BY <1>1, <1>7, ResponsesDecide
  <2>5. body \in AllBuilt(fields)
    BY <2>2
  <2> QED
    BY <1>4, <2>3, <2>4, <2>5
<1>8. CASE resp \in {"R5", "R6"}
  <2>1. PICK fields : fields = IF resp = "R5" THEN <<<<15, 8>>, <<7, 0>>>>
                               ELSE <<<<31, 16>>, <<15, 0>>>>
    OBVIOUS
  <2>2. Bodies(op, v) = AllBuilt(fields)
    BY <1>10, <1>1, <1>8, <2>1 DEF Bodies
  <2>3. \A i \in DOMAIN fields : /\ fields[i][1] \in lo .. hi /\ fields[i][2] \in lo .. hi
                                 /\ fields[i][2] <= fields[i][1]
    <3>1. \A i \in 1 .. 2 : i = 1 \/ i = 2
      OBVIOUS
    <3>2. /\ DOMAIN fields = 1 .. 2
          /\ \/ fields[1] = <<15, 8>> /\ fields[2] = <<7, 0>>
             \/ fields[1] = <<31, 16>> /\ fields[2] = <<15, 0>>
      BY <2>1
    <3> QED
      BY <1>1, <3>1, <3>2
  <2>4. op \notin {"extCsd", "accessMode"}
    BY <1>1, <1>8, ResponsesDecide
  <2>5. body \in AllBuilt(fields)
    BY <2>2
  <2> QED
    BY <1>4, <2>3, <2>4, <2>5
<1>9. CASE resp = "R7"
  <2>1. op = "ifCond"
    BY <1>1, <1>9, ResponsesDecide
  <2>2. v \in Values("ifCond", kind) /\ body \in Bodies("ifCond", v)
    BY <2>1
  <2>3. body = {8, 7, 5, 3, 1}
    BY <2>2, IfCondIsVerified
  <2>4. Content(op, body) = body
    BY <2>1 DEF Content
  <2> QED
    BY <2>3, <2>4
<1> QED
  BY <1>2, <1>3, <1>5, <1>6, <1>7, <1>8, <1>9 DEF ResponseTypes

\* The content of a short answer lies in 32 of its bits.
LEMMA ContentOnWire ==
    ASSUME NEW content \in SUBSET (0 .. 31)
    PROVE  \A b : b \in Shl(content, 8, 48) <=> b \in 8 .. 39 /\ b - 8 \in content
<1>1. \A b : b \in Shl(content, 8, 48) <=> b \in 0 .. 48 - 1 /\ b - 8 \in content
  <2>1. content \in SUBSET Int
    OBVIOUS
  <2> QED
    BY <2>1, ShlMember
<1>2. \A b \in 0 .. 48 - 1 : b - 8 \in content => b \in 8 .. 39
  <2>1. \A c \in content : c \in 0 .. 31
    OBVIOUS
  <2>2. \A b \in 0 .. 48 - 1 : b - 8 \in 0 .. 31 => b \in 8 .. 39
    OBVIOUS
  <2> QED
    BY <2>1, <2>2
<1>3. \A b \in 8 .. 39 : b \in 0 .. 48 - 1
  OBVIOUS
<1> QED
  BY <1>1, <1>2, <1>3

\* An answer as it is sent: framed, with its checksum, and with what it is to tell.
LEMMA AnswerLaws ==
    ASSUME NEW op \in Ops, Operations[op].resp # "None",
           NEW kind, NEW v \in Values(op, kind), NEW body \in Bodies(op, v),
           NEW wire, wire = NativeAnswer(op, body)
    PROVE  /\ WellFramed(wire, AnswerSent(op).length)
           /\ Operations[op].resp \notin {"R3", "R4"} => Checks(wire)
           /\ Operations[op].resp = "R2" => Agree(wire, body, 8, 127)
           /\ Operations[op].resp # "R2" =>
                \A b \in 8 .. 39 : b \in wire <=> b - 8 \in Content(op, body)
<1>1. PICK resp : resp = Operations[op].resp
  OBVIOUS
<1>2. resp \in ResponseTypes /\ resp # "None"
  BY <1>1, ResponsesDecide
<1>3. AnswerSent(op).length = IF resp = "R2" THEN 136 ELSE 48
  BY <1>1 DEF AnswerSent, Receive
<1>4. CASE resp = "R2"
  <2>1. op \in Registered
    BY <1>1, <1>4, ResponsesDecide
  <2>2. body \in SUBSET (8 .. 127)
    BY <2>1, RegistersEndAtTheCrc
  <2>3. PICK sealed : sealed = Sealed(body)
    OBVIOUS
  <2>4. wire = 128 .. 133 \cup sealed
    BY <1>1, <1>4, <2>3 DEF NativeAnswer
  <2>5. /\ \A b : b \in sealed => b \in 0 .. 7 \/ b \in body
        /\ \A b : b \in body => b \in sealed
        /\ 0 \in sealed
        /\ Remainder(Shr(sealed, 1), Powers7, 7) = {}
    BY <2>2, <2>3, SealedLaws
  <2>6. \A b \in sealed : b \in 0 .. 127
    <3>1. \A b \in body : b \in 0 .. 127
      BY <2>2
    <3>2. \A b \in 0 .. 7 : b \in 0 .. 127
      OBVIOUS
    <3> QED
      BY <2>5, <3>1, <3>2
  <2>7. ASSUME NEW b \in 0 .. 127 PROVE b \in wire <=> b \in sealed
    <3>1. b \notin 128 .. 133
      OBVIOUS
    <3> QED
      BY <2>4, <3>1
  <2>8. 135 \notin wire /\ 134 \notin wire /\ 0 \in wire
    <3>1. 135 \notin sealed /\ 134 \notin sealed
      BY <2>6
    <3>2. 135 \notin 128 .. 133 /\ 134 \notin 128 .. 133
      OBVIOUS
    <3> QED
      BY <2>4, <2>5, <3>1, <3>2
  <2>9. WellFramed(wire, AnswerSent(op).length)
    BY <1>3, <1>4, <2>8 DEF WellFramed
  <2>10. Checks(wire)
    <3>1. sealed \in SUBSET (0 .. 127)
      BY <2>6
    <3>2. Agree(wire, sealed, 1, 127)
      <4>1. \A b \in 1 .. 127 : b \in 0 .. 127
        OBVIOUS
      <4> QED
        BY <2>7, <4>1 DEF Agree
    <3> QED
      BY <2>5, <3>1, <3>2, ChecksAgree
  <2>11. Agree(wire, body, 8, 127)
    <3>1. ASSUME NEW b \in 8 .. 127 PROVE b \in wire <=> b \in body
      <4>1. b \in 0 .. 127 /\ b \notin 0 .. 7
        OBVIOUS
      <4> QED
        BY <2>5, <2>7, <4>1
    <3> QED
      BY <3>1 DEF Agree
  <2> QED
    BY <1>1, <1>4, <2>9, <2>10, <2>11
<1>5. CASE resp # "R2"
  <2>1. PICK content \in SUBSET (0 .. 31) : content = Content(op, body)
    BY <1>1, <1>2, <1>5, ContentFits
  <2>2. \A b : b \in Shl(content, 8, 48) <=> b \in 8 .. 39 /\ b - 8 \in content
    BY ContentOnWire
  <2>3. CASE resp \in {"R3", "R4"}
    <3>1. content = body
      <4>1. op \notin {"extCsd", "accessMode"}
        BY <1>1, <2>3, ResponsesDecide
      <4> QED
        BY <2>1, <4>1 DEF Content
    <3>2. wire = 40 .. 45 \cup Shl(content, 8, 48) \cup 0 .. 7
      BY <1>1, <2>3, <3>1 DEF NativeAnswer
    <3>3. \A b : b \in wire <=> b \in 40 .. 45 \/ (b \in 8 .. 39 /\ b - 8 \in content) \/ b \in 0 .. 7
      BY <2>2, <3>2
    <3>4. 47 \notin wire /\ 46 \notin wire /\ 0 \in wire
      BY <3>3
    <3>5. \A b \in 8 .. 39 : b \in wire <=> b - 8 \in content
      BY <3>3
    <3>6. WellFramed(wire, AnswerSent(op).length)
      BY <1>3, <1>5, <3>4 DEF WellFramed
    <3> QED
      BY <1>1, <1>5, <2>1, <2>3, <3>5, <3>6
  <2>4. CASE resp \notin {"R3", "R4"}
    <3>1. PICK number : number = Number(Operations[op].index)
      OBVIOUS
    <3>2. number \in SUBSET (0 .. 5)
      BY <3>1, IndicesAreShort
    <3>3. PICK unsealed : unsealed = Shl(number, 40, 48) \cup Shl(content, 8, 48)
      OBVIOUS
    <3>4. wire = Sealed(unsealed)
      BY <1>1, <1>5, <2>1, <2>4, <3>1, <3>3 DEF NativeAnswer
    <3>5. \A b : b \in Shl(number, 40, 48) => b \in 40 .. 45
      <4>1. \A b : b \in Shl(number, 40, 48) <=> b \in 0 .. 48 - 1 /\ b - 40 \in number
        <5>1. number \in SUBSET Int
          BY <3>2
        <5> QED
          BY <5>1, ShlMember
      <4>2. \A b \in 0 .. 48 - 1 : b - 40 \in 0 .. 5 => b \in 40 .. 45
        OBVIOUS
      <4> QED
        BY <3>2, <4>1, <4>2
    <3>6. \A b : b \in unsealed => b \in 40 .. 45 \/ (b \in 8 .. 39 /\ b - 8 \in content)
      BY <2>2, <3>3, <3>5
    <3>7. unsealed \in SUBSET (8 .. 127)
      <4>1. \A b \in 40 .. 45 : b \in 8 .. 127
        OBVIOUS
      <4>2. \A b \in 8 .. 39 : b \in 8 .. 127
        OBVIOUS
      <4> QED
        BY <3>6, <4>1, <4>2
    <3>8. /\ \A b : b \in wire => b \in 0 .. 7 \/ b \in unsealed
          /\ \A b : b \in unsealed => b \in wire
          /\ 0 \in wire
          /\ Remainder(Shr(wire, 1), Powers7, 7) = {}
      BY <3>4, <3>7, SealedLaws
    <3>9. 47 \notin wire /\ 46 \notin wire
      <4>1. 47 \notin 0 .. 7 /\ 46 \notin 0 .. 7
        OBVIOUS
      <4>2. 47 \notin unsealed /\ 46 \notin unsealed
        BY <3>6
      <4> QED
        BY <3>8, <4>1, <4>2
    <3>10. ASSUME NEW b \in 8 .. 39 PROVE b \in wire <=> b - 8 \in content
      <4>1. b \notin 0 .. 7 /\ b \notin 40 .. 45
        OBVIOUS
      <4>2. b - 8 \in content => b \in unsealed
        BY <2>2, <3>3
      <4> QED
        BY <3>6, <3>8, <4>1, <4>2
    <3>11. Checks(wire)
      <4>1. wire \in SUBSET (0 .. 127)
        <5>1. \A b \in 0 .. 7 : b \in 0 .. 127
          OBVIOUS
        <5>2. \A b \in unsealed : b \in 0 .. 127
          <6>1. \A b \in 8 .. 127 : b \in 0 .. 127
            OBVIOUS
          <6> QED
            BY <3>7, <6>1
        <5> QED
          BY <3>8, <5>1, <5>2
      <4>2. Agree(wire, wire, 1, 127)
        BY DEF Agree
      <4> QED
        BY <3>8, <4>1, <4>2, ChecksAgree
    <3>12. WellFramed(wire, AnswerSent(op).length)
      BY <1>3, <1>5, <3>8, <3>9 DEF WellFramed
    <3> QED
      BY <1>1, <1>5, <2>1, <3>10, <3>11, <3>12
  <2> QED
    BY <2>3, <2>4
<1> QED
  BY <1>4, <1>5

-----------------------------------------------------------------------------
(* What the driver learns from a controller.                               *)

\* What the driver does not ask over SPI, and reads more than a status of.
NativeOps == {"mmcOpCond", "allSendCid", "mmcAllSendCid", "publishRca", "ioOpCond", "accessMode",
              "extCsd", "mmcCsd", "ioDirect", "ioExtended"}

LEMMA SpiOperations ==
    ASSUME NEW op \in Ops, "spi" \in Operations[op].links
    PROVE  op \notin NativeOps
<1>1. "spi" \notin Native
  BY DEF Native
<1>2. /\ Operations["mmcOpCond"].links = Native /\ Operations["allSendCid"].links = Native
      /\ Operations["publishRca"].links = Native /\ Operations["ioOpCond"].links = Native
      /\ Operations["accessMode"].links = Native /\ Operations["extCsd"].links = Native
      /\ Operations["ioDirect"].links = Native /\ Operations["ioExtended"].links = Native
      /\ Operations["mmcAllSendCid"].links = Native /\ Operations["mmcCsd"].links = Native
  BY DEF Operations, Operation
<1> QED
  BY <1>1, <1>2 DEF NativeOps

\* CMD58 is for SPI alone.
LEMMA OcrIsOverSpi == Operations["ocr"].links = {"spi"}
BY DEF Operations, Operation

\* What the driver makes of each response, by the type it expects.
LEMMA LearnsOf ==
    ASSUME NEW op \in Ops, NEW v, NEW r
    PROVE  /\ op \in {"csd", "mmcCsd"} /\ r.type = "R2" =>
                Learned(op, v, r) = Ok(CapacityBlocks(r.raw))
           /\ op \in {"cid", "allSendCid", "mmcAllSendCid"} /\ r.type = "R2" =>
                Learned(op, v, r) = Ok(CidView(r.raw))
           /\ op = "extCsd" /\ r.type = "R1" =>
                Learned(op, v, r) = Ok(ExtCsdView(RawExtCsd(reply.meant)))
           /\ op = "accessMode" /\ r.type = "R1" =>
                Learned(op, v, r) = Ok(SwitchView(Bytes(reply.meant, 64)))
           /\ op \in {"ocr", "opCond", "mmcOpCond"} /\ r.type = "R3" =>
                Learned(op, v, r) = Ok(OcrView(r.raw))
           /\ op = "publishRca" /\ r.type = "R6" => Learned(op, v, r) = Ok(RcaView(r.raw))
           /\ op = "ioOpCond" /\ r.type = "R4" => Learned(op, v, r) = Ok(SdioOcrView(r.raw))
           /\ op \in {"ioDirect", "ioExtended"} /\ r.type = "R5" =>
                Learned(op, v, r) = Ok(SdioRwView(r.raw))
           /\ r.type = "None" => Learned(op, v, r) = Ok(<<>>)
<1>1. /\ op \in {"csd", "mmcCsd"} /\ r.type = "R2" =>
           Learned(op, v, r) = Ok(CapacityBlocks(r.raw))
      /\ op \in {"cid", "allSendCid", "mmcAllSendCid"} /\ r.type = "R2" =>
           Learned(op, v, r) = Ok(CidView(r.raw))
  BY DEF Learned
<1>2. op = "extCsd" /\ r.type = "R1" =>
        Learned(op, v, r) = Ok(ExtCsdView(RawExtCsd(reply.meant)))
  BY DEF Learned
<1>3. op = "accessMode" /\ r.type = "R1" =>
        Learned(op, v, r) = Ok(SwitchView(Bytes(reply.meant, 64)))
  BY DEF Learned
<1>4. op \in {"ocr", "opCond", "mmcOpCond"} /\ r.type = "R3" =>
        Learned(op, v, r) = Ok(OcrView(r.raw))
  BY DEF Learned
<1>5. /\ op = "publishRca" /\ r.type = "R6" => Learned(op, v, r) = Ok(RcaView(r.raw))
      /\ op = "ioOpCond" /\ r.type = "R4" => Learned(op, v, r) = Ok(SdioOcrView(r.raw))
  BY DEF Learned
<1>6. op \in {"ioDirect", "ioExtended"} /\ r.type = "R5" =>
        Learned(op, v, r) = Ok(SdioRwView(r.raw))
  BY DEF Learned
<1>7. r.type = "None" => Learned(op, v, r) = Ok(<<>>)
  BY DEF Learned
<1> QED
  BY <1>1, <1>2, <1>3, <1>4, <1>5, <1>6, <1>7

\* CMD8 is the only operation with an R7, and its pattern decides.
LEMMA LearnsOfIfCond ==
    ASSUME NEW v, NEW r, r.type = "R7"
    PROVE  Learned("ifCond", v, r) = IF Verify(r.raw, v[1], v[2]) THEN Ok(<<>>)
                                     ELSE Err("BadResponse")
BY DEF Learned

\* An R1 is a status, unless it comes where a register or an OCR should.
LEMMA LearnsOfStatus ==
    ASSUME NEW op \in Ops, NEW v, NEW r, r.type \in {"R1", "R1b"},
           op \notin {"extCsd", "accessMode"}
    PROVE  Learned(op, v, r)
           = IF Operations[op].resp = "R2" \/ op = "ocr" THEN Err("BadResponse")
             ELSE IF bus.link = "spi" THEN Ok(SpiStatusView(r.raw)) ELSE Ok(StatusView(r.raw))
BY DEF Learned

\* A card that was heard is not one that heard nothing.
LEMMA HeardSomething ==
    ASSUME Invariant, phase = "replied"
    PROVE  asked # Nothing /\ asked.op \in Ops /\ asked.values \in Values(asked.op, bus.kind)
<1>1. asked.op \in Ops /\ asked.values \in Values(asked.op, bus.kind)
  BY DEF Invariant, AskedOK
<1>2. "nothing" \notin Ops
  BY OpsOfTheTable
<1> QED
  BY <1>1, <1>2 DEF Nothing

\* What a card on a native bus sends means something; on the bus it may be struck.
LEMMA NativeReply ==
    ASSUME Invariant, phase = "replied", bus.link # "spi", heard = asked,
           Operations[asked.op].resp # "None"
    PROVE  \E body \in Bodies(asked.op, asked.values) :
              /\ reply.answered /\ reply.meant = body
              /\ \/ "reply" \notin hit /\ reply.wire = NativeAnswer(asked.op, body)
                 \/ /\ "reply" \in hit
                    /\ \E noise \in ReplyNoise :
                          reply.wire = Xor(NativeAnswer(asked.op, body), noise)
<1> DEFINE sentBack == {Answer({}, body, NativeAnswer(asked.op, body)) :
                           body \in Bodies(asked.op, asked.values)}
<1>1. \A op, body : OnWire(bus.link, op, body) = NativeAnswer(op, body)
  BY DEF OnWire
<1>2. SentBack \subseteq sentBack
  <2>1. SentBack = {Answer(r1, body, OnWire(bus.link, asked.op, body)) :
                       r1 \in {{}}, body \in Bodies(asked.op, asked.values)}
    BY HeardSomething DEF SentBack, Answers
  <2> QED
    BY <1>1, <2>1
<1>3. CASE "reply" \notin hit
  <2>1. reply \in SentBack
    BY <1>3 DEF Invariant, ReplyOK
  <2>2. PICK body \in Bodies(asked.op, asked.values) :
           reply = Answer({}, body, NativeAnswer(asked.op, body))
    BY <1>2, <2>1
  <2>3. reply.answered /\ reply.meant = body /\ reply.wire = NativeAnswer(asked.op, body)
    BY <2>2 DEF Answer
  <2> QED
    BY <1>3, <2>3
<1>4. CASE "reply" \in hit
  <2>1. PICK sent \in SentBack : Struck(sent)
    BY <1>4 DEF Invariant, ReplyOK
  <2>2. PICK noise \in ReplyNoise : reply = [sent EXCEPT !.wire = Xor(@, noise)]
    BY <2>1 DEF Struck
  <2>3. PICK body \in Bodies(asked.op, asked.values) :
           sent = Answer({}, body, NativeAnswer(asked.op, body))
    BY <1>2, <2>1
  <2>4. /\ reply.answered /\ reply.meant = body
        /\ reply.wire = Xor(NativeAnswer(asked.op, body), noise)
    BY <2>2, <2>3 DEF Answer
  <2> QED
    BY <1>4, <2>4
<1> QED
  BY <1>3, <1>4

\* An answer that was not struck is framed and has a right checksum; and where there
\* is a checksum that is right, or nothing was struck, the answer holds what the card
\* means.
LEMMA NativeWire ==
    ASSUME Invariant, phase = "replied", bus.link # "spi", heard = asked,
           NEW op, op = asked.op, NEW resp, resp = Operations[op].resp, resp # "None",
           "reply" \notin hit \/ (resp \notin {"R3", "R4"} /\ Checks(reply.wire))
    PROVE  \E body \in Bodies(asked.op, asked.values) :
              /\ reply.answered /\ reply.meant = body
              /\ "reply" \notin hit => /\ WellFramed(reply.wire, AnswerSent(op).length)
                                       /\ resp \notin {"R3", "R4"} => Checks(reply.wire)
              /\ resp = "R2" => Agree(reply.wire, body, 8, 127)
              /\ resp # "R2" => \A b \in 8 .. 39 : b \in reply.wire <=> b - 8 \in Content(op, body)
<1>1. PICK body \in Bodies(asked.op, asked.values) :
         /\ reply.answered /\ reply.meant = body
         /\ \/ "reply" \notin hit /\ reply.wire = NativeAnswer(asked.op, body)
            \/ /\ "reply" \in hit
               /\ \E noise \in ReplyNoise : reply.wire = Xor(NativeAnswer(asked.op, body), noise)
  BY NativeReply
<1>2. PICK kind, v, wire, wired : /\ kind = bus.kind /\ v = asked.values
                                  /\ wire = NativeAnswer(op, body) /\ wired = reply.wire
  OBVIOUS
<1>3. op \in Ops /\ v \in Values(op, kind) /\ body \in Bodies(op, v)
  BY <1>1, <1>2, HeardSomething
<1>4. /\ WellFramed(wire, AnswerSent(op).length)
      /\ resp \notin {"R3", "R4"} => Checks(wire)
      /\ resp = "R2" => Agree(wire, body, 8, 127)
      /\ resp # "R2" => \A b \in 8 .. 39 : b \in wire <=> b - 8 \in Content(op, body)
  BY <1>2, <1>3, AnswerLaws
<1>5. CASE "reply" \notin hit
  <2>1. wire = wired
    BY <1>1, <1>2, <1>5
  <2> QED
    BY <1>1, <1>2, <1>4, <2>1
<1>6. CASE "reply" \in hit
  <2>1. PICK noise \in ReplyNoise : wired = Xor(wire, noise)
    BY <1>1, <1>2, <1>6
  <2>2. Checks(wire) /\ Checks(wired)
    BY <1>2, <1>4, <1>6
  <2>3. Agree(wired, wire, 1, 127)
    BY <2>1, <2>2, StruckAnswer
  <2>4. resp = "R2" => Agree(wired, body, 8, 127)
    <3>1. \A b \in 8 .. 127 : b \in 1 .. 127
      OBVIOUS
    <3> QED
      BY <1>4, <2>3, <3>1 DEF Agree
  <2>5. resp # "R2" => \A b \in 8 .. 39 : b \in wired <=> b - 8 \in Content(op, body)
    <3>1. \A b \in 8 .. 39 : b \in 1 .. 127
      OBVIOUS
    <3> QED
      BY <1>4, <2>3, <3>1 DEF Agree
  <2> QED
    BY <1>1, <1>2, <1>6, <2>4, <2>5
<1> QED
  BY <1>5, <1>6

\* The bits that follow the header of a long answer, as a controller keeps them.
LEMMA KeptOfALongAnswer ==
    ASSUME NEW wire, NEW body \in SUBSET (8 .. 127), Agree(wire, body, 8, 127)
    PROVE  Field(wire, 127, 8) = Shr(body, 8)
<1>1. \A b : b \in Field(wire, 127, 8) <=> b \in 0 .. 127 - 8 /\ b + 8 \in wire
  BY FieldMember
<1>2. \A b : b \in Shr(body, 8) <=> b \in Nat /\ b + 8 \in body
  <2>1. body \in SUBSET Int
    OBVIOUS
  <2> QED
    BY <2>1, ShrMember
<1>3. ASSUME NEW b \in 0 .. 127 - 8 PROVE b \in Nat /\ (b + 8 \in wire <=> b + 8 \in body)
  <2>1. b + 8 \in 8 .. 127
    OBVIOUS
  <2> QED
    BY <2>1 DEF Agree
<1>4. ASSUME NEW b \in Nat, b + 8 \in body PROVE b \in 0 .. 127 - 8
  <2>1. b + 8 \in 8 .. 127
    BY <1>4
  <2> QED
    BY <2>1
<1>5. \A b : b \in Field(wire, 127, 8) <=> b \in Shr(body, 8)
  BY <1>1, <1>2, <1>3, <1>4
<1> QED
  BY <1>5

\* The content of a short one.
LEMMA KeptOfAShortAnswer ==
    ASSUME NEW wire, NEW content \in SUBSET (0 .. 31),
           \A b \in 8 .. 39 : b \in wire <=> b - 8 \in content
    PROVE  Field(wire, 39, 8) = content
<1>1. \A b : b \in Field(wire, 39, 8) <=> b \in 0 .. 39 - 8 /\ b + 8 \in wire
  BY FieldMember
<1>2. ASSUME NEW b \in 0 .. 39 - 8 PROVE b + 8 \in wire <=> b \in content
  <2>1. b + 8 \in 8 .. 39 /\ (b + 8) - 8 = b
    OBVIOUS
  <2> QED
    BY <2>1
<1>3. \A b \in content : b \in 0 .. 39 - 8
  OBVIOUS
<1>4. \A b : b \in Field(wire, 39, 8) <=> b \in content
  BY <1>1, <1>2, <1>3
<1> QED
  BY <1>4

\* The response a controller makes of what an answer leaves in its registers.
Made(r, op, resp, body) ==
    /\ r.type = resp \/ (resp = "R1b" /\ r.type = "R1")
    /\ resp \notin {"None", "R2"} => r.raw = Content(op, body)
    /\ resp = "R2" => \E w : Holds(r.raw, w) /\ Agree(w, body, 8, 127)

\* A controller takes an answer that is not struck.
LEMMA NativeCaptures ==
    ASSUME Invariant, phase = "replied", bus.link # "spi", heard = asked, "reply" \notin hit,
           Operations[asked.op].resp # "None"
    PROVE  Captured(SdhciEncode(AskedCommand).response, heard.op).ok
<1>1. PICK op, c, resp, programmed :
         /\ op = asked.op /\ c = AskedCommand /\ resp = Operations[op].resp
         /\ programmed = SdhciEncode(c).response
  OBVIOUS
<1>2. c.resp = resp /\ resp \in ResponseTypes /\ resp # "None"
  BY <1>1, ResponseOfTheCommand DEF Expected
<1>3. programmed = AnswerSent(op)
  <2>1. AnswerSent(op) = CASE resp = "R2" -> Receive(136, TRUE)
                           [] resp \in {"R3", "R4"} -> Receive(48, FALSE)
                           [] OTHER -> Receive(48, TRUE)
    BY <1>1 DEF AnswerSent
  <2>2. programmed =
              CASE resp = "None" -> Receive(0, FALSE)
                [] resp \in {"R1", "R1b", "R5", "R6", "R7"} -> Receive(48, TRUE)
                [] resp = "R2" -> Receive(136, TRUE)
                [] resp \in {"R3", "R4"} -> Receive(48, FALSE)
    BY <1>1, <1>2, Programmed
  <2> QED
    BY <1>2, <2>1, <2>2 DEF ResponseTypes
<1>4. programmed.length \in Nat
  BY <1>1, <1>2, Programmed
<1>5. programmed.crc => resp \notin {"R3", "R4"}
  BY <1>1, <1>2, Programmed DEF Receive
<1>6. /\ reply.answered /\ WellFramed(reply.wire, AnswerSent(op).length)
      /\ resp \notin {"R3", "R4"} => Checks(reply.wire)
  BY <1>1, <1>2, NativeWire
<1>7. reply.answered \in BOOLEAN
  BY AnsweredIsBoolean
<1>8. Sound(programmed, op)
  BY <1>3, <1>5, <1>6 DEF Sound, Checks
<1> QED
  BY <1>1, <1>4, <1>7, <1>8, Captures

\* What a controller makes of an answer that it takes, and that has a checksum or
\* was not struck: the response that was asked for, with what the card means.
LEMMA NativeResponse ==
    ASSUME Invariant, phase = "replied", bus.link # "spi", heard = asked,
           Operations[asked.op].resp # "None",
           Captured(SdhciEncode(AskedCommand).response, heard.op).ok,
           "reply" \notin hit \/ Operations[asked.op].resp \notin {"R3", "R4"},
           ~(bus.link = "sdhci" /\ Operations[asked.op].resp \in {"R4", "R5"})
    PROVE  \E body \in Bodies(asked.op, asked.values) :
              /\ reply.meant = body
              /\ Received(AskedCommand).ok
              /\ Made(Received(AskedCommand).view, asked.op, Operations[asked.op].resp, body)
<1>1. PICK op, c, resp, programmed :
         /\ op = asked.op /\ c = AskedCommand /\ resp = Operations[op].resp
         /\ programmed = SdhciEncode(c).response
  OBVIOUS
<1>2. c.resp = resp /\ resp \in ResponseTypes /\ resp # "None"
  BY <1>1, ResponseOfTheCommand DEF Expected
<1>3. resp \notin {"R3", "R4"} => Checks(reply.wire)
  <2>1. programmed.length \in Nat /\ programmed.length # 0
    BY <1>1, <1>2, Programmed
  <2>2. reply.answered \in BOOLEAN
    BY AnsweredIsBoolean
  <2>3. Sound(programmed, op)
    BY <1>1, <2>1, <2>2, Captures
  <2>4. resp \notin {"R3", "R4"} => programmed.crc
    <3>1. programmed =
                CASE resp = "None" -> Receive(0, FALSE)
                  [] resp \in {"R1", "R1b", "R5", "R6", "R7"} -> Receive(48, TRUE)
                  [] resp = "R2" -> Receive(136, TRUE)
                  [] resp \in {"R3", "R4"} -> Receive(48, FALSE)
      BY <1>1, <1>2, Programmed
    <3> QED
      BY <1>2, <3>1 DEF Receive, ResponseTypes
  <2> QED
    BY <2>3, <2>4 DEF Sound, Checks
<1>4. PICK body \in Bodies(asked.op, asked.values) :
         /\ reply.meant = body
         /\ resp = "R2" => Agree(reply.wire, body, 8, 127)
         /\ resp # "R2" => \A b \in 8 .. 39 : b \in reply.wire <=> b - 8 \in Content(op, body)
  BY <1>1, <1>2, <1>3, NativeWire
<1>5. PICK v, kind, register, wire :
         /\ v = asked.values /\ kind = bus.kind /\ register = Registers(bus.link, op)
         /\ wire = reply.wire
  OBVIOUS
<1>6. op \in Ops /\ v \in Values(op, kind) /\ body \in Bodies(op, v)
  BY <1>1, <1>4, <1>5, HeardSomething
<1>7. bus.link \in {"sdhci", "dwmmc"}
  BY BusLaws DEF Invariant, TypeOK, Transports
<1>8. Received(c) = IF bus.link = "sdhci" THEN SdhciDecode(resp, register)
                    ELSE DwMmcDecode(resp, register)
  <2>1. DwMmcEncode(c).response = programmed
    BY <1>1, <1>2, Programmed
  <2> QED
    BY <1>1, <1>2, <1>5, <1>7, <2>1 DEF Received
<1>9. CASE resp = "R2"
  <2>1. op \in Registered
    <3>1. op \in Ops /\ Operations[op].resp = "R2"
      BY <1>1, <1>6, <1>9
    <3> QED
      BY <3>1, ResponsesDecide
  <2>2. body \in SUBSET (8 .. 127)
    BY <1>6, <2>1, RegistersEndAtTheCrc
  <2>3. Agree(wire, body, 8, 127)
    BY <1>4, <1>5, <1>9
  <2>4. CASE bus.link = "sdhci"
    <3>1. register = [i \in 0 .. 3 |-> Field(Shr(body, 8), 32 * i + 31, 32 * i)]
      <4>1. Field(wire, 127, 8) = Shr(body, 8)
        BY <2>2, <2>3, KeptOfALongAnswer
      <4> QED
        BY <1>1, <1>5, <1>9, <2>4, <4>1 DEF Registers
    <3>2. Holds(SdhciReadR2(register), body)
      BY <2>2, <3>1, SdhciHolds
    <3>3. Received(c) = Response("R2", SdhciReadR2(register))
      BY <1>8, <1>9, <2>4 DEF SdhciDecode
    <3>4. Agree(body, body, 8, 127)
      BY DEF Agree
    <3>5. Made(Received(c).view, op, resp, body) /\ Received(c).ok
      BY <1>9, <3>2, <3>3, <3>4 DEF Made, Response, Ok
    <3> QED
      BY <1>1, <1>4, <3>5
  <2>5. CASE bus.link = "dwmmc"
    <3>1. PICK w : w = wire \cap 0 .. 127
      OBVIOUS
    <3>2. register = [i \in 0 .. 3 |-> Field(w, 32 * i + 31, 32 * i)]
      BY <1>1, <1>5, <1>9, <2>5, <3>1 DEF Registers
    <3>3. Holds(DwMmcReadR2(register), w)
      BY <3>2, DwMmcHolds
    <3>4. Received(c) = Response("R2", DwMmcReadR2(register))
      BY <1>8, <1>9, <2>5 DEF DwMmcDecode
    <3>5. Agree(w, body, 8, 127)
      <4>1. \A b \in 8 .. 127 : b \in 0 .. 127
        OBVIOUS
      <4> QED
        BY <2>3, <3>1, <4>1 DEF Agree
    <3>6. Made(Received(c).view, op, resp, body) /\ Received(c).ok
      BY <1>9, <3>3, <3>4, <3>5 DEF Made, Response, Ok
    <3> QED
      BY <1>1, <1>4, <3>6
  <2> QED
    BY <1>7, <2>4, <2>5
<1>10. CASE resp # "R2"
  <2>1. PICK content : content = Content(op, body) /\ content \in SUBSET (0 .. 31)
    BY <1>1, <1>2, <1>6, <1>10, ContentFits
  <2>2. register[0] = content
    <3>1. \A b \in 8 .. 39 : b \in wire <=> b - 8 \in content
      BY <1>4, <1>5, <1>10, <2>1
    <3>2. Field(wire, 39, 8) = content
      BY <2>1, <3>1, KeptOfAShortAnswer
    <3> QED
      BY <1>1, <1>5, <1>10, <3>2 DEF Registers
  <2>3. CASE bus.link = "sdhci"
    <3>1. resp \in {"R1", "R1b", "R3", "R6", "R7"}
      BY <1>1, <1>2, <1>10, <2>3 DEF ResponseTypes
    <3>2. Received(c) = IF resp \in {"R1", "R1b"} THEN Response("R1", content)
                        ELSE Response(resp, content)
      BY <1>8, <2>2, <2>3, <3>1 DEF SdhciDecode
    <3>3. Made(Received(c).view, op, resp, body) /\ Received(c).ok
      BY <1>10, <2>1, <3>1, <3>2 DEF Made, Response, Ok
    <3> QED
      BY <1>1, <1>4, <3>3
  <2>4. CASE bus.link = "dwmmc"
    <3>1. resp \in {"R1", "R1b", "R3", "R4", "R5", "R6", "R7"}
      BY <1>2, <1>10 DEF ResponseTypes
    <3>2. Received(c) = Response(resp, content)
      BY <1>8, <2>2, <2>4, <3>1 DEF DwMmcDecode
    <3>3. Made(Received(c).view, op, resp, body) /\ Received(c).ok
      BY <1>10, <2>1, <3>1, <3>2 DEF Made, Response, Ok
    <3> QED
      BY <1>1, <1>4, <3>3
  <2> QED
    BY <1>7, <2>3, <2>4
<1> QED
  BY <1>9, <1>10

\* The lower half of a word is a field of it.
LEMMA LowField ==
    ASSUME NEW w, NEW hi \in Int
    PROVE  w \cap 0 .. hi = Field(w, hi, 0)
<1>1. PICK lo \in Int : lo = 0
  OBVIOUS
<1>2. \A b : b \in Field(w, hi, lo) <=> b \in 0 .. hi - lo /\ b + lo \in w
  BY FieldMember
<1>3. hi - lo = hi /\ \A b \in Int : b + lo = b
  BY <1>1
<1> QED
  BY <1>1, <1>2, <1>3

\* The accessors of an OCR.
LEMMA OcrIsTheTruth ==
    ASSUME NEW w
    PROVE  OcrView(w) = OcrTruth(w)
<1>1. (w \cap 15 .. 23 # {}) = (Field(w, 23, 15) # {})
  <2>1. \A b : b \in Field(w, 23, 15) <=> b \in 0 .. 23 - 15 /\ b + 15 \in w
    BY FieldMember
  <2>2. ASSUME NEW b \in Field(w, 23, 15) PROVE w \cap 15 .. 23 # {}
    <3>1. b + 15 \in w /\ b + 15 \in 15 .. 23
      BY <2>1
    <3> QED
      BY <3>1
  <2>3. ASSUME NEW b \in w \cap 15 .. 23 PROVE Field(w, 23, 15) # {}
    <3>1. (b - 15) + 15 = b /\ b - 15 \in 0 .. 23 - 15
      OBVIOUS
    <3>2. b - 15 \in Field(w, 23, 15)
      BY <2>1, <3>1
    <3> QED
      BY <3>2
  <2> QED
    BY <2>2, <2>3
<1> QED
  BY <1>1 DEF OcrView, OcrTruth

\* Registers that agree above the CRC tell the same.
LEMMA FieldsAgree ==
    ASSUME NEW v, NEW w, Agree(v, w, 8, 127), NEW hi \in 8 .. 127, NEW lo \in 8 .. 127
    PROVE  Field(v, hi, lo) = Field(w, hi, lo)
<1>1. /\ \A b : b \in Field(v, hi, lo) <=> b \in 0 .. hi - lo /\ b + lo \in v
      /\ \A b : b \in Field(w, hi, lo) <=> b \in 0 .. hi - lo /\ b + lo \in w
  BY FieldMember
<1>2. ASSUME NEW b \in 0 .. hi - lo PROVE b + lo \in v <=> b + lo \in w
  <2>1. b + lo \in 8 .. 127
    OBVIOUS
  <2> QED
    BY <2>1 DEF Agree
<1>3. \A b : b \in Field(v, hi, lo) <=> b \in Field(w, hi, lo)
  BY <1>1, <1>2
<1> QED
  BY <1>3

LEMMA RegistersAgree ==
    ASSUME NEW v, NEW w, Agree(v, w, 8, 127)
    PROVE  /\ CidTruth(v) = CidTruth(w)
           /\ CsdTruth(v) = CsdTruth(w)
           /\ Field(v, 127, 120) = Field(w, 127, 120)
<1>1. ASSUME NEW hi \in 8 .. 127, NEW lo \in 8 .. 127 PROVE Field(v, hi, lo) = Field(w, hi, lo)
  BY FieldsAgree
<1>2. /\ Field(v, 127, 120) = Field(w, 127, 120) /\ Field(v, 119, 112) = Field(w, 119, 112)
      /\ Field(v, 111, 104) = Field(w, 111, 104) /\ Field(v, 63, 60) = Field(w, 63, 60)
      /\ Field(v, 59, 56) = Field(w, 59, 56) /\ Field(v, 55, 24) = Field(w, 55, 24)
      /\ Field(v, 19, 12) = Field(w, 19, 12) /\ Field(v, 11, 8) = Field(w, 11, 8)
  BY <1>1
<1>3. [i \in 1 .. 5 |-> Field(v, 111 - 8 * i, 104 - 8 * i)]
      = [i \in 1 .. 5 |-> Field(w, 111 - 8 * i, 104 - 8 * i)]
  <2>1. ASSUME NEW i \in 1 .. 5
        PROVE  Field(v, 111 - 8 * i, 104 - 8 * i) = Field(w, 111 - 8 * i, 104 - 8 * i)
    <3>1. PICK hi \in 8 .. 127, lo \in 8 .. 127 : hi = 111 - 8 * i /\ lo = 104 - 8 * i
      OBVIOUS
    <3> QED
      BY <1>1, <3>1
  <2> QED
    BY <2>1
<1>4. CidTruth(v) = CidTruth(w)
  BY <1>2, <1>3 DEF CidTruth
<1>5. /\ Field(v, 127, 126) = Field(w, 127, 126) /\ Field(v, 73, 62) = Field(w, 73, 62)
      /\ Field(v, 49, 47) = Field(w, 49, 47) /\ Field(v, 83, 80) = Field(w, 83, 80)
      /\ Field(v, 69, 48) = Field(w, 69, 48)
  BY <1>1
<1>6. CsdTruth(v) = CsdTruth(w)
  BY <1>5, Zenon DEF CsdTruth, CsdV1Truth
<1> QED
  BY <1>2, <1>4, <1>6

\* The alternatives of Truth, whatever they are.
OneOf(op, csd, cid, switch, ext, ocr, rca, ioOcr, io, spi, native) ==
    CASE op = "csd" -> csd
      [] op \in {"cid", "allSendCid"} -> cid
      [] op = "accessMode" -> switch
      [] op = "extCsd" -> ext
      [] op = "ifCond" -> <<>>
      [] op \in {"ocr", "opCond", "mmcOpCond"} /\ ~(bus.link = "spi" /\ op = "opCond") -> ocr
      [] op = "publishRca" -> rca
      [] op = "ioOpCond" -> ioOcr
      [] op \in {"ioDirect", "ioExtended"} -> io
      [] bus.link = "spi" /\ (op = "opCond" \/ Operations[op].resp \in {"None", "R1", "R1b"}) -> spi
      [] bus.link # "spi" /\ Operations[op].resp \in {"R1", "R1b"}
             /\ op \notin {"accessMode", "extCsd"} -> native
      [] OTHER -> <<>>

\* The meanings of the answers that are not told by an operator of their own.
ExtCsdMeans(w) ==
    <<IF w.sectors = {} THEN <<>> ELSE <<w.sectors>>,
      Named(Widths, extCsd.width, "Unknown"), Named(Timings, extCsd.timing, "Unknown"),
      <<0 \in w.device, 1 \in w.device, 4 \in w.device \/ 5 \in w.device>>>>
RcaMeans(w) == <<Field(w, 31, 16), Field(w, 15, 0)>>
IoOcrMeans(w) == <<31 \in w, Field(w, 30, 28), 27 \in w>>
IoMeans(w) == <<Field(w, 15, 8), Field(w, 7, 0)>>
SpiMeans == <<0 \in reply.r1, SpiError(reply.r1)>>
StatusMeans(w) == <<Named(States, Field(w, 12, 9), "Reserved"), 8 \in w, 7 \in w>>

\* The truth is the choice that OneOf makes among the meanings.
LEMMA TruthIsOneOf ==
    ASSUME NEW op, NEW w
    PROVE  Truth(op, w)
           = OneOf(op, CsdTruth(w), CidTruth(w), SwitchTruth(w), ExtCsdMeans(w), OcrTruth(w),
                   RcaMeans(w), IoOcrMeans(w), IoMeans(w), SpiMeans, StatusMeans(w))
BY Zenon DEF Truth, OneOf, ExtCsdMeans, RcaMeans, IoOcrMeans, IoMeans, SpiMeans, StatusMeans

\* What an answer means, by the operation.
LEMMA TruthOf ==
    ASSUME NEW op \in Ops, NEW w
    PROVE  /\ op = "csd" => Truth(op, w) = CsdTruth(w)
           /\ op \in {"cid", "allSendCid"} => Truth(op, w) = CidTruth(w)
           /\ op = "accessMode" /\ bus.link # "spi" => Truth(op, w) = SwitchTruth(w)
           /\ op = "extCsd" /\ bus.link # "spi" => Truth(op, w) = ExtCsdMeans(w)
           /\ op = "ifCond" => Truth(op, w) = <<>>
           /\ op \in {"ocr", "opCond", "mmcOpCond"} /\ ~(bus.link = "spi" /\ op = "opCond") =>
                Truth(op, w) = OcrTruth(w)
           /\ op = "publishRca" => Truth(op, w) = RcaMeans(w)
           /\ op = "ioOpCond" => Truth(op, w) = IoOcrMeans(w)
           /\ op \in {"ioDirect", "ioExtended"} => Truth(op, w) = IoMeans(w)
<1>0. PICK csd, cid, switch, ext, ocr, rca, ioOcr, io, spi, native :
         /\ csd = CsdTruth(w) /\ cid = CidTruth(w) /\ switch = SwitchTruth(w)
         /\ ext = ExtCsdMeans(w) /\ ocr = OcrTruth(w) /\ rca = RcaMeans(w)
         /\ ioOcr = IoOcrMeans(w) /\ io = IoMeans(w) /\ spi = SpiMeans
         /\ native = StatusMeans(w)
         /\ Truth(op, w) = OneOf(op, csd, cid, switch, ext, ocr, rca, ioOcr, io, spi, native)
  BY TruthIsOneOf
<1>10. op \in {"csd", "cid", "allSendCid", "ifCond", "ocr", "opCond", "mmcOpCond",
                "publishRca", "ioOpCond", "ioDirect", "ioExtended"} =>
         Operations[op].resp \notin {"None", "R1", "R1b"}
  BY ResponsesDecide DEF Registered
<1>1. op = "csd" => Truth(op, w) = CsdTruth(w)
  BY <1>0, <1>10 DEF OneOf
<1>2. op \in {"cid", "allSendCid"} => Truth(op, w) = CidTruth(w)
  BY <1>0, <1>10 DEF OneOf
<1>3. op = "accessMode" /\ bus.link # "spi" => Truth(op, w) = SwitchTruth(w)
  BY <1>0, <1>10 DEF OneOf
<1>4. op = "ifCond" => Truth(op, w) = <<>>
  BY <1>0, <1>10 DEF OneOf
<1>5. op \in {"ocr", "opCond", "mmcOpCond"} /\ ~(bus.link = "spi" /\ op = "opCond") =>
        Truth(op, w) = OcrTruth(w)
  BY <1>0, <1>10 DEF OneOf
<1>6. op = "publishRca" => Truth(op, w) = RcaMeans(w)
  BY <1>0, <1>10 DEF OneOf
<1>7. op = "ioOpCond" => Truth(op, w) = IoOcrMeans(w)
  BY <1>0, <1>10 DEF OneOf
<1>8. op \in {"ioDirect", "ioExtended"} => Truth(op, w) = IoMeans(w)
  BY <1>0, <1>10 DEF OneOf
<1>9. op = "extCsd" /\ bus.link # "spi" => Truth(op, w) = ExtCsdMeans(w)
  BY <1>0, <1>10 DEF OneOf
<1> QED
  BY <1>1, <1>2, <1>3, <1>4, <1>5, <1>6, <1>7, <1>8, <1>9

\* What a status means, and no answer at all.
LEMMA TruthOfStatus ==
    ASSUME NEW op \in Ops, NEW w, op \notin {"extCsd", "accessMode"}
    PROVE  /\ Operations[op].resp \in {"R1", "R1b"} /\ bus.link # "spi" =>
                Truth(op, w) = StatusMeans(w)
           /\ Operations[op].resp = "None" /\ bus.link # "spi" => Truth(op, w) = <<>>
           /\ bus.link = "spi"
              /\ (op = "opCond" \/ Operations[op].resp \in {"None", "R1", "R1b"}) =>
                Truth(op, w) = SpiMeans
<1>0. PICK csd, cid, switch, ext, ocr, rca, ioOcr, io, spi, native :
         /\ csd = CsdTruth(w) /\ cid = CidTruth(w) /\ switch = SwitchTruth(w)
         /\ ext = ExtCsdMeans(w) /\ ocr = OcrTruth(w) /\ rca = RcaMeans(w)
         /\ ioOcr = IoOcrMeans(w) /\ io = IoMeans(w) /\ spi = SpiMeans
         /\ native = StatusMeans(w)
         /\ Truth(op, w) = OneOf(op, csd, cid, switch, ext, ocr, rca, ioOcr, io, spi, native)
  BY TruthIsOneOf
<1>1. Operations[op].resp \in {"None", "R1", "R1b"} =>
        op \notin {"csd", "cid", "allSendCid", "ifCond", "ocr", "opCond", "mmcOpCond",
                   "publishRca", "ioOpCond", "ioDirect", "ioExtended"}
  BY ResponsesDecide DEF Registered
<1>2. Operations[op].resp \in {"R1", "R1b"} /\ bus.link # "spi" =>
        Truth(op, w) = StatusMeans(w)
  BY <1>0, <1>1 DEF OneOf
<1>3. Operations[op].resp = "None" /\ bus.link # "spi" => Truth(op, w) = <<>>
  BY <1>0, <1>1 DEF OneOf
<1>4. bus.link = "spi" /\ (op = "opCond" \/ Operations[op].resp \in {"None", "R1", "R1b"}) =>
        Truth(op, w) = SpiMeans
  BY <1>0, <1>1 DEF OneOf
<1> QED
  BY <1>2, <1>3, <1>4

\* What HostTakes tells.
LEMMA HostTells ==
    ASSUME HostTakes
    PROVE  /\ phase = "replied"
           /\ told' = IF Received(AskedCommand).ok
                      THEN Learned(asked.op, asked.values, Received(AskedCommand).view)
                      ELSE Received(AskedCommand)
BY DEF HostTakes, AskedCommand

\* An operation without a response is over as soon as it is sent.
LEMMA NothingToTell ==
    ASSUME Invariant, HostTakes, bus.link # "spi", Operations[asked.op].resp = "None"
    PROVE  told' = Ok(Truth(asked.op, reply.meant))
<1>1. PICK c : c = AskedCommand
  OBVIOUS
<1>2. c.resp = "None"
  <2>1. bus.link # "spi" => Expected(asked.op, bus.link) = Operations[asked.op].resp
    BY DEF Expected
  <2> QED
    BY <1>1, <2>1, ResponseOfTheCommand, HostTells
<1>3. "None" \in ResponseTypes
  BY DEF ResponseTypes
<1>4. /\ SdhciEncode(c).response.length = 0 /\ DwMmcEncode(c).response.length = 0
      /\ SdhciEncode(c).response.length \in Nat /\ DwMmcEncode(c).response.length \in Nat
  BY <1>2, <1>3, Programmed
<1>5. /\ Captured(SdhciEncode(c).response, heard.op).ok
      /\ Captured(DwMmcEncode(c).response, heard.op).ok
  <2>1. reply.answered \in BOOLEAN
    BY AnsweredIsBoolean, HostTells
  <2>2. PICK p1, p2 : p1 = SdhciEncode(c).response /\ p2 = DwMmcEncode(c).response
    OBVIOUS
  <2> QED
    BY <1>4, <2>1, <2>2, Captures
<1>6. Received(c) = Response("None", {})
  <2>1. bus.link \in {"sdhci", "dwmmc"}
    BY BusLaws DEF Invariant, TypeOK, Transports
  <2>2. /\ \A r : SdhciDecode("None", r) = Response("None", {})
        /\ \A r : DwMmcDecode("None", r) = Response("None", {})
    BY DEF SdhciDecode, DwMmcDecode
  <2> QED
    BY <1>2, <1>5, <2>1, <2>2 DEF Received
<1>7. asked.op \in Ops
  BY HeardSomething, HostTells
<1>8. told' = Learned(asked.op, asked.values, Received(c).view) /\ Received(c).view.type = "None"
  BY <1>1, <1>6, HostTells DEF Response, Ok
<1>9. told' = Ok(<<>>)
  BY <1>7, <1>8, LearnsOf
<1>10. Truth(asked.op, reply.meant) = <<>>
  <2>1. PICK op : op = asked.op
    OBVIOUS
  <2>2. op \in Ops /\ Operations[op].resp = "None"
    BY <1>7, <2>1
  <2>3. op \notin {"extCsd", "accessMode"}
    BY <2>2, ResponsesDecide
  <2> QED
    BY <2>1, <2>2, <2>3, TruthOfStatus
<1> QED
  BY <1>9, <1>10

\* What the driver is told tells what a card means, and where that is a CSD, all that
\* the driver can make of it.
Told(op, meant) ==
    /\ told'.ok
    /\ Tells(op, told'.view, meant)
    /\ op \in {"csd", "mmcCsd"} => told' = Ok(CsdTruth(meant))

\* Over a controller, the driver learns from an answer what it means when that is not
\* struck, or is taken with its checksum.
LEMMA NativeTells ==
    ASSUME Invariant, HostTakes, bus.link # "spi", heard = asked,
           "reply" \notin hit
           \/ /\ Captured(SdhciEncode(AskedCommand).response, heard.op).ok
              /\ Operations[asked.op].resp \notin {"None", "R3", "R4"},
           ~(bus.link = "sdhci" /\ Operations[asked.op].resp \in {"R4", "R5"})
    PROVE  Told(asked.op, reply.meant)
<1>1. CASE Operations[asked.op].resp = "None"
  <2>1. told' = Ok(Truth(asked.op, reply.meant))
    BY <1>1, NothingToTell
  <2>2. asked.op \notin {"csd", "mmcCsd", "mmcAllSendCid"}
    BY <1>1, ResponsesOfTheTable
  <2> QED
    BY <2>1, <2>2 DEF Told, Tells, Ok
<1>2. CASE Operations[asked.op].resp # "None"
  <2>1. /\ phase = "replied"
        /\ Captured(SdhciEncode(AskedCommand).response, heard.op).ok
        /\ "reply" \notin hit \/ Operations[asked.op].resp \notin {"R3", "R4"}
    BY <1>2, HostTells, NativeCaptures
  <2>2. PICK op, v, resp : op = asked.op /\ v = asked.values /\ resp = Operations[op].resp
    OBVIOUS
  <2>3. op \in Ops /\ v \in Values(op, bus.kind)
    BY <2>1, <2>2, HeardSomething
  <2>4. PICK body \in Bodies(op, v) : /\ reply.meant = body
                                      /\ Received(AskedCommand).ok
                                      /\ Made(Received(AskedCommand).view, op, resp, body)
    BY <1>2, <2>1, <2>2, NativeResponse
  <2>5. PICK r : r = Received(AskedCommand).view
    OBVIOUS
  <2>6. told' = Learned(op, v, r)
    BY <2>2, <2>4, <2>5, HostTells
  <2>7. Made(r, op, resp, body)
    BY <2>4, <2>5
  <2>8. Operations[op].resp = resp /\ resp # "None"
    BY <1>2, <2>2
  <2>10. op \in Registered => r.type = "R2" /\ \E w : Holds(r.raw, w) /\ Agree(w, body, 8, 127)
    BY <2>7, <2>8, ResponsesOfTheTable DEF Made, Registered
  <2>11. op \in {"csd", "mmcCsd"} => Learned(op, v, r) = Ok(CsdTruth(body))
    <3>1. SUFFICES ASSUME op \in {"csd", "mmcCsd"} PROVE Learned(op, v, r) = Ok(CsdTruth(body))
      OBVIOUS
    <3>2. PICK w : r.type = "R2" /\ Holds(r.raw, w) /\ Agree(w, body, 8, 127)
      BY <2>10, <3>1 DEF Registered
    <3>3. CapacityBlocks(r.raw) = CsdTruth(body)
      BY <3>2, CsdIsTheTruth, RegistersAgree
    <3> QED
      BY <2>3, <3>1, <3>2, <3>3, LearnsOf
  <2>12. op \in {"cid", "allSendCid", "mmcAllSendCid"} =>
           \E w : Learned(op, v, r) = Ok(CidView(r.raw)) /\ CidView(r.raw) = CidTruth(w)
                  /\ Agree(w, body, 8, 127)
    <3>1. SUFFICES ASSUME op \in {"cid", "allSendCid", "mmcAllSendCid"}
                   PROVE  \E w : /\ Learned(op, v, r) = Ok(CidView(r.raw))
                                 /\ CidView(r.raw) = CidTruth(w) /\ Agree(w, body, 8, 127)
      OBVIOUS
    <3>2. PICK w : r.type = "R2" /\ Holds(r.raw, w) /\ Agree(w, body, 8, 127)
      BY <2>10, <3>1 DEF Registered
    <3>3. CidView(r.raw) = CidTruth(w)
      BY <3>2, CidIsTheTruth
    <3>4. Learned(op, v, r) = Ok(CidView(r.raw))
      BY <2>3, <3>1, <3>2, LearnsOf
    <3> QED
      BY <3>2, <3>3, <3>4
  <2>13. resp \notin {"None", "R2"} /\ op \notin {"extCsd", "accessMode"} => r.raw = body
    BY <2>7 DEF Made, Content
  <2>9. op \notin {"mmcCsd", "mmcAllSendCid"} => Learned(op, v, r) = Ok(Truth(op, body))
    <3> SUFFICES ASSUME op \notin {"mmcCsd", "mmcAllSendCid"}
                 PROVE  Learned(op, v, r) = Ok(Truth(op, body))
      OBVIOUS
    <3>1. CASE op = "csd"
      BY <2>3, <2>11, <3>1, TruthOf
    <3>2. CASE op \in {"cid", "allSendCid"}
      <4>1. PICK w : /\ Learned(op, v, r) = Ok(CidView(r.raw)) /\ CidView(r.raw) = CidTruth(w)
                     /\ Agree(w, body, 8, 127)
        BY <2>12, <3>2
      <4>2. CidTruth(w) = CidTruth(body)
        BY <4>1, RegistersAgree
      <4> QED
        BY <2>3, <3>2, <4>1, <4>2, TruthOf
    <3>3. CASE op = "accessMode"
      <4>1. r.type = "R1"
        BY <2>7, <2>8, <3>3, ResponsesOfTheTable DEF Made
      <4>2. SwitchView(Bytes(body, 64)) = SwitchTruth(body)
        BY SwitchIsTheTruth
      <4> QED
        BY <2>3, <2>4, <3>3, <4>1, <4>2, LearnsOf, TruthOf
    <3>4. CASE op = "extCsd"
      <4>1. r.type = "R1"
        BY <2>7, <2>8, <3>4, ResponsesOfTheTable DEF Made
      <4>2. Bodies("extCsd", v) = ExtCsds
        BY ResponsesOfTheTable DEF Bodies
      <4>3. body.sectors \in Word(32)
        <5>1. body \in ExtCsds
          BY <3>4, <4>2
        <5>2. PICK filling \in Fillings : body.sectors = Field(filling, 31, 0)
          BY <5>1 DEF ExtCsds
        <5>3. Field(filling, 31, 0) \subseteq 0 .. 31
          BY FieldMember
        <5> QED
          BY <5>2, <5>3 DEF Word
      <4>4. PICK raw : raw = RawExtCsd(body)
        OBVIOUS
      <4>5. /\ extCsd.width \in {Number(Widths[x]) : x \in DOMAIN Widths}
            /\ extCsd.timing \in {Number(Timings[t]) : t \in DOMAIN Timings}
        BY DEF Invariant, TypeOK
      <4>6. ExtCsdView(RawExtCsd(body)) = ExtCsdMeans(body)
        BY <4>3, <4>4, <4>5, ExtCsdIsTheTruth DEF ExtCsdMeans
      <4> QED
        BY <2>3, <2>4, <3>4, <4>1, <4>6, LearnsOf, TruthOf
    <3>5. CASE op = "ifCond"
      <4>1. r.type = "R7" /\ r.raw = body
        BY <2>13, <2>7, <2>8, <3>5, ResponsesOfTheTable DEF Made
      <4>2. PICK kind : kind = bus.kind
        OBVIOUS
      <4>3. v \in Values("ifCond", kind) /\ body \in Bodies("ifCond", v)
        BY <2>3, <3>5, <4>2
      <4>4. Verify(body, v[1], v[2])
        BY <4>3, IfCondIsVerified
      <4>5. Learned("ifCond", v, r) = Ok(<<>>)
        BY <4>1, <4>4, LearnsOfIfCond
      <4> QED
        BY <2>3, <3>5, <4>5, TruthOf
    <3>6. CASE op \in {"ocr", "opCond", "mmcOpCond"}
      <4>1. r.type = "R3" /\ r.raw = body
        BY <2>13, <2>7, <2>8, <3>6, ResponsesOfTheTable DEF Made
      <4>2. OcrView(body) = OcrTruth(body)
        BY OcrIsTheTruth
      <4>3. Learned(op, v, r) = Ok(OcrView(r.raw))
        BY <2>3, <3>6, <4>1, LearnsOf
      <4>4. Truth(op, body) = OcrTruth(body)
        BY <2>3, <3>6, TruthOf
      <4> QED
        BY <4>1, <4>2, <4>3, <4>4
    <3>7. CASE op = "publishRca"
      <4>1. r.type = "R6" /\ r.raw = body
        BY <2>13, <2>7, <2>8, <3>7, ResponsesOfTheTable DEF Made
      <4>2. RcaView(body) = RcaMeans(body)
        BY LowField DEF RcaView, RcaMeans
      <4> QED
        BY <2>3, <3>7, <4>1, <4>2, LearnsOf, TruthOf
    <3>8. CASE op = "ioOpCond"
      <4>1. r.type = "R4" /\ r.raw = body
        BY <2>13, <2>7, <2>8, <3>8, ResponsesOfTheTable DEF Made
      <4>2. SdioOcrView(body) = IoOcrMeans(body)
        BY DEF SdioOcrView, IoOcrMeans
      <4> QED
        BY <2>3, <3>8, <4>1, <4>2, LearnsOf, TruthOf
    <3>9. CASE op \in {"ioDirect", "ioExtended"}
      <4>1. r.type = "R5" /\ r.raw = body
        BY <2>13, <2>7, <2>8, <3>9, ResponsesOfTheTable DEF Made
      <4>2. SdioRwView(body) = IoMeans(body)
        BY LowField DEF SdioRwView, IoMeans
      <4> QED
        BY <2>3, <3>9, <4>1, <4>2, LearnsOf, TruthOf
    <3>10. CASE op \notin {"csd", "cid", "allSendCid", "accessMode", "extCsd", "ifCond", "ocr",
                          "opCond", "mmcOpCond", "publishRca", "ioOpCond", "ioDirect", "ioExtended"}
      <4>1. resp \in {"R1", "R1b"}
        <5>1. Operations[op].resp \in ResponseTypes
          BY <2>3, ResponsesDecide
        <5>2. Operations[op].resp \notin {"R2", "R3", "R4", "R5", "R6", "R7"}
          BY <2>3, <3>10, ResponsesDecide DEF Registered
        <5> QED
          BY <2>8, <5>1, <5>2 DEF ResponseTypes
      <4>2. r.raw = body
        BY <2>13, <3>10, <4>1
      <4>6. r.type \in {"R1", "R1b"}
        BY <2>7, <4>1 DEF Made
      <4>3. Learned(op, v, r) = Ok(StatusView(body))
        BY <2>3, <2>8, <3>10, <4>1, <4>2, <4>6, LearnsOfStatus
      <4>4. StatusView(body) = StatusMeans(body)
        BY StateOfTheCard DEF StatusView, StatusMeans
      <4>5. Truth(op, body) = StatusMeans(body)
        BY <2>3, <2>8, <3>10, <4>1, TruthOfStatus
      <4> QED
        BY <4>3, <4>4, <4>5
    <3> QED
      BY <3>1, <3>2, <3>3, <3>4, <3>5, <3>6, <3>7, <3>8, <3>9, <3>10
  <2>14. \A view : Ok(view).ok /\ Ok(view).view = view
    BY DEF Ok
  <2>15. op = "mmcAllSendCid" => told'.ok /\ told'.view[1] = Field(body, 127, 120)
    <3>1. SUFFICES ASSUME op = "mmcAllSendCid"
                   PROVE  told'.ok /\ told'.view[1] = Field(body, 127, 120)
      OBVIOUS
    <3>2. PICK w : /\ Learned(op, v, r) = Ok(CidView(r.raw)) /\ CidView(r.raw) = CidTruth(w)
                   /\ Agree(w, body, 8, 127)
      BY <2>12, <3>1
    <3>3. CidTruth(w)[1] = Field(w, 127, 120)
      BY DEF CidTruth
    <3> QED
      BY <2>6, <2>14, <3>2, <3>3, RegistersAgree
  <2>16. op = "mmcCsd" =>
           told'.ok /\ (told'.view \in {<<>>, CsdV1Truth(body)} \/ Field(body, 127, 126) = {0})
    <3>1. CsdTruth(body) \in {<<>>, CsdV1Truth(body)} \/ Field(body, 127, 126) = {0}
      BY Zenon DEF CsdTruth
    <3> QED
      BY <2>6, <2>11, <2>14, <3>1
  <2>17. Told(op, body)
    BY <2>6, <2>9, <2>11, <2>14, <2>15, <2>16 DEF Told, Tells
  <2> QED
    BY <2>2, <2>4, <2>17
<1> QED
  BY <1>1, <1>2

-----------------------------------------------------------------------------
(* A register that comes as a block.                                       *)

\* The comparison of verify_data: the checksum of the sixteen bytes is the one
\* that follows them when the block with its checksum leaves no remainder.
LEMMA BlockChecksum ==
    ASSUME NEW wire \in Word(144)
    PROVE  Crc16(Bytes(Shr(wire, 16), 16), 16) = wire \cap Ones(16)
           <=> Remainder(wire, Powers16, 16) = {}
<1>1. PICK reg, bytes, high, low : /\ reg = Shr(wire, 16) /\ bytes = Bytes(reg, 16)
                                   /\ high = Message(bytes, 16, 16) /\ low = wire \cap Ones(16)
  OBVIOUS
<1>2. wire \subseteq 0 .. 143
  BY DEF Word
<1>3. \A b : b \in reg <=> b \in Nat /\ b + 16 \in wire
  BY <1>1, <1>2, ShrMember
<1>4. \A q \in 0 .. 15 : \A b : b \in bytes[q] <=> b \in 0 .. 7 /\ b + (120 - 8 * q) \in reg
  BY <1>1, SpiHolds DEF Holds
<1>5. \A q \in 0 .. 15 : bytes[q] \in Word(8)
  BY <1>4 DEF Word
<1>6. \A b : b \in high <=> b \in 16 .. 143 /\ b \in wire
  <2>1. \A b : b \in high <=> \E q \in 0 .. 15 : b \in Up(bytes[q], 8 * (15 - q) + 16)
    BY <1>1 DEF Message
  <2>2. ASSUME NEW q \in 0 .. 15
        PROVE  \A b : b \in Up(bytes[q], 8 * (15 - q) + 16)
                      <=> b \in Int /\ b - (136 - 8 * q) \in 0 .. 7 /\ b \in wire
    <3>1. PICK n \in Int : n = 136 - 8 * q
      OBVIOUS
    <3>2. 8 * (15 - q) + 16 = n /\ 120 - 8 * q = n - 16
      BY <3>1
    <3>3. bytes[q] \in SUBSET Int
      BY <1>4
    <3>4. \A b \in Int : b \in Up(bytes[q], n) <=> b - n \in bytes[q]
      BY <3>3, UpMember
    <3>5. \A b \in Int : b - n \in bytes[q] <=> b - n \in 0 .. 7 /\ (b - n) + (n - 16) \in reg
      BY <1>4, <3>2
    <3>6. \A b \in Int : b - n \in 0 .. 7 => ((b - n) + (n - 16) \in reg <=> b \in wire)
      <4> TAKE b \in Int
      <4> HAVE b - n \in 0 .. 7
      <4>1. (b - n) + (n - 16) = b - 16 /\ b - 16 \in Nat /\ (b - 16) + 16 = b
        BY <3>1
      <4> QED
        BY <1>3, <4>1
    <3>7. Up(bytes[q], n) \in SUBSET Int
      BY <3>3, UpMember
    <3>8. \A b : b \in Up(bytes[q], n) <=> b \in Int /\ b - n \in 0 .. 7 /\ b \in wire
      BY <3>4, <3>5, <3>6, <3>7
    <3> QED
      BY <3>1, <3>2, <3>8
  <2>3. ASSUME NEW b \in Int, NEW q \in 0 .. 15, b - (136 - 8 * q) \in 0 .. 7 PROVE b \in 16 .. 143
    BY <2>3
  <2>4. ASSUME NEW b \in 16 .. 143 PROVE \E q \in 0 .. 15 : b - (136 - 8 * q) \in 0 .. 7
    <3>1. PICK q : q = 17 - b \div 8
      OBVIOUS
    <3>2. q \in 0 .. 15 /\ b - (136 - 8 * q) \in 0 .. 7
      BY <3>1
    <3> QED
      BY <3>2
  <2>5. ASSUME NEW b \in high PROVE b \in 16 .. 143 /\ b \in wire
    <3>1. PICK q \in 0 .. 15 : b \in Up(bytes[q], 8 * (15 - q) + 16)
      BY <2>1
    <3>2. b \in Int /\ b - (136 - 8 * q) \in 0 .. 7 /\ b \in wire
      BY <2>2, <3>1
    <3> QED
      BY <2>3, <3>2
  <2>6. ASSUME NEW b \in 16 .. 143, b \in wire PROVE b \in high
    <3>1. PICK q \in 0 .. 15 : b - (136 - 8 * q) \in 0 .. 7
      BY <2>4
    <3>2. b \in Up(bytes[q], 8 * (15 - q) + 16)
      BY <2>2, <2>6, <3>1
    <3> QED
      BY <2>1, <3>2
  <2> QED
    BY <2>5, <2>6
<1>7. low \subseteq 0 .. 15 /\ high \subseteq 0 .. 143 /\ low \subseteq 0 .. 16 - 1
  BY <1>1, <1>2, <1>6 DEF Ones
<1>8. wire = Xor(high, low)
  <2>1. \A b : b \in low <=> b \in 0 .. 15 /\ b \in wire
    BY <1>1 DEF Ones
  <2>2. \A b \in 0 .. 143 : b \in 16 .. 143 <=> b \notin 0 .. 15
    OBVIOUS
  <2>3. \A b : b \in Xor(high, low) <=> ~(b \in high <=> b \in low)
    BY XorMember
  <2>4. \A b : b \in wire <=> b \in Xor(high, low)
    BY <1>2, <1>6, <2>1, <2>2, <2>3
  <2> QED
    BY <2>4
<1>9. Powers16 = Powers(G16, 16, 143) /\ Generator(G16, 16)
  BY Generator16 DEF Powers16, G16
<1>10. Remainder(wire, Powers16, 16)
       = Xor(Remainder(high, Powers16, 16), Remainder(low, Powers16, 16))
  <2>1. IsFiniteSet(high) /\ IsFiniteSet(low)
    <3>1. \A n \in Nat : low \subseteq 0 .. n => IsFiniteSet(low)
      BY WordsAreFinite
    <3>2. \A n \in Nat : high \subseteq 0 .. n => IsFiniteSet(high)
      BY WordsAreFinite
    <3> QED
      BY <1>7, <3>1, <3>2
  <2>2. PICK d \in Nat : d = 16
    OBVIOUS
  <2> QED
    BY <1>8, <2>1, <2>2, RemainderXor
<1>11. Remainder(low, Powers16, 16) = low
  <2>1. PICK d, m : d = 16 /\ m = 143
    OBVIOUS
  <2>2. m \in Nat /\ d - 1 <= m /\ Generator(G16, d) /\ low \subseteq 0 .. d - 1
        /\ Powers16 = Powers(G16, d, m)
    BY <1>7, <1>9, <2>1
  <2>3. Remainder(low, Powers(G16, d, m), d) = low
    BY <2>2, RemainderSmall
  <2> QED
    BY <2>1, <2>2, <2>3
<1>12. Crc16(bytes, 16) = Remainder(high, Powers16, 16)
  <2>1. PICK n, m : n = 16 /\ m = 143
    OBVIOUS
  <2>2. n \in Nat /\ m \in Nat /\ 8 * n + 15 <= m /\ \A q \in 0 .. n - 1 : bytes[q] \in Word(8)
    BY <1>5, <2>1
  <2>3. Crc16(bytes, n) = Remainder(Message(bytes, n, 16), Powers(G16, 16, m), 16)
    BY <2>2, Crc16IsTheRemainder
  <2> QED
    BY <1>1, <1>9, <2>1, <2>3
<1>13. Remainder(wire, Powers16, 16) = Xor(Crc16(bytes, 16), low)
  BY <1>10, <1>11, <1>12
<1>14. \A x, y : Xor(x, y) = {} <=> x = y
  BY DEF Xor
<1> QED
  BY <1>1, <1>13, <1>14

\* What goes over the wire leaves no remainder, and holds the register.
LEMMA RegisterOnWire ==
    ASSUME NEW body, body \subseteq 0 .. 127, NEW wire,
           wire = Shl(body, 16, 144) \cup Remainder(Shl(body, 16, 144), Powers16, 16)
    PROVE  /\ wire \in Word(144)
           /\ Shr(wire, 16) = body
           /\ Remainder(wire, Powers16, 16) = {}
<1>1. PICK data, sum : data = Shl(body, 16, 144) /\ sum = Remainder(data, Powers16, 16)
  OBVIOUS
<1>2. \A b : b \in data <=> b \in 16 .. 143 /\ b - 16 \in body
  <2>1. \A b : b \in data <=> b \in 0 .. 144 - 1 /\ b - 16 \in body
    BY <1>1, ShlMember
  <2>2. \A b \in 0 .. 144 - 1 : b - 16 \in body => b \in 16 .. 143
    OBVIOUS
  <2> QED
    BY <2>1, <2>2
<1>3. sum \subseteq 0 .. 15
  <2>1. sum \subseteq 0 .. 16 - 1
    BY <1>1, RemainderMember
  <2> QED
    BY <2>1
<1>4. \A b : b \in wire <=> b \in data \/ b \in sum
  BY <1>1
<1>5. wire \in Word(144)
  <2>1. \A b : b \in data => b \in 0 .. 143
    BY <1>2
  <2>2. \A b : b \in sum => b \in 0 .. 143
    BY <1>3
  <2>3. wire \subseteq 0 .. 144 - 1
    BY <1>4, <2>1, <2>2
  <2> QED
    BY <2>3 DEF Word
<1>6. Shr(wire, 16) = body
  <2>1. wire \in SUBSET Int
    BY <1>5 DEF Word
  <2>2. \A b : b \in Shr(wire, 16) <=> b \in Nat /\ b + 16 \in wire
    BY <2>1, ShrMember
  <2>3. \A b \in Nat : b + 16 \in wire <=> b \in body
    <3> TAKE b \in Nat
    <3>1. b + 16 \notin sum /\ (b + 16) - 16 = b
      BY <1>3
    <3>2. b \in body => b + 16 \in 16 .. 143
      OBVIOUS
    <3> QED
      BY <1>2, <1>4, <3>1, <3>2
  <2>4. \A b : b \in body => b \in Nat
    OBVIOUS
  <2>5. \A b : b \in Shr(wire, 16) <=> b \in body
    BY <2>2, <2>3, <2>4
  <2> QED
    BY <2>5
<1>7. Remainder(wire, Powers16, 16) = {}
  <2>1. wire = Xor(data, sum)
    <3>1. \A b : ~(b \in data /\ b \in sum)
      BY <1>2, <1>3
    <3>2. \A b : b \in Xor(data, sum) <=> ~(b \in data <=> b \in sum)
      BY XorMember
    <3> QED
      BY <1>4, <3>1, <3>2
  <2>2. IsFiniteSet(data) /\ IsFiniteSet(sum)
    <3>1. \A b : b \in data => b \in 0 .. 143
      BY <1>2
    <3>2. \A b : b \in sum => b \in 0 .. 143
      BY <1>3
    <3>3. PICK n \in Nat : n = 143
      OBVIOUS
    <3>4. data \subseteq 0 .. n
      BY <3>1, <3>3
    <3>5. sum \subseteq 0 .. n
      BY <3>2, <3>3
    <3> QED
      BY <3>4, <3>5, WordsAreFinite
  <2>3. Remainder(sum, Powers16, 16) = sum
    <3>1. PICK d, m : d = 16 /\ m = 143
      OBVIOUS
    <3>2. m \in Nat /\ d - 1 <= m /\ Generator(G16, d) /\ sum \subseteq 0 .. d - 1
          /\ Powers16 = Powers(G16, d, m)
      BY <1>3, <3>1, Generator16 DEF Powers16, G16
    <3>3. Remainder(sum, Powers(G16, d, m), d) = sum
      BY <3>2, RemainderSmall
    <3> QED
      BY <3>1, <3>2, <3>3
  <2>4. PICK d \in Nat : d = 16
    OBVIOUS
  <2>5. Remainder(wire, Powers16, 16)
        = Xor(Remainder(data, Powers16, 16), Remainder(sum, Powers16, 16))
    <3>1. Remainder(Xor(data, sum), Powers16, d)
          = Xor(Remainder(data, Powers16, d), Remainder(sum, Powers16, d))
      BY <2>2, <2>4, RemainderXor
    <3> QED
      BY <2>1, <2>4, <3>1
  <2>6. \A x : Xor(x, x) = {}
    BY DEF Xor
  <2> QED
    BY <1>1, <2>3, <2>5, <2>6
<1> QED
  BY <1>5, <1>6, <1>7

\* A burst on the wire does not pass the comparison.
LEMMA StruckOnWire ==
    ASSUME NEW wire \in Word(144), Remainder(wire, Powers16, 16) = {}, NEW noise \in BlockNoise,
           NEW struck, struck = Xor(wire, noise)
    PROVE  Crc16(Bytes(Shr(struck, 16), 16), 16) # struck \cap Ones(16)
<1>1. noise \subseteq 0 .. 143 /\ wire \subseteq 0 .. 143
  BY NoiseAssumption DEF Word
<1>2. struck \in Word(144)
  BY <1>1 DEF Word, Xor
<1>3. PICK k \in 0 .. 143 : noise # {} /\ noise \subseteq k .. k + 15
  BY BurstAssumption
<1>4. PICK n : n = IF k <= 128 THEN k ELSE 128
  OBVIOUS
<1>5. n \in Nat /\ noise \subseteq n .. n + 15 /\ n + 15 <= 143
  <2>1. CASE k <= 128
    BY <1>3, <1>4, <2>1
  <2>2. CASE ~(k <= 128)
    <3>1. \A b \in k .. k + 15 : b \in 0 .. 143 => b \in 128 .. 143
      BY <2>2
    <3> QED
      BY <1>1, <1>3, <1>4, <2>2, <3>1
  <2> QED
    BY <2>1, <2>2
<1>6. Remainder(noise, Powers16, 16) # {}
  <2>1. PICK d, m : d = 16 /\ m = 143
    OBVIOUS
  <2>2. m \in Nat /\ n + d - 1 <= m /\ Generator(G16, d) /\ noise \subseteq n .. n + d - 1
        /\ Powers16 = Powers(G16, d, m)
    BY <1>5, <2>1, Generator16 DEF Powers16, G16
  <2>3. Remainder(noise, Powers(G16, d, m), d) # {}
    BY <1>3, <1>5, <2>2, BurstsAreNoticed
  <2> QED
    BY <2>1, <2>2, <2>3
<1>7. Remainder(struck, Powers16, 16) = Remainder(noise, Powers16, 16)
  <2>1. IsFiniteSet(wire) /\ IsFiniteSet(noise)
    <3>1. \A m \in Nat : wire \subseteq 0 .. m => IsFiniteSet(wire)
      BY WordsAreFinite
    <3>2. \A m \in Nat : noise \subseteq 0 .. m => IsFiniteSet(noise)
      BY WordsAreFinite
    <3> QED
      BY <1>1, <3>1, <3>2
  <2>2. PICK d \in Nat : d = 16
    OBVIOUS
  <2>3. Remainder(struck, Powers16, 16)
        = Xor(Remainder(wire, Powers16, 16), Remainder(noise, Powers16, 16))
    BY <2>1, <2>2, RemainderXor
  <2>4. \A x : Xor({}, x) = x
    BY DEF Xor
  <2> QED
    BY <2>3, <2>4
<1> QED
  BY <1>2, <1>6, <1>7, BlockChecksum

-----------------------------------------------------------------------------
(* What the driver learns over SPI.                                        *)

\* The bits of an undamaged R1, none of which is the one that tells it from noise.
R1s == {{}, {0}, {1}, {4, 6}}

\* What a card sends over SPI.
LEMMA SpiAnswers ==
    ASSUME bus.link = "spi", NEW op, NEW v, NEW sent \in Answers(op, v)
    PROVE  \E r1 \in R1s :
              \E body \in IF Operations[op].resp \in {"R1", "R1b"} THEN {{}} ELSE Bodies(op, v) :
                 /\ sent = Answer(r1, body, OnWire("spi", op, body))
                 /\ op \in {"csd", "cid"} => r1 = {}
<1> DEFINE bodies == IF Operations[op].resp \in {"R1", "R1b"} THEN {{}} ELSE Bodies(op, v)
           r1s == IF bus.link # "spi" \/ op \in {"csd", "cid"} THEN {{}}
                  ELSE {{}, {0}, {1}, {4, 6}}
<1>1. sent \in {Answer(r1, body, OnWire("spi", op, body)) : r1 \in r1s, body \in bodies}
  BY DEF Answers
<1>2. r1s \subseteq R1s /\ (op \in {"csd", "cid"} => r1s = {{}})
  BY DEF R1s
<1> HIDE DEF bodies, r1s
<1>3. PICK r1 \in r1s, body \in bodies : sent = Answer(r1, body, OnWire("spi", op, body))
  BY <1>1
<1>4. r1 \in R1s /\ (op \in {"csd", "cid"} => r1 = {})
  BY <1>2, <1>3
<1>5. body \in IF Operations[op].resp \in {"R1", "R1b"} THEN {{}} ELSE Bodies(op, v)
  BY <1>3 DEF bodies
<1> QED
  BY <1>3, <1>4, <1>5

\* What the driver reads over SPI, and what it expects.
LEMMA SpiReads ==
    ASSUME Invariant, HostTakes, bus.link = "spi"
    PROVE  /\ Received(AskedCommand)
              = IF reply.answered
                THEN SpiRead(AskedCommand.resp, reply.r1, reply.wire, SpiBlock)
                ELSE Err("Timeout")
           /\ reply.answered \in BOOLEAN
           /\ asked.op \in Ops
           /\ asked.op = "opCond" => AskedCommand.resp = "R1"
           /\ asked.op # "opCond" => AskedCommand.resp = Operations[asked.op].resp
           /\ asked.op \notin NativeOps
<1>1. phase = "replied"
  BY HostTells
<1>2. Received(AskedCommand)
      = IF reply.answered THEN SpiRead(AskedCommand.resp, reply.r1, reply.wire, SpiBlock)
        ELSE Err("Timeout")
  <2>1. PICK c : c = AskedCommand
    OBVIOUS
  <2>2. Received(c) = IF reply.answered THEN SpiRead(c.resp, reply.r1, reply.wire, SpiBlock)
                      ELSE Err("Timeout")
    BY DEF Received
  <2> QED
    BY <2>1, <2>2
<1>3. reply.answered \in BOOLEAN
  BY <1>1, AnsweredIsBoolean
<1>4. asked.op \in Ops /\ "spi" \in Operations[asked.op].links
  BY <1>1, HeardSomething DEF Invariant, AskedOK
<1>5. /\ asked.op = "opCond" => AskedCommand.resp = "R1"
      /\ asked.op # "opCond" => AskedCommand.resp = Operations[asked.op].resp
  BY <1>1, ResponseOfTheCommand DEF Expected
<1>6. asked.op \notin NativeOps
  <2>1. PICK op : op = asked.op
    OBVIOUS
  <2> QED
    BY <1>4, <2>1, SpiOperations
<1> QED
  BY <1>2, <1>3, <1>4, <1>5, <1>6

\* An operation of SPI expects a status, unless it asks for more.
LEMMA SpiExpects ==
    ASSUME Invariant, HostTakes, bus.link = "spi",
           asked.op \notin {"csd", "cid", "ocr", "ifCond"}
    PROVE  /\ AskedCommand.resp \in {"None", "R1", "R1b"}
           /\ asked.op = "opCond" \/ Operations[asked.op].resp \in {"None", "R1", "R1b"}
<1>1. PICK op, resp : op = asked.op /\ resp = Operations[op].resp
  OBVIOUS
<1>2. op \in Ops /\ op \notin NativeOps /\ op \notin {"csd", "cid", "ocr", "ifCond"}
  BY <1>1, SpiReads
<1>3. resp \in ResponseTypes /\ resp \notin {"R2", "R4", "R5", "R6", "R7"}
  BY <1>1, <1>2, ResponsesDecide DEF NativeOps, Registered
<1>4. op # "opCond" => resp # "R3"
  BY <1>1, <1>2, ResponsesDecide DEF NativeOps
<1>5. op = "opCond" \/ resp \in {"None", "R1", "R1b"}
  BY <1>3, <1>4 DEF ResponseTypes
<1> QED
  BY <1>1, <1>5, SpiReads

\* A status, with bit 7 low, is what the driver learns.
LEMMA SpiStatus ==
    ASSUME Invariant, HostTakes, bus.link = "spi", reply.answered, 7 \notin reply.r1,
           asked.op \notin {"csd", "cid", "ocr", "ifCond"}
    PROVE  told' = Ok(SpiMeans)
<1>1. PICK op, c : op = asked.op /\ c = AskedCommand
  OBVIOUS
<1>2. /\ c.resp \in {"None", "R1", "R1b"}
      /\ op = "opCond" \/ Operations[op].resp \in {"None", "R1", "R1b"}
  BY <1>1, SpiExpects
<1>3. PICK block : block = SpiBlock
  OBVIOUS
<1>4. \E type \in {"R1", "R1b"} :
         SpiRead(c.resp, reply.r1, reply.wire, block) = Response(type, reply.r1)
  <2>1. FromSpiByte(reply.r1).ok
    BY DEF FromSpiByte, Ok
  <2>2. CASE c.resp = "R1b"
    BY <2>1, <2>2 DEF SpiRead
  <2>3. CASE c.resp # "R1b"
    BY <1>2, <2>1, <2>3 DEF SpiRead
  <2> QED
    BY <2>2, <2>3
<1>5. PICK type \in {"R1", "R1b"} : Received(c) = Response(type, reply.r1)
  BY <1>1, <1>3, <1>4, SpiReads
<1>6. PICK r : r = Received(c).view
  OBVIOUS
<1>7. r.type \in {"R1", "R1b"} /\ r.raw = reply.r1 /\ Received(c).ok
  BY <1>5, <1>6 DEF Response, Ok
<1>8. op \in Ops /\ op \notin {"extCsd", "accessMode", "ocr"}
  BY <1>1, SpiReads DEF NativeOps
<1>9. Operations[op].resp # "R2"
  <2>1. op \notin Registered
    BY <1>1, SpiReads DEF NativeOps, Registered
  <2> QED
    BY <1>8, <2>1, ResponsesDecide
<1>10. Learned(op, asked.values, r) = Ok(SpiStatusView(reply.r1))
  BY <1>7, <1>8, <1>9, LearnsOfStatus
<1>11. SpiStatusView(reply.r1) = SpiMeans
  <2>1. PICK r1, other : r1 = reply.r1 /\ other = SpiCardError(r1)
    OBVIOUS
  <2>2. other = SpiError(r1)
    BY <2>1, ErrorOfTheCard
  <2> QED
    BY <2>1, <2>2 DEF SpiStatusView, SpiMeans
<1> QED
  BY <1>1, <1>6, <1>7, <1>10, <1>11, HostTells

\* A register comes as a block after an R1 without a flag, or not at all.
LEMMA SpiRegister ==
    ASSUME Invariant, HostTakes, bus.link = "spi", asked.op \in {"csd", "cid"}, told'.ok
    PROVE  reply.answered /\ reply.r1 = {} /\ SpiBlock.ok
<1>1. PICK op, c, block : op = asked.op /\ c = AskedCommand /\ block = SpiBlock
  OBVIOUS
<1>2. op \in Ops /\ Operations[op].resp = "R2" /\ c.resp = "R2"
  BY <1>1, SpiReads, ResponsesOfTheTable
<1>3. Received(c) = IF reply.answered THEN SpiRead("R2", reply.r1, reply.wire, block)
                    ELSE Err("Timeout")
  BY <1>1, <1>2, SpiReads
<1>4. \A e : Ok(e).ok = TRUE /\ Err(e).ok = FALSE
  BY DEF Ok, Err
<1>5. Received(c).ok
  <2>1. Received(c).ok \in BOOLEAN
    BY <1>1, Receives, HostTells
  <2> QED
    BY <1>1, <2>1, HostTells
<1>6. reply.answered
  BY <1>3, <1>4, <1>5
<1>7. SpiRead("R2", reply.r1, reply.wire, block)
      = IF 7 \in reply.r1 THEN Err("BadResponse")
        ELSE IF reply.r1 # {} THEN Response("R1", reply.r1)
        ELSE IF block.ok THEN Response("R2", block.view)
        ELSE block
  BY <1>4 DEF SpiRead, FromSpiByte
<1>8. reply.r1 = {}
  <2>1. SUFFICES ASSUME reply.r1 # {} PROVE FALSE
    OBVIOUS
  <2>2. Received(c) = Response("R1", reply.r1)
    BY <1>3, <1>4, <1>5, <1>6, <1>7, <2>1
  <2>3. PICK r : r = Received(c).view
    OBVIOUS
  <2>4. r.type = "R1"
    BY <2>2, <2>3 DEF Response, Ok
  <2>5. op \notin {"extCsd", "accessMode"}
    BY <1>1
  <2>6. Learned(op, asked.values, r) = Err("BadResponse")
    BY <1>2, <2>4, <2>5, LearnsOfStatus
  <2>7. told' = Err("BadResponse")
    BY <1>1, <1>5, <2>3, <2>6, HostTells
  <2> QED
    BY <1>4, <2>7
<1>9. block.ok
  BY <1>3, <1>5, <1>6, <1>7, <1>8
<1> QED
  BY <1>1, <1>6, <1>8, <1>9

\* Over SPI, too, the driver learns from an undamaged answer what it means.
LEMMA SpiTells ==
    ASSUME Invariant, HostTakes, bus.link = "spi", heard = asked, "reply" \notin hit
    PROVE  told' = Ok(Truth(asked.op, reply.meant))
<1>1. PICK op, v, c, block :
         op = asked.op /\ v = asked.values /\ c = AskedCommand /\ block = SpiBlock
  OBVIOUS
<1>2. phase = "replied" /\ op \in Ops
  BY <1>1, HostTells, SpiReads
<1>3. reply \in Answers(op, v)
  BY <1>1, <1>2, HeardSomething DEF Invariant, ReplyOK, SentBack
<1>4. PICK r1 \in R1s,
           body \in IF Operations[op].resp \in {"R1", "R1b"} THEN {{}} ELSE Bodies(op, v) :
         /\ reply = Answer(r1, body, OnWire("spi", op, body))
         /\ op \in {"csd", "cid"} => r1 = {}
  BY <1>3, SpiAnswers
<1>5. /\ reply.answered = TRUE /\ reply.r1 = r1 /\ reply.meant = body
      /\ reply.wire = OnWire("spi", op, body)
  BY <1>4 DEF Answer
<1>6. 7 \notin r1 /\ 2 \notin r1
  BY DEF R1s
<1>7. Received(c) = SpiRead(c.resp, r1, reply.wire, block)
  BY <1>1, <1>5, SpiReads
<1>8. FromSpiByte(r1).ok
  BY <1>6 DEF FromSpiByte, Ok
<1>9. told' = IF Received(c).ok THEN Learned(op, v, Received(c).view) ELSE Received(c)
  BY <1>1, HostTells
<1>10. CASE op \in {"csd", "cid"}
  <2>1. c.resp = "R2" /\ r1 = {} /\ body \in Bodies(op, v)
    BY <1>1, <1>4, <1>10, SpiReads, ResponsesOfTheTable
  <2>2. body \subseteq 0 .. 127
    <3>1. body \in SUBSET (8 .. 127)
      BY <1>10, <2>1, RegistersEndAtTheCrc DEF Registered
    <3> QED
      BY <3>1
  <2>3. reply.wire = Shl(body, 16, 144) \cup Remainder(Shl(body, 16, 144), Powers16, 16)
    BY <1>5, <1>10 DEF OnWire
  <2>4. PICK wire : wire = reply.wire
    OBVIOUS
  <2>5. wire \in Word(144) /\ Shr(wire, 16) = body /\ Remainder(wire, Powers16, 16) = {}
    BY <2>2, <2>3, <2>4, RegisterOnWire
  <2>6. Crc16(Bytes(Shr(wire, 16), 16), 16) = wire \cap Ones(16)
    BY <2>5, BlockChecksum
  <2>7. heard.op \in {"csd", "cid"}
    BY <1>1, <1>10
  <2>8. block = Ok(Bytes(body, 16))
    BY <1>1, <2>4, <2>5, <2>6, <2>7 DEF SpiBlock
  <2>9. Received(c) = Response("R2", Bytes(body, 16))
    BY <1>7, <1>8, <2>1, <2>8 DEF SpiRead, Ok
  <2>10. PICK r : r = Received(c).view
    OBVIOUS
  <2>11. Received(c).ok /\ r.type = "R2" /\ r.raw = Bytes(body, 16)
    BY <2>9, <2>10 DEF Response, Ok
  <2>12. Holds(r.raw, body)
    BY <2>11, SpiHolds
  <2>13. CASE op = "csd"
    <3>1. CapacityBlocks(r.raw) = CsdTruth(body)
      BY <2>12, CsdIsTheTruth
    <3>2. Learned(op, v, r) = Ok(CapacityBlocks(r.raw)) /\ Truth(op, body) = CsdTruth(body)
      BY <1>2, <2>11, <2>13, LearnsOf, TruthOf
    <3> QED
      BY <1>1, <1>5, <1>9, <2>10, <2>11, <3>1, <3>2
  <2>14. CASE op = "cid"
    <3>1. CidView(r.raw) = CidTruth(body)
      BY <2>12, CidIsTheTruth
    <3>2. Learned(op, v, r) = Ok(CidView(r.raw)) /\ Truth(op, body) = CidTruth(body)
      BY <1>2, <2>11, <2>14, LearnsOf, TruthOf
    <3> QED
      BY <1>1, <1>5, <1>9, <2>10, <2>11, <3>1, <3>2
  <2> QED
    BY <1>10, <2>13, <2>14
<1>11. CASE op = "ocr"
  <2>1. c.resp = "R3"
    BY <1>1, <1>11, SpiReads, ResponsesOfTheTable
  <2>2. reply.wire = body
    BY <1>5, <1>11 DEF OnWire
  <2>3. Received(c) = Response("R3", body)
    BY <1>7, <1>8, <2>1, <2>2 DEF SpiRead
  <2>4. PICK r : r = Received(c).view
    OBVIOUS
  <2>5. Received(c).ok /\ r.type = "R3" /\ r.raw = body
    BY <2>3, <2>4 DEF Response, Ok
  <2>6. Learned(op, v, r) = Ok(OcrView(r.raw))
    BY <1>2, <1>11, <2>5, LearnsOf
  <2>7. Truth(op, body) = OcrTruth(body)
    BY <1>2, <1>11, TruthOf
  <2>8. OcrView(body) = OcrTruth(body)
    BY OcrIsTheTruth
  <2> QED
    BY <1>1, <1>5, <1>9, <2>4, <2>5, <2>6, <2>7, <2>8
<1>12. CASE op = "ifCond"
  <2>1. c.resp = "R7" /\ body \in Bodies(op, v)
    BY <1>1, <1>4, <1>12, SpiReads, ResponsesOfTheTable
  <2>2. reply.wire = body
    BY <1>5, <1>12 DEF OnWire
  <2>3. Received(c) = Response("R7", body)
    BY <1>6, <1>7, <1>8, <2>1, <2>2 DEF SpiRead
  <2>4. PICK r, kind : r = Received(c).view /\ kind = bus.kind
    OBVIOUS
  <2>5. Received(c).ok /\ r.type = "R7" /\ r.raw = body
    BY <2>3, <2>4 DEF Response, Ok
  <2>6. v \in Values("ifCond", kind) /\ body \in Bodies("ifCond", v)
    BY <1>1, <1>2, <1>12, <2>1, <2>4, HeardSomething
  <2>7. Verify(body, v[1], v[2])
    BY <2>6, IfCondIsVerified
  <2>8. Learned("ifCond", v, r) = Ok(<<>>)
    BY <2>5, <2>7, LearnsOfIfCond
  <2>9. Truth(op, body) = <<>>
    BY <1>2, <1>12, TruthOf
  <2> QED
    BY <1>1, <1>5, <1>9, <1>12, <2>4, <2>5, <2>8, <2>9
<1>13. CASE op \notin {"csd", "cid", "ocr", "ifCond"}
  <2>1. told' = Ok(SpiMeans)
    BY <1>1, <1>5, <1>6, <1>13, SpiStatus
  <2>2. op = "opCond" \/ Operations[op].resp \in {"None", "R1", "R1b"}
    BY <1>1, <1>13, SpiExpects
  <2>3. op \notin {"extCsd", "accessMode"}
    BY <1>1, SpiReads DEF NativeOps
  <2>4. Truth(op, body) = SpiMeans
    BY <1>2, <2>2, <2>3, TruthOfStatus
  <2> QED
    BY <1>1, <1>5, <2>1, <2>4
<1> QED
  BY <1>10, <1>11, <1>12, <1>13

\* No operation of SPI is one of which the driver learns less than the truth.
LEMMA SpiTold ==
    ASSUME Invariant, HostTakes, bus.link = "spi", heard = asked, "reply" \notin hit
    PROVE  Told(asked.op, reply.meant)
<1>1. PICK op, w : op = asked.op /\ w = reply.meant
  OBVIOUS
<1>2. told' = Ok(Truth(op, w))
  BY <1>1, SpiTells
<1>3. op \in Ops /\ op \notin {"mmcCsd", "mmcAllSendCid"}
  BY <1>1, SpiReads DEF NativeOps
<1>4. op = "csd" => Truth(op, w) = CsdTruth(w)
  BY <1>3, TruthOf
<1>5. told'.ok /\ told'.view = Truth(op, w)
  BY <1>2 DEF Ok
<1>6. Tells(op, told'.view, w)
  BY <1>3, <1>5 DEF Tells
<1> QED
  BY <1>1, <1>2, <1>3, <1>4, <1>5, <1>6 DEF Told

\* A register whose answer noise has struck does not get past a driver that checks.
LEMMA SpiStruck ==
    ASSUME Invariant, HostTakes, bus.link = "spi", heard = asked, "reply" \in hit,
           asked.op \in {"csd", "cid"}, bus.verify
    PROVE  ~told'.ok
<1>1. SUFFICES ASSUME told'.ok PROVE FALSE
  <2>1. told'.ok \in BOOLEAN
    BY HostTells, Receives, LearnedIsEither
  <2> QED
    BY <2>1
<1>2. reply.r1 = {} /\ SpiBlock.ok
  BY <1>1, SpiRegister
<1>3. PICK op, v : op = asked.op /\ v = asked.values
  OBVIOUS
<1>4. PICK sent \in Answers(op, v) : Struck(sent)
  BY <1>3, HeardSomething, HostTells DEF Invariant, ReplyOK, SentBack
<1>5. PICK r1 \in R1s,
           body \in IF Operations[op].resp \in {"R1", "R1b"} THEN {{}} ELSE Bodies(op, v) :
         /\ sent = Answer(r1, body, OnWire("spi", op, body))
         /\ op \in {"csd", "cid"} => r1 = {}
  BY <1>4, SpiAnswers
<1>6. r1 = {} /\ body \in Bodies(op, v)
  BY <1>3, <1>5, ResponsesOfTheTable
<1>7. CASE \E b \in 0 .. 7 : reply = [sent EXCEPT !.r1 = Xor(@, {b})]
  <2>1. PICK b \in 0 .. 7 : reply = [sent EXCEPT !.r1 = Xor(@, {b})]
    BY <1>7
  <2>2. reply.r1 = Xor({}, {b})
    BY <1>5, <1>6, <2>1 DEF Answer
  <2>3. Xor({}, {b}) = {b}
    BY DEF Xor
  <2> QED
    BY <1>2, <2>2, <2>3
<1>8. CASE \E noise \in BlockNoise : reply = [sent EXCEPT !.wire = Xor(@, noise)]
  <2>1. PICK noise \in BlockNoise : reply = [sent EXCEPT !.wire = Xor(@, noise)]
    BY <1>8
  <2>2. PICK wire, struck : wire = OnWire("spi", op, body) /\ struck = reply.wire
    OBVIOUS
  <2>3. struck = Xor(wire, noise)
    BY <1>5, <2>1, <2>2 DEF Answer
  <2>4. wire = Shl(body, 16, 144) \cup Remainder(Shl(body, 16, 144), Powers16, 16)
    BY <1>3, <2>2 DEF OnWire
  <2>5. body \subseteq 0 .. 127
    <3>1. body \in SUBSET (8 .. 127)
      BY <1>3, <1>6, RegistersEndAtTheCrc DEF Registered
    <3> QED
      BY <3>1
  <2>6. wire \in Word(144) /\ Remainder(wire, Powers16, 16) = {}
    BY <2>4, <2>5, RegisterOnWire
  <2>7. Crc16(Bytes(Shr(struck, 16), 16), 16) # struck \cap Ones(16)
    BY <2>3, <2>6, StruckOnWire
  <2>8. SpiBlock = Err("Crc")
    BY <2>2, <2>7 DEF SpiBlock
  <2> QED
    BY <1>2, <2>8 DEF Err
<1> QED
  BY <1>4, <1>7, <1>8 DEF Struck

\* A refusal is a status with an error flag, and nothing but an OCR is read after it.
LEMMA SpiUnheard ==
    ASSUME Invariant, HostTakes, bus.link = "spi", heard = Nothing, told'.ok,
           "reply" \notin hit \/ asked.op \in {"csd", "cid"}
    PROVE  asked.op = "ocr" \/ told'.view = <<FALSE, SpiError(reply.r1)>>
<1>1. CASE asked.op \in {"csd", "cid"}
  <2>1. SpiBlock.ok
    BY <1>1, SpiRegister
  <2>2. SpiBlock = Err("Timeout")
    BY DEF SpiBlock, Nothing
  <2> QED
    BY <2>1, <2>2 DEF Err
<1>2. CASE asked.op \notin {"csd", "cid"}
  <2>1. SUFFICES ASSUME asked.op # "ocr" PROVE told'.view = <<FALSE, SpiError(reply.r1)>>
    OBVIOUS
  <2>2. reply \in Refusals
    BY <1>2, HostTells DEF Invariant, ReplyOK, SentBack
  <2>3. PICK c, block : c = AskedCommand /\ block = SpiBlock
    OBVIOUS
  <2>4. Received(c) = IF reply.answered THEN SpiRead(c.resp, reply.r1, reply.wire, block)
                      ELSE Err("Timeout")
    BY <2>3, SpiReads
  <2>5. \A e : Ok(e).ok = TRUE /\ Err(e).ok = FALSE
    BY DEF Ok, Err
  <2>6. Received(c).ok
    <3>1. Received(c).ok \in BOOLEAN
      BY <2>3, Receives, HostTells
    <3> QED
      BY <2>3, <3>1, HostTells
  <2>7. reply.answered /\ reply.r1 \in {{2}, {3}} /\ reply.wire = Ones(32)
    <3>1. reply # Silence
      BY <2>4, <2>5, <2>6 DEF Silence
    <3>2. PICK r1 \in {r \in {{2}, {3}} : bus.link = "spi"} : reply = Answer(r1, {}, Ones(32))
      BY <2>2, <3>1 DEF Refusals
    <3> QED
      BY <3>2 DEF Answer
  <2>8. 7 \notin reply.r1 /\ 0 \notin reply.r1
    BY <2>7
  <2>9. SpiMeans = <<FALSE, SpiError(reply.r1)>>
    <3>1. (0 \in reply.r1) = FALSE
      BY <2>8
    <3> QED
      BY <3>1 DEF SpiMeans
  <2>10. CASE asked.op = "ifCond"
    <3>1. c.resp = "R7"
      BY <2>3, <2>10, SpiReads, ResponsesOfTheTable
    <3>2. FromSpiByte(reply.r1).ok
      BY <2>8 DEF FromSpiByte, Ok
    <3>3. PICK r, v : r = Received(c).view /\ v = asked.values
      OBVIOUS
    <3>4. told' = Learned("ifCond", v, r)
      BY <2>3, <2>6, <2>10, <3>3, HostTells
    <3>5. CASE 2 \in reply.r1
      <4>1. Received(c) = Response("R1", reply.r1)
        BY <2>4, <2>7, <3>1, <3>2, <3>5 DEF SpiRead
      <4>2. r.type = "R1" /\ r.raw = reply.r1
        BY <3>3, <4>1 DEF Response, Ok
      <4>3. "ifCond" \in Ops /\ Operations["ifCond"].resp # "R2"
        BY OpsOfTheTable, ResponsesOfTheTable
      <4>4. told' = Ok(SpiStatusView(reply.r1))
        BY <3>4, <4>2, <4>3, LearnsOfStatus
      <4>5. SpiStatusView(reply.r1) = SpiMeans
        <5>1. PICK r1, other : r1 = reply.r1 /\ other = SpiCardError(r1)
          OBVIOUS
        <5>2. other = SpiError(r1)
          BY <5>1, ErrorOfTheCard
        <5> QED
          BY <5>1, <5>2 DEF SpiStatusView, SpiMeans
      <4> QED
        BY <2>9, <4>4, <4>5 DEF Ok
    <3>6. CASE 2 \notin reply.r1
      <4>1. Received(c) = Response("R7", Ones(32))
        BY <2>4, <2>7, <3>1, <3>2, <3>6 DEF SpiRead
      <4>2. r.type = "R7" /\ r.raw = Ones(32)
        BY <3>3, <4>1 DEF Response, Ok
      <4>3. PICK kind : kind = bus.kind
        OBVIOUS
      <4>4. v \in Values("ifCond", kind)
        BY <2>10, <3>3, <4>3, HeardSomething, HostTells
      <4>5. ~Verify(Ones(32), v[1], v[2])
        <5>1. Bodies("ifCond", v) = {Built(<<<<11, 8>>, <<7, 0>>>>, v)}
          BY ResponsesOfTheTable DEF Bodies
        <5>2. PICK body : body = Built(<<<<11, 8>>, <<7, 0>>>>, v)
          OBVIOUS
        <5>3. body \in Bodies("ifCond", v)
          BY <5>1, <5>2
        <5> QED
          BY <4>4, <5>3, IfCondIsVerified
      <4>6. told' = Err("BadResponse")
        BY <3>4, <4>2, <4>5, LearnsOfIfCond
      <4> QED
        BY <2>5, <4>6
    <3> QED
      BY <3>5, <3>6
  <2>11. CASE asked.op # "ifCond"
    <3>1. told' = Ok(SpiMeans)
      BY <1>2, <2>1, <2>7, <2>8, <2>11, SpiStatus
    <3> QED
      BY <2>9, <3>1 DEF Ok
  <2> QED
    BY <2>10, <2>11
<1> QED
  BY <1>1, <1>2

\* SDHCI does not read the responses of SDIO.
LEMMA SdhciHasNoSdio ==
    ASSUME Invariant, HostTakes, bus.link = "sdhci", Operations[asked.op].resp \in {"R4", "R5"}
    PROVE  ~told'.ok
<1>1. PICK c, register : c = AskedCommand /\ register = Registers(bus.link, heard.op)
  OBVIOUS
<1>2. c.resp \in {"R4", "R5"}
  BY <1>1, ResponseOfTheCommand, HostTells DEF Expected
<1>3. SdhciDecode(c.resp, register) = Err("BadResponse")
  BY <1>2 DEF SdhciDecode
<1>4. ~Received(c).ok
  <2>1. SUFFICES ASSUME Received(c).ok PROVE FALSE
    <3>1. Received(c).ok \in BOOLEAN
      BY <1>1, Receives, HostTells
    <3> QED
      BY <3>1
  <2>2. Received(c) = SdhciDecode(c.resp, register)
    BY <1>1, <2>1, Receives, HostTells
  <2> QED
    BY <1>3, <2>1, <2>2 DEF Err
<1> QED
  BY <1>1, <1>4, HostTells

\* What a driver takes of a controller that checks the answer tells what the card
\* means, struck or not: the checksum it has passed tells one from the other.
LEMMA NativeTakes ==
    ASSUME Invariant, HostTakes, bus.link # "spi", heard = asked, told'.ok,
           "reply" \notin hit \/ Protected
    PROVE  Told(asked.op, reply.meant)
<1>1. ~(bus.link = "sdhci" /\ Operations[asked.op].resp \in {"R4", "R5"})
  BY SdhciHasNoSdio
<1>2. CASE "reply" \notin hit
  BY <1>1, <1>2, NativeTells
<1>3. CASE "reply" \in hit
  <2>1. phase = "replied"
    BY HostTells
  <2>2. PICK op, v, c, resp : /\ op = asked.op /\ v = asked.values /\ c = AskedCommand
                              /\ resp = Operations[op].resp
    OBVIOUS
  <2>3. resp \notin {"R3", "R4"}
    BY <1>3, <2>2 DEF Protected
  <2>4. resp # "None"
    <3>1. PICK sent \in Answers(op, v) : sent.answered
      BY <1>3, <2>1, <2>2, HeardSomething DEF Invariant, ReplyOK, SentBack
    <3>2. resp = "None" => Answers(op, v) = {Silence}
      BY <2>2 DEF Answers
    <3>3. ~Silence.answered
      BY DEF Silence
    <3> QED
      BY <3>1, <3>2, <3>3
  <2>5. Received(c).ok
    <3>1. Received(c).ok \in BOOLEAN
      BY <2>1, <2>2, Receives
    <3> QED
      BY <2>2, <3>1, HostTells
  <2>6. Captured(SdhciEncode(c).response, heard.op).ok
    BY <2>1, <2>2, <2>5, Receives
  <2> QED
    BY <1>1, <2>2, <2>3, <2>4, <2>6, NativeTells
<1> QED
  BY <1>2, <1>3

\* HostTakes: an undamaged answer is understood.
LEMMA HostUnderstands == Invariant /\ HostTakes => UndamagedMeansUnderstood'
<1> SUFFICES ASSUME Invariant, HostTakes, hit = {},
                    ~(bus.link = "sdhci" /\ Operations[asked.op].resp \in {"R4", "R5"})
             PROVE  told'.ok
  BY DEF HostTakes, UndamagedMeansUnderstood
<1>1. heard = asked
  BY HostTells DEF Invariant, ObeysWhatWasAsked
<1>2. Told(asked.op, reply.meant)
  <2>1. CASE bus.link = "spi"
    BY <1>1, <2>1, SpiTold
  <2>2. CASE bus.link # "spi"
    BY <1>1, <2>2, NativeTells
  <2> QED
    BY <2>1, <2>2
<1> QED
  BY <1>2 DEF Told

\* A step that leaves the bus and the card alone leaves alone what an answer tells.
LEMMA TellsNext ==
    ASSUME bus' = bus, asked' = asked, reply' = reply, extCsd' = extCsd
    PROVE  Tells(asked.op, told.view, reply.meant)' = Tells(asked.op, told'.view, reply.meant)
<1>1. Truth(asked.op, reply.meant)' = Truth(asked.op, reply.meant)
  BY Zenon DEF Truth, CsdTruth, CsdV1Truth, CidTruth, SwitchTruth, OcrTruth
<1>2. CsdV1Truth(reply.meant)' = CsdV1Truth(reply.meant)
  BY DEF CsdV1Truth
<1> QED
  BY <1>1, <1>2 DEF Tells

\* HostTakes: what is learned is the truth.
LEMMA HostLearns == Invariant /\ HostTakes => LearnsTheTruth'
<1> SUFFICES ASSUME Invariant, HostTakes PROVE LearnsTheTruth'
  OBVIOUS
<1>1. /\ bus' = bus /\ asked' = asked /\ heard' = heard /\ reply' = reply /\ hit' = hit
      /\ extCsd' = extCsd /\ phase = "replied"
  BY DEF HostTakes
<1>2. Tells(asked.op, told.view, reply.meant)' = Tells(asked.op, told'.view, reply.meant)
  BY <1>1, TellsNext
<1>3. Protected' = Protected
  BY <1>1 DEF Protected
<1>4. asked # Nothing /\ told'.ok \in BOOLEAN
  BY <1>1, HeardSomething, HostTells, Receives, LearnedIsEither
<1>5. SUFFICES ASSUME told'.ok, "reply" \notin hit \/ Protected
               PROVE  CASE heard = asked -> Tells(asked.op, told'.view, reply.meant)
                        [] heard = Nothing ->
                              \/ asked.op = "ocr"
                              \/ bus.link = "spi" /\ told'.view = <<FALSE, SpiError(reply.r1)>>
                              \/ bus.link # "spi" /\ Operations[asked.op].resp = "None"
                        [] OTHER -> ~bus.strict
  BY <1>1, <1>2, <1>3 DEF LearnsTheTruth
<1>6. CASE heard = asked
  <2>1. Told(asked.op, reply.meant)
    <3>1. CASE bus.link = "spi"
      <4>1. "reply" \notin hit
        BY <1>5, <1>6, <3>1, SpiStruck DEF Protected
      <4> QED
        BY <1>6, <3>1, <4>1, SpiTold
    <3>2. CASE bus.link # "spi"
      BY <1>5, <1>6, <3>2, NativeTakes
    <3> QED
      BY <3>1, <3>2
  <2> QED
    BY <1>4, <1>6, <2>1 DEF Told
<1>7. CASE heard = Nothing
  <2>1. \/ asked.op = "ocr"
        \/ bus.link = "spi" /\ told'.view = <<FALSE, SpiError(reply.r1)>>
        \/ bus.link # "spi" /\ Operations[asked.op].resp = "None"
    <3>1. CASE bus.link = "spi"
      <4>1. "reply" \notin hit \/ asked.op \in {"csd", "cid"}
        BY <1>5, <3>1 DEF Protected
      <4> QED
        BY <1>5, <1>7, <3>1, <4>1, SpiUnheard
    <3>2. CASE bus.link # "spi"
      BY <1>1, <1>5, <1>7, <3>2, UnheardFails, HostTells
    <3> QED
      BY <3>1, <3>2
  <2> QED
    BY <1>4, <1>7, <2>1
<1>8. CASE heard # asked /\ heard # Nothing
  <2>1. ~bus.strict
    BY <1>1, <1>8 DEF Invariant, ObeysWhatWasAsked
  <2> QED
    BY <1>8, <2>1
<1> QED
  BY <1>6, <1>7, <1>8

\* What every step but HostTakes leaves alone: what was told stands until Done.
LEMMA ToldStands ==
    ASSUME Next \/ UNCHANGED vars, ~HostTakes
    PROVE  \/ phase' # "told"
           \/ UNCHANGED vars
BY DEF Next, Ask, StrikeCommand, CardTakes, StrikeReply, Done

\* With nothing damaged every answer is understood: the response that a transport
\* is set to receive for a command is the one that the card sends, and the code
\* has a case for it (the encode and decode of the three transports, and the
\* callers of send_command), but for SDHCI and SDIO.
THEOREM EveryAnswerIsUnderstood == Spec => []UndamagedMeansUnderstood
<1>1. Init => UndamagedMeansUnderstood
  BY DEF Init, UndamagedMeansUnderstood
<1>2. Invariant /\ UndamagedMeansUnderstood /\ [Next]_vars => UndamagedMeansUnderstood'
  <2> SUFFICES ASSUME Invariant, UndamagedMeansUnderstood, Next \/ UNCHANGED vars
               PROVE  UndamagedMeansUnderstood'
    OBVIOUS
  <2>1. CASE HostTakes
    BY <2>1, HostUnderstands
  <2>2. CASE phase' # "told"
    BY <2>2 DEF UndamagedMeansUnderstood
  <2>3. CASE UNCHANGED vars
    BY <2>3 DEF UndamagedMeansUnderstood, vars
  <2> QED
    BY <2>1, <2>2, <2>3, ToldStands
<1> QED
  BY <1>1, <1>2, InvariantHolds, PTL DEF Spec

\* What the driver learns is what the registers of the card hold, field by field,
\* over every transport: the masks and shifts of response.rs and ext_csd.rs, the
\* registers of the controllers and the bytes of SPI lose and move no bit, and an
\* answer that carries a checksum the driver checks is not misread when noise
\* strikes it, since the checksum computed over it does not fit.  Of an MMC card's CID
\* and CSD, which the driver reads by SD's tables, it is what Tells says.
THEOREM DriversLearnTheTruth == Spec => []LearnsTheTruth
<1>1. Init => LearnsTheTruth
  BY DEF Init, LearnsTheTruth
<1>2. Invariant /\ LearnsTheTruth /\ [Next]_vars => LearnsTheTruth'
  <2> SUFFICES ASSUME Invariant, LearnsTheTruth, Next \/ UNCHANGED vars
               PROVE  LearnsTheTruth'
    OBVIOUS
  <2>1. CASE HostTakes
    BY <2>1, HostLearns
  <2>2. CASE phase' # "told"
    BY <2>2 DEF LearnsTheTruth
  <2>3. CASE UNCHANGED vars
    <3>1. /\ bus' = bus /\ asked' = asked /\ heard' = heard /\ reply' = reply /\ hit' = hit
          /\ extCsd' = extCsd /\ phase' = phase /\ told' = told
      BY <2>3 DEF vars
    <3>2. Tells(asked.op, told.view, reply.meant)' = Tells(asked.op, told.view, reply.meant)
      BY <3>1, TellsNext
    <3>3. Protected' = Protected
      BY <3>1 DEF Protected
    <3> QED
      BY <3>1, <3>2, <3>3 DEF LearnsTheTruth
  <2> QED
    BY <2>1, <2>2, <2>3, ToldStands
<1> QED
  BY <1>1, <1>2, InvariantHolds, PTL DEF Spec

-----------------------------------------------------------------------------
(* The byte address of the last block of a card.                           *)

\* READ_BL_LEN of a card with a CSD of the first version is 9, 10 or 11.
LEMMA LengthOfABlock ==
    ASSUME NEW w \in Csds \cup MmcCsds, Field(w, 127, 126) = {}
    PROVE  \E l \in 9 .. 11 : Field(w, 83, 80) = Number(l)
<1>1. ASSUME NEW filling, NEW l \in 9 .. 11, NEW top, top \subseteq 126 .. 127,
             w = CsdV1(filling, l) \cup top
      PROVE  Field(w, 83, 80) = Number(l)
  <2>2. Number(l) \subseteq 0 .. 3
    <3>1. l \in 0 .. 255 /\ l \div 16 = 0 /\ l \div 32 = 0 /\ l \div 64 = 0 /\ l \div 128 = 0
      OBVIOUS
    <3>2. 4 \notin Number(l) /\ 5 \notin Number(l) /\ 6 \notin Number(l) /\ 7 \notin Number(l)
          /\ Number(l) \subseteq 0 .. 7
      BY <3>1, BitsOfAByte
    <3> QED
      BY <3>2
  <2>3. \A b : b \in Shl(Number(l), 80, 128) <=> b \in 0 .. 128 - 1 /\ b - 80 \in Number(l)
    BY <2>2, ShlMember
  <2>4. \A b \in 0 .. 3 : b + 80 \in w <=> b \in Number(l)
    <3> TAKE b \in 0 .. 3
    <3>1. b + 80 \in 80 .. 83 /\ b + 80 \in 0 .. 128 - 1 /\ (b + 80) - 80 = b
      OBVIOUS
    <3>2. b + 80 \notin top
      BY <1>1
    <3>3. b + 80 \in CsdV1(filling, l) <=> b \in Number(l)
      BY <2>3, <3>1 DEF CsdV1
    <3> QED
      BY <1>1, <3>2, <3>3
  <2>5. \A b : b \in Field(w, 83, 80) <=> b \in 0 .. 83 - 80 /\ b + 80 \in w
    BY FieldMember
  <2>6. \A b : b \in Field(w, 83, 80) <=> b \in Number(l)
    BY <2>2, <2>4, <2>5
  <2> QED
    BY <2>6
<1>2. CASE w \in {CsdV2(filling, v) : filling \in Fillings, v \in {{0}, {1}}}
  <2>1. PICK filling \in Fillings, v \in {{0}, {1}} : w = CsdV2(filling, v)
    BY <1>2
  <2>2. Shl(v, 126, 128) \subseteq w
    BY <2>1 DEF CsdV2
  <2>3. \A b : b \in Shl(v, 126, 128) <=> b \in 0 .. 128 - 1 /\ b - 126 \in v
    BY ShlMember
  <2>4. PICK b \in 0 .. 1 : b \in v
    OBVIOUS
  <2>5. b + 126 \in w
    <3>1. b + 126 \in 0 .. 128 - 1 /\ (b + 126) - 126 = b
      OBVIOUS
    <3> QED
      BY <2>2, <2>3, <2>4, <3>1
  <2>6. \A x : x \in Field(w, 127, 126) <=> x \in 0 .. 127 - 126 /\ x + 126 \in w
    BY FieldMember
  <2>7. b \in 0 .. 127 - 126
    OBVIOUS
  <2> QED
    BY <2>5, <2>6, <2>7
<1>3. CASE w \in {CsdV1(filling, l) : filling \in Fillings, l \in 9 .. 11}
  <2>1. PICK filling \in Fillings, l \in 9 .. 11 : w = CsdV1(filling, l)
    BY <1>3
  <2>2. PICK top : top = {}
    OBVIOUS
  <2>3. top \subseteq 126 .. 127 /\ w = CsdV1(filling, l) \cup top
    BY <2>1, <2>2
  <2> QED
    BY <1>1, <2>3
<1>4. CASE w \in MmcCsds
  <2>1. PICK filling \in Fillings, l \in 9 .. 11, structure \in SUBSET {0, 1} :
           w = CsdV1(filling, l) \cup Shl(structure, 126, 128)
    BY <1>4 DEF MmcCsds
  <2>2. PICK top : top = Shl(structure, 126, 128)
    OBVIOUS
  <2>3. \A b : b \in top <=> b \in 0 .. 128 - 1 /\ b - 126 \in structure
    BY <2>2, ShlMember
  <2>4. top \subseteq 126 .. 127
    BY <2>3
  <2> QED
    BY <1>1, <2>1, <2>2, <2>4
<1> QED
  BY <1>2, <1>3, <1>4 DEF Csds

\* What READ_BL_LEN and C_SIZE_MULT shift C_SIZE by.
LEMMA ShiftOfACapacity ==
    ASSUME NEW w \in Csds \cup MmcCsds, Field(w, 127, 126) = {}
    PROVE  Value(Field(w, 49, 47)) + 2 + Value(Field(w, 83, 80)) - 9 \in 2 .. 11
<1>1. PICK l \in 9 .. 11 : Field(w, 83, 80) = Number(l)
  BY LengthOfABlock
<1>2. Value(Number(l)) = l
  <2>1. PICK n : n = Number(l)
    OBVIOUS
  <2>2. /\ n \subseteq 0 .. 7
        /\ 0 \in n <=> (l \div 1) % 2 = 1
        /\ 1 \in n <=> (l \div 2) % 2 = 1
        /\ 2 \in n <=> (l \div 4) % 2 = 1
        /\ 3 \in n <=> (l \div 8) % 2 = 1
        /\ 4 \in n <=> (l \div 16) % 2 = 1
        /\ 5 \in n <=> (l \div 32) % 2 = 1
        /\ 6 \in n <=> (l \div 64) % 2 = 1
        /\ 7 \in n <=> (l \div 128) % 2 = 1
    <3>1. l \in 0 .. 255
      OBVIOUS
    <3> QED
      BY <2>1, <3>1, BitsOfAByte
  <2>3. n \in SUBSET (0 .. 3)
    BY <2>2
  <2>4. Value(n) = Nibble(n, 0)
    BY <2>3, ValueOfFour
  <2>5. Nibble(n, 0) = l
    BY <2>2 DEF Nibble, Bit
  <2> QED
    BY <2>1, <2>4, <2>5
<1>3. Value(Field(w, 49, 47)) \in 0 .. 7
  <2>1. PICK m : m = Field(w, 49, 47)
    OBVIOUS
  <2>2. \A b : b \in m <=> b \in 0 .. 49 - 47 /\ b + 47 \in w
    BY <2>1, FieldMember
  <2>3. m \in SUBSET (0 .. 3) /\ 3 \notin m
    BY <2>2
  <2>4. Value(m) = Nibble(m, 0)
    BY <2>3, ValueOfFour
  <2>5. Nibble(m, 0) \in 0 .. 7
    BY <2>3 DEF Nibble, Bit
  <2> QED
    BY <2>1, <2>4, <2>5
<1> QED
  BY <1>1, <1>2, <1>3

\* The blocks of 512 bytes whose byte address has 32 bits: 2^23 of them.
BlocksWithAddress == 8388608

\* What a word of 24 bits weighs.
LEMMA WeightsWithin ==
    ASSUME NEW w
    PROVE  /\ Weights(w) \in Nat
           /\ Nibble(w, 20) <= 7 => Weights(w) < BlocksWithAddress
<1>1. PICK a, b, c, d, e, f :
         /\ a = Nibble(w, 0) /\ b = Nibble(w, 4) /\ c = Nibble(w, 8)
         /\ d = Nibble(w, 12) /\ e = Nibble(w, 16) /\ f = Nibble(w, 20)
  OBVIOUS
<1>2. /\ a \in Nat /\ b \in Nat /\ c \in Nat /\ d \in Nat /\ e \in Nat /\ f \in Nat
      /\ a <= 15 /\ b <= 15 /\ c <= 15 /\ d <= 15 /\ e <= 15
  <2>1. /\ Nibble(w, 0) \in 0 .. 15 /\ Nibble(w, 4) \in 0 .. 15 /\ Nibble(w, 8) \in 0 .. 15
        /\ Nibble(w, 12) \in 0 .. 15 /\ Nibble(w, 16) \in 0 .. 15 /\ Nibble(w, 20) \in 0 .. 15
    BY NibbleLaws
  <2> QED
    BY <1>1, <2>1
<1>3. Weights(w) = a + 16 * b + 256 * c + 4096 * d + 65536 * e + 1048576 * f
  BY <1>1 DEF Weights
<1> QED
  BY <1>1, <1>2, <1>3, SMT DEF BlocksWithAddress

\* A capacity below 4 GiB, in blocks.
LEMMA ValueOfACapacity ==
    ASSUME NEW s, s \subseteq 0 .. 11, NEW k \in 2 .. 11, NEW c, c = Shl(Increment(s), k, 64)
    PROVE  Value(c) \in Nat /\ 1 <= Value(c) /\ Value(c) <= BlocksWithAddress
<1>1. PICK i : i = Increment(s)
  OBVIOUS
<1>2. i \subseteq 0 .. 12 /\ i # {} /\ (12 \in i => i = {12})
  <2>1. PICK n : n = 12
    OBVIOUS
  <2>2. n \in 0 .. 62 /\ s \in SUBSET (0 .. n - 1)
    BY <2>1
  <2>3. /\ Increment(s) \subseteq 0 .. n
        /\ Increment(s) # {}
        /\ n \in Increment(s) => Increment(s) = {n}
    BY <2>2, IncrementLaws
  <2> QED
    BY <1>1, <2>1, <2>3
<1>3. \A b : b \in c <=> b \in 0 .. 64 - 1 /\ b - k \in i
  <2>1. i \in SUBSET Int
    BY <1>2
  <2> QED
    BY <1>1, <2>1, ShlMember
<1>4. c \in SUBSET (0 .. 23)
  BY <1>2, <1>3
<1>5. c # {}
  <2>1. PICK b \in 0 .. 12 : b \in i
    BY <1>2
  <2>2. b + k \in 0 .. 64 - 1 /\ (b + k) - k = b
    OBVIOUS
  <2> QED
    BY <1>3, <2>1, <2>2
<1>6. 23 \in c => c = {23}
  <2>1. SUFFICES ASSUME 23 \in c PROVE c = {23}
    OBVIOUS
  <2>2. 23 - k \in i
    BY <1>3, <2>1
  <2>3. 23 - k \in 0 .. 12
    BY <1>2, <2>2
  <2>4. k = 11 /\ 23 - k = 12
    BY <2>3
  <2>5. i = {12}
    BY <1>2, <2>2, <2>4
  <2>6. \A b : b \in c <=> b \in 0 .. 64 - 1 /\ b - 11 = 12
    BY <1>3, <2>4, <2>5
  <2> QED
    BY <2>6
<1>7. Value(c) = Weights(c)
  BY <1>4, ValueIsTheWeights
<1>8. /\ Nibble(c, 0) \in 0 .. 15 /\ Nibble(c, 4) \in 0 .. 15 /\ Nibble(c, 8) \in 0 .. 15
      /\ Nibble(c, 12) \in 0 .. 15 /\ Nibble(c, 16) \in 0 .. 15 /\ Nibble(c, 20) \in 0 .. 15
  BY NibbleLaws
<1>9. CASE 23 \in c
  <2>1. c = {23}
    BY <1>6, <1>9
  <2>2. /\ Nibble(c, 0) = 0 /\ Nibble(c, 4) = 0 /\ Nibble(c, 8) = 0
        /\ Nibble(c, 12) = 0 /\ Nibble(c, 16) = 0 /\ Nibble(c, 20) = 8
    BY <2>1 DEF Nibble, Bit
  <2>3. Weights(c) = 8388608
    BY <2>2, SMT DEF Weights
  <2> QED
    BY <1>7, <2>3, SMT DEF BlocksWithAddress
<1>10. CASE 23 \notin c
  <2>1. Nibble(c, 20) \in 0 .. 7
    BY <1>10 DEF Nibble, Bit
  <2>2. Weights(c) \in Nat /\ Weights(c) < BlocksWithAddress
    BY <1>8, <2>1, WeightsWithin
  <2>3. Weights(c) # 0
    <3>1. PICK x : x \in c
      BY <1>5
    <3>2. PICK p : p = 2^x
      OBVIOUS
    <3>3. Weights(c) = p + Weights(c \ {x}) /\ p \in Nat \ {0}
      BY <1>4, <3>1, <3>2, OneBitLess
    <3>4. Weights(c \ {x}) \in Nat
      BY WeightsWithin
    <3>5. \A n \in Nat : p + n # 0
      BY <3>3
    <3> QED
      BY <3>3, <3>4, <3>5
  <2> QED
    BY <1>7, <2>2, <2>3, SMT DEF BlocksWithAddress
<1> QED
  BY <1>9, <1>10

\* A number below 2^23 has 23 bits, and as a block its byte address has 32.
LEMMA AddressOfABlock ==
    ASSUME NEW x \in Nat, x < BlocksWithAddress, NEW n, n = Number(x)
    PROVE  Shr(BlockAddrOf(n, FALSE), 9) = n
<1>1. n \subseteq 0 .. 22
  <2>1. \A b : b \in n <=> b \in 0 .. 30 /\ (x \div 2^b) % 2 = 1
    BY DEF Number
  <2>2. /\ (x \div 2^23) % 2 = 0 /\ (x \div 2^24) % 2 = 0 /\ (x \div 2^25) % 2 = 0
        /\ (x \div 2^26) % 2 = 0 /\ (x \div 2^27) % 2 = 0 /\ (x \div 2^28) % 2 = 0
        /\ (x \div 2^29) % 2 = 0 /\ (x \div 2^30) % 2 = 0
    <3>1. /\ 2^23 = 8388608 /\ 2^24 = 16777216 /\ 2^25 = 33554432 /\ 2^26 = 67108864
          /\ 2^27 = 134217728 /\ 2^28 = 268435456 /\ 2^29 = 536870912 /\ 2^30 = 1073741824
      BY SMT
    <3>2. /\ x \div 8388608 = 0 /\ x \div 16777216 = 0 /\ x \div 33554432 = 0
          /\ x \div 67108864 = 0 /\ x \div 134217728 = 0 /\ x \div 268435456 = 0
          /\ x \div 536870912 = 0 /\ x \div 1073741824 = 0
      BY SMT DEF BlocksWithAddress
    <3> QED
      BY <3>1, <3>2, SMT
  <2>3. \A b \in 23 .. 30 : \/ b = 23 \/ b = 24 \/ b = 25 \/ b = 26
                             \/ b = 27 \/ b = 28 \/ b = 29 \/ b = 30
    OBVIOUS
  <2>4. \A b \in 23 .. 30 : b \notin n
    <3>1. /\ 23 \notin n /\ 24 \notin n /\ 25 \notin n /\ 26 \notin n
          /\ 27 \notin n /\ 28 \notin n /\ 29 \notin n /\ 30 \notin n
      <4>1. /\ (x \div 2^23) % 2 # 1 /\ (x \div 2^24) % 2 # 1 /\ (x \div 2^25) % 2 # 1
            /\ (x \div 2^26) % 2 # 1 /\ (x \div 2^27) % 2 # 1 /\ (x \div 2^28) % 2 # 1
            /\ (x \div 2^29) % 2 # 1 /\ (x \div 2^30) % 2 # 1
        BY <2>2
      <4> QED
        BY <2>1, <4>1, Zenon
    <3> QED
      BY <2>3, <3>1
  <2>5. \A b \in 0 .. 30 : b \notin 23 .. 30 => b \in 0 .. 22
    OBVIOUS
  <2> QED
    BY <2>1, <2>4, <2>5
<1>2. PICK up : up = BlockAddrOf(n, FALSE)
  OBVIOUS
<1>3. \A b : b \in up <=> b \in 0 .. 32 - 1 /\ b - 9 \in n
  <2>1. up = Shl(n, 9, 32) /\ n \in SUBSET Int
    BY <1>1, <1>2 DEF BlockAddrOf
  <2> QED
    BY <2>1, ShlMember
<1>4. \A b : b \in Shr(up, 9) <=> b \in Nat /\ b + 9 \in up
  <2>1. up \in SUBSET Int
    BY <1>3
  <2> QED
    BY <2>1, ShrMember
<1>5. \A b \in Nat : b + 9 \in up <=> b \in n
  <2> TAKE b \in Nat
  <2>1. (b + 9) - 9 = b
    OBVIOUS
  <2>2. b \in n => b + 9 \in 0 .. 32 - 1
    BY <1>1
  <2> QED
    BY <1>3, <2>1, <2>2
<1>6. \A b : b \in n => b \in Nat
  BY <1>1
<1>7. \A b : b \in Shr(up, 9) <=> b \in n
  BY <1>4, <1>5, <1>6
<1>8. Shr(up, 9) = n
  BY <1>7
<1> QED
  BY <1>2, <1>8

\* A register that was asked for and came back undamaged is one of the card's.
LEMMA CsdOfTheCard ==
    ASSUME Invariant, HostTakes, asked.op \in {"csd", "mmcCsd"}, heard = asked,
           "reply" \notin hit
    PROVE  reply.meant \in Csds \cup MmcCsds
<1>1. PICK op, v : op = asked.op /\ v = asked.values
  OBVIOUS
<1>2. Bodies(op, v) \subseteq Csds \cup MmcCsds /\ Operations[op].resp = "R2"
  <2>1. Operations["csd"].resp = "R2" /\ Operations["mmcCsd"].resp = "R2"
    BY ResponsesOfTheTable
  <2>2. Bodies("csd", v) = Csds /\ Bodies("mmcCsd", v) = MmcCsds
    BY <2>1 DEF Bodies
  <2> QED
    BY <1>1, <2>1, <2>2
<1>3. phase = "replied"
  BY HostTells
<1>4. CASE bus.link = "spi"
  <2>1. reply \in Answers(op, v)
    BY <1>1, <1>3, HeardSomething DEF Invariant, ReplyOK, SentBack
  <2>2. PICK r1 \in R1s,
             body \in IF Operations[op].resp \in {"R1", "R1b"} THEN {{}} ELSE Bodies(op, v) :
           reply = Answer(r1, body, OnWire("spi", op, body))
    BY <1>4, <2>1, SpiAnswers
  <2>3. reply.meant = body /\ body \in Bodies(op, v)
    BY <1>2, <2>2 DEF Answer
  <2> QED
    BY <1>2, <2>3
<1>5. CASE bus.link # "spi"
  <2>1. \E body \in Bodies(op, v) : reply.meant = body
    BY <1>1, <1>2, <1>3, <1>5, NativeReply
  <2> QED
    BY <1>2, <2>1
<1> QED
  BY <1>4, <1>5

\* HostTakes: the last block of a byte-addressed card has an address.
LEMMA HostAddresses == Invariant /\ HostTakes => LastBlockHasAnAddress'
<1> SUFFICES ASSUME Invariant, HostTakes, asked.op \in {"csd", "mmcCsd"}, told'.ok,
                    "reply" \notin hit, heard = asked, Field(reply.meant, 127, 126) = {}
             PROVE  \A n \in {Number(Value(told'.view[1]) - 1)} : Shr(BlockAddrOf(n, FALSE), 9) = n
  BY DEF HostTakes, LastBlockHasAnAddress
<1>1. PICK w : w = reply.meant
  OBVIOUS
<1>2. w \in Csds \cup MmcCsds /\ Field(w, 127, 126) = {}
  BY <1>1, CsdOfTheCard
<1>3. Told(asked.op, w)
  <2>1. CASE bus.link = "spi"
    BY <1>1, <2>1, SpiTold
  <2>2. CASE bus.link # "spi"
    BY <1>1, <2>2, NativeTakes
  <2> QED
    BY <2>1, <2>2
<1>4. told' = Ok(CsdTruth(w))
  BY <1>3 DEF Told
<1>5. PICK s, k, c : /\ s = Field(w, 73, 62) /\ c = Shl(Increment(s), k, 64)
                     /\ k = Value(Field(w, 49, 47)) + 2 + Value(Field(w, 83, 80)) - 9
  OBVIOUS
<1>6. CsdTruth(w) = <<c>>
  BY <1>2, <1>5 DEF CsdTruth, CsdV1Truth
<1>7. told'.view[1] = c
  BY <1>4, <1>6 DEF Ok
<1>8. k \in 2 .. 11
  BY <1>2, <1>5, ShiftOfACapacity
<1>9. s \subseteq 0 .. 11
  <2>1. \A b : b \in s <=> b \in 0 .. 73 - 62 /\ b + 62 \in w
    BY <1>5, FieldMember
  <2> QED
    BY <2>1
<1>10. Value(c) \in Nat /\ 1 <= Value(c) /\ Value(c) <= BlocksWithAddress
  BY <1>5, <1>8, <1>9, ValueOfACapacity
<1>11. PICK x : x = Value(c) - 1
  OBVIOUS
<1>12. x \in Nat /\ x < BlocksWithAddress
  BY <1>10, <1>11, SMT DEF BlocksWithAddress
<1>13. \A n : n = Number(x) => Shr(BlockAddrOf(n, FALSE), 9) = n
  BY <1>12, AddressOfABlock
<1> QED
  BY <1>7, <1>11, <1>13

\* The last block that the CSD of a byte-addressed card gives it has a byte address
\* of 32 bits: block_addr_of cannot overflow within the capacity, whatever C_SIZE,
\* C_SIZE_MULT and READ_BL_LEN of 9 .. 11 are.
THEOREM LastBlocksHaveAddresses == Spec => []LastBlockHasAnAddress
<1>1. Init => LastBlockHasAnAddress
  BY DEF Init, LastBlockHasAnAddress
<1>2. Invariant /\ LastBlockHasAnAddress /\ [Next]_vars => LastBlockHasAnAddress'
  <2> SUFFICES ASSUME Invariant, LastBlockHasAnAddress, Next \/ UNCHANGED vars
               PROVE  LastBlockHasAnAddress'
    OBVIOUS
  <2>1. CASE HostTakes
    BY <2>1, HostAddresses
  <2>2. CASE phase' # "told"
    BY <2>2 DEF LastBlockHasAnAddress
  <2>3. CASE UNCHANGED vars
    BY <2>3 DEF LastBlockHasAnAddress, vars
  <2> QED
    BY <2>1, <2>2, <2>3, ToldStands
<1> QED
  BY <1>1, <1>2, InvariantHolds, PTL DEF Spec
=============================================================================
