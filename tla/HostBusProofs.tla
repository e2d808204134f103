--------------------------- MODULE HostBusProofs ---------------------------
(***************************************************************************)
(* Proofs about HostBus, for all base and reference clocks.                *)
(***************************************************************************)
EXTENDS HostBus, TLAPS

-----------------------------------------------------------------------------
(* Arithmetic of the two dividers.                                         *)

\* What integer division is.
LEMMA Division ==
    ASSUME NEW a \in Nat, NEW b \in Nat \ {0}
    PROVE  /\ a \div b \in Nat
           /\ b * (a \div b) <= a /\ a < b * (a \div b) + b
OBVIOUS

\* A quotient is at most c just when the dividend is below (c+1) divisors.
LEMMA QuotientAtMost ==
    ASSUME NEW a \in Nat, NEW b \in Nat \ {0}, NEW c \in Nat
    PROVE  (a \div b <= c) <=> (a < b * (c + 1))
<1> DEFINE q == a \div b
<1>1. q \in Nat /\ b * q <= a /\ a < b * q + b
  BY Division
<1> HIDE DEF q
<1>2. ASSUME q <= c PROVE a < b * (c + 1)
  <2>1. b * q <= b * c
    BY <1>1, <1>2
  <2> QED
    BY <1>1, <2>1
<1>3. ASSUME q >= c + 1 PROVE a >= b * (c + 1)
  <2>1. b * q >= b * (c + 1)
    BY <1>1, <1>3
  <2> QED
    BY <1>1, <2>1
<1> QED
  BY <1>1, <1>2, <1>3 DEF q

\* A quotient rounded up is at most c just when c divisors cover the dividend.
LEMMA RoundedUpAtMost ==
    ASSUME NEW a \in Nat, NEW b \in Nat \ {0}, NEW c \in Nat
    PROVE  /\ CeilDiv(a, b) \in Nat
           /\ (CeilDiv(a, b) <= c) <=> (a <= b * c)
<1>1. a + b - 1 \in Nat /\ b * (c + 1) = b * c + b
  OBVIOUS
<1>2. (a + b - 1) \div b <= c <=> a + b - 1 < b * (c + 1)
  BY <1>1, QuotientAtMost
<1>3. (a + b - 1) \div b \in Nat
  BY <1>1, Division
<1> QED
  BY <1>1, <1>2, <1>3 DEF CeilDiv

\* n divides the base clock down to the target.
Fits(base, target, n) == base \div (2 * n) <= target

\* The divider that SDHCI chooses by search exists, fits the target and is not
\* smaller than it need be: no slower than half the target.
LEMMA SdhciDivider ==
    ASSUME NEW base \in {m * Sdhci!MHz : m \in 0 .. 255}, base > 0,
           NEW target \in {t * 100000 : t \in 4 .. 2000}
    PROVE  LET d == Sdhci!Divider(base, target)
           IN  /\ d \in 0 .. 1023
               /\ Divided(base, d) <= target
               /\ 2 * Divided(base, d) > target \/ d = 0
<1> DEFINE d == Sdhci!Divider(base, target)
<1>1. base \in Nat /\ target \in Nat /\ target > 0
  <2>1. PICK m \in 0 .. 255 : base = m * Sdhci!MHz
    BY SMT
  <2>2. PICK t \in 4 .. 2000 : target = t * 100000
    BY SMT
  <2>3. base \in Nat
    BY SMT, <2>1 DEF Sdhci!MHz
  <2>4. target \in Nat /\ target > 0
    BY SMT, <2>2
  <2> QED
    BY SMT, <2>3, <2>4
<1>2. ASSUME NEW n \in 1 .. 1023
      PROVE  Fits(base, target, n) <=> base < 2 * n * (target + 1)
  <2>1. 2 * n \in Nat \ {0}
    BY SMT
  <2> QED
    BY SMTT(30), <1>1, <2>1, QuotientAtMost DEF Fits
<1>3. CASE base <= target
  <2>1. d = 0
    BY SMT, <1>1, <1>3 DEF Sdhci!Divider
  <2> QED
    BY SMT, <2>1, <1>1, <1>3 DEF Divided
<1>4. CASE base > target
  <2> DEFINE b == 2 * (target + 1)
             w == base \div b + 1
  <2>1. /\ b \in Nat \ {0} /\ w \in Nat \ {0}
        /\ b * (w - 1) <= base /\ base < b * w
    <3>1. b \in Nat \ {0}
      BY SMT, <1>1
    <3> HIDE DEF b
    <3> DEFINE q == base \div b
    <3>2. q \in Nat /\ b * q <= base /\ base < b * q + b
      BY SMT, <1>1, <3>1, Division
    <3>3. w = q + 1
      BY SMT
    <3> HIDE DEF q, w
    <3>4. w - 1 = q /\ b * w = b * q + b
      BY SMT, <3>1, <3>2, <3>3
    <3> QED
      BY SMT, <3>1, <3>2, <3>3, <3>4
  <2>b. b = 2 * (target + 1)
    BY SMT
  <2> HIDE DEF w, b
  <2>2. w \in 1 .. 1023
    <3>1. base <= 255000000 /\ b >= 800002
      BY SMT, <2>b DEF Sdhci!MHz
    <3>2. ASSUME w > 1023 PROVE FALSE
      <4>1. b * 1023 <= b * (w - 1)
        BY SMT, <3>2, <2>1
      <4>2. 800002 * 1023 <= b * 1023
        BY SMT, <3>1, <2>1
      <4> QED
        BY SMT, <4>1, <4>2, <3>1, <2>1, <1>1
    <3> QED
      <4>1. w \in Nat \ {0}
        BY SMT, <2>1
      <4> QED
        BY SMT, <3>2, <4>1
  <2>3. ASSUME NEW n \in 1 .. 1023 PROVE Fits(base, target, n) <=> base < b * n
    <3>1. 2 * n * (target + 1) = b * n
      BY SMT, <2>b, <1>1
    <3>2. Fits(base, target, n) <=> base < 2 * n * (target + 1)
      BY <1>2
    <3> QED
      BY <3>1, <3>2
  <2>4. ASSUME NEW m \in 1 .. 1023, base < b * m PROVE w <= m
    <3>1. ASSUME m <= w - 1 PROVE FALSE
      <4>1. b * m <= b * (w - 1)
        BY SMT, <3>1, <2>1, <2>2
      <4>2. b * m \in Nat /\ b * (w - 1) \in Nat
        BY SMT, <2>1, <2>2
      <4> QED
        BY SMT, <4>1, <4>2, <2>4, <1>1, <2>1
    <3> QED
      BY SMT, <3>1, <2>2
  <2>5. d = w
    <3>1. Fits(base, target, w)
      <4>1. base < b * w
        BY SMT, <2>1
      <4> QED
        BY SMTT(30), <4>1, <2>2, <2>3
    <3> DEFINE range == 1 .. 1023
    <3>2. \A m \in range : Fits(base, target, m) => w <= m
      BY SMT, <2>3, <2>4
    <3> HIDE DEF d
    <3> DEFINE fits == {n \in range : Fits(base, target, n)}
               least == CHOOSE n \in fits : \A m \in fits : n <= m
    <3>3. Sdhci!Divider(base, target) = IF base > target /\ fits # {} THEN least ELSE 0
      BY DEF Sdhci!Divider, Fits
    <3>4. (\A m \in range : m \in Nat) /\ w \in range
      BY SMT, <2>2
    <3> HIDE DEF range
    <3>6. w \in fits /\ (\A m \in fits : w <= m)
      BY SMT, <3>1, <3>2, <3>4
    <3>7. \A m \in fits : m \in Nat
      BY SMT, <3>4
    <3> HIDE DEF fits
    <3>8. least \in fits /\ \A m \in fits : least <= m
      BY SMT, <3>6
    <3> HIDE DEF least
    <3>9. least = w
      BY SMT, <3>6, <3>7, <3>8
    <3> QED
      BY SMT, <1>4, <3>3, <3>6, <3>9 DEF d
  <2> HIDE DEF d
  <2>7. d = w /\ d \in 1 .. 1023
    BY SMT, <2>2, <2>5
  <2> QED
    <3>1. Divided(base, d) = CeilDiv(base, 2 * d) /\ 2 * d \in Nat \ {0}
      BY SMT, <2>7 DEF Divided
    <3>2. CeilDiv(base, 2 * d) <= target
      <4>1. base <= 2 * d * target
        <5>1. PICK m \in 0 .. 255 : base = m * 1000000
          BY SMT DEF Sdhci!MHz
        <5>2. PICK t \in 4 .. 2000 : target = t * 100000
          BY SMT
        <5>3. d * t \in Nat /\ d * target = 100000 * (d * t)
          BY SMT, <5>2, <2>7
        <5>4. base < 2 * (d * target) + 2 * d
          <6>1. b * d = 2 * (d * target) + 2 * d
            BY SMT, <2>b, <2>7, <1>1
          <6> QED
            BY SMT, <6>1, <2>1, <2>7
        <5> HIDE DEF w
        <5>5. m * 1000000 < 200000 * (d * t) + 2047
          BY SMT, <5>1, <5>3, <5>4, <2>7
        <5>6. m * 1000000 <= 200000 * (d * t)
          BY SMT, <5>3, <5>5
        <5>7. 2 * d * target = 2 * (d * target)
          BY SMT, <2>7, <1>1
        <5> QED
          BY SMT, <5>1, <5>3, <5>6, <5>7
      <4> QED
        BY SMT, <4>1, <3>1, <1>1, RoundedUpAtMost
    <3>3. 2 * CeilDiv(base, 2 * d) > target
      <4> DEFINE r == CeilDiv(base, 2 * d)
      <4>1. r \in Nat /\ base <= 2 * d * r
        <5>1. r \in Nat
          BY SMT, <3>1, <1>1, RoundedUpAtMost
        <5> QED
          BY SMTT(30), <5>1, <3>1, <1>1, RoundedUpAtMost
      <4> HIDE DEF r
      <4>2. 2 * (target + 1) * (d - 1) <= base
        BY SMT, <2>1, <2>7, <2>b
      <4>3. ASSUME 2 * r <= target, d >= 2 PROVE FALSE
        <5>1. d * (2 * r) <= d * target
          BY SMT, <4>1, <4>3, <2>7, <1>1
        <5>2. 2 * (target + 1) * (d - 1) <= d * target
          BY SMT, <5>1, <4>1, <4>2, <2>7, <1>1
        <5>3. 2 * (target + 1) * (d - 1) = d * target + (d - 2) * target + 2 * d - 2
          BY SMT, <2>7, <1>1
        <5>4. (d - 2) * target \in Nat /\ d * target \in Nat
          BY SMT, <4>3, <2>7, <1>1
        <5> QED
          BY SMT, <5>2, <5>3, <5>4, <4>3, <2>7
      <4>4. ASSUME 2 * r <= target, d = 1 PROVE FALSE
        BY SMT, <4>1, <4>4, <1>1, <1>4
      <4> QED
        BY SMT, <4>1, <4>3, <4>4, <2>7, <1>1 DEF r
    <3>4. d \in 0 .. 1023 /\ Divided(base, d) <= target /\ 2 * Divided(base, d) > target
      BY SMT, <3>1, <3>2, <3>3, <2>7
    <3> QED
      BY SMT, <3>4 DEF d
<1> QED
  BY SMT, <1>1, <1>3, <1>4

\* The divider of the DesignWare driver fits the target as long as eight bits
\* suffice, and is no slower than half of it in any case.
LEMMA DwMmcDivider ==
    ASSUME NEW ref \in Nat \ {0}, NEW target \in Nat \ {0}
    PROVE  LET d == DwMmc!Divider(ref, target)
           IN  /\ d \in DwMmc!Divisors
               /\ ref <= 510 * target => Divided(ref, d) <= target
               /\ 2 * Divided(ref, d) > target \/ d = 0
<1> DEFINE d == DwMmc!Divider(ref, target)
           raw == CeilDiv(ref, 2 * target)
<1>1. CASE target >= ref
  <2>1. d = 0
    BY <1>1 DEF DwMmc!Divider
  <2> QED
    BY <2>1, <1>1 DEF Divided, DwMmc!Divisors
<1>2. CASE target < ref
  <2>1. 2 * target \in Nat \ {0}
    OBVIOUS
  <2>2. raw \in Nat /\ \A c \in Nat : raw <= c <=> ref <= 2 * target * c
    BY <2>1, RoundedUpAtMost
  <2>3. d = IF raw > 255 THEN 255 ELSE raw
    BY <1>2 DEF DwMmc!Divider, DwMmc!CeilDiv, CeilDiv
  <2> HIDE DEF raw, d
  <2>4. d \in 1 .. 255 /\ d <= raw
    <3>1. raw # 0
      BY <2>2
    <3> QED
      BY <3>1, <2>2, <2>3
  <2>5. 2 * d \in Nat \ {0} /\ Divided(ref, d) = CeilDiv(ref, 2 * d)
    BY <2>4 DEF Divided
  <2>6. ref > 2 * target * (d - 1)
    <3>1. d - 1 \in Nat /\ ~(raw <= d - 1)
      BY <2>2, <2>4
    <3>2. ~(ref <= 2 * target * (d - 1)) /\ 2 * target * (d - 1) \in Nat
      BY <2>2, <3>1
    <3> QED
      BY <3>2
  <2>7. ASSUME ref <= 510 * target PROVE Divided(ref, d) <= target
    <3>1. raw <= 255
      BY <2>2, <2>7
    <3>2. d = raw
      BY <2>2, <2>3, <3>1
    <3>3. ref <= 2 * target * d
      BY <2>2, <3>2
    <3>4. 2 * target * d = 2 * d * target
      BY <2>4
    <3> QED
      BY <3>3, <3>4, <2>5, RoundedUpAtMost
  <2>8. 2 * Divided(ref, d) > target
    <3> DEFINE r == CeilDiv(ref, 2 * d)
    <3>1. r \in Nat
      BY <2>5, RoundedUpAtMost
    <3>2. ref <= 2 * d * r
      <4>1. r <= r
        BY <3>1
      <4>2. ref <= (2 * d) * r
        BY <4>1, <2>5, <3>1, RoundedUpAtMost
      <4> QED
        BY <4>2
    <3> HIDE DEF r
    <3>3. ASSUME 2 * r <= target PROVE FALSE
      <4>1. d * (2 * r) <= d * target
        BY <3>1, <3>3, <2>4
      <4>2. ref <= d * target
        BY <4>1, <3>1, <3>2, <2>4
      <4>3. CASE d = 1
        BY <4>2, <4>3, <1>2
      <4>4. CASE d >= 2
        <5>1. 2 * target * (d - 1) = d * target + (d - 2) * target
          BY <2>4
        <5>2. (d - 2) * target \in Nat /\ d * target \in Nat
          BY <4>4, <2>4
        <5> QED
          BY <5>1, <5>2, <4>2, <2>6
      <4> QED
        BY <4>3, <4>4, <2>4
    <3> QED
      BY <3>1, <3>3, <2>5 DEF r
  <2> QED
    BY <2>4, <2>7, <2>8 DEF d, DwMmc!Divisors
<1> QED
  BY <1>1, <1>2

-----------------------------------------------------------------------------
(* The order of the calls.                                                 *)

Pcs == Names \cup {"Down", "Dead", "Ready", "Done", "Failed"}

\* The calls made for an access mode.
Trying == {"Cmd11", "SdVoltage", "SwitchMode", "ModeClock", "ModeStatus", "Tune19"}

\* The calls on the way from a command that was answered to a voltage change.
Lit == {"SetBit8Mmc", "Width8", "SetBit4Mmc", "Width4", "Hs200Voltage", "SdVoltage"}

Moves == {move \in [pc : Pcs, mode : DOMAIN Rank] :
             move.pc \in Trying => move.mode # "None"}

\* What is known of the call that is made under a name.
Fitting(c, name) ==
    /\ c \in Calls /\ c.op # "none"
    /\ c.op = "bring_up" <=> name = "BringUp"
    /\ c.op = "voltage" => name \in Lit /\ c.arg = "V180"
    /\ name \in {"ReadExtCsd", "Cmd11"} => c.op = "command"
    /\ name \in Lit => c.op \in {"width", "command", "voltage"}

\* The names are those of commands to an SD card, to an MMC, and host calls.
LEMMA NameKinds ==
    ASSUME NEW name \in Names
    PROVE  /\ name \in SdCommands => Doing(name) = SdCommand(name)
           /\ name \in MmcCommands => Doing(name) = MmcCommand(name)
           /\ name \notin SdCommands \cup MmcCommands => Doing(name) = HostStep(name)
BY DEF Doing, SdCommands, MmcCommands

\* Every call of the table fits the name it is made under, now and next.
LEMMA CallsFit ==
    ASSUME NEW name \in Names, mode \in DOMAIN Rank, name \in Trying => mode # "None"
    PROVE  Fitting(Doing(name).call, name)
<1>1. DOMAIN Rank \ {"None"} \subseteq Speeds
  BY DEF Rank, Speeds, Hz
<1>2. CASE name \in SdCommands
  <2>1. Doing(name).call = [op |-> "command", arg |-> "none"]
    BY <1>2, NameKinds DEF SdCommands, SdCommand, Command, Does
  <2> QED
    BY <1>2, <2>1 DEF Fitting, Calls, Lit, SdCommands
<1>3. CASE name \in MmcCommands
  <2>1. Doing(name).call = [op |-> "command", arg |-> "none"]
    BY <1>3, NameKinds DEF MmcCommands, MmcCommand, Command, Does
  <2> QED
    BY <1>3, <2>1 DEF Fitting, Calls, Lit, MmcCommands
<1>4. CASE name \notin SdCommands \cup MmcCommands
  BY <1>1, <1>4, NameKinds
     DEF Names, SdCommands, MmcCommands, HostStep, Does, Fitting, Calls, Lit, Trying,
         Speeds, Hz
<1> QED
  BY <1>2, <1>3, <1>4

\* Where the answer of a call leads.
Leads(move, name, reply) ==
    /\ move \in Moves /\ move.pc \notin {"Down", "BringUp"}
    /\ move.pc \in Lit => name \in Lit \/ (reply = "ok" /\ name \in {"ReadExtCsd", "Cmd11"})
    /\ name = "BringUp" /\ reply = "err" => move.pc = "Dead"
    /\ move.pc = "Dead" => name = "BringUp"

\* The moves to a place without an access mode, within one, and to the next.
LEMMA MoveKinds ==
    ASSUME mode \in DOMAIN Rank
    PROVE  /\ \A ps \in SUBSET (Pcs \ Trying) :
                 To(ps) \subseteq Moves /\ \A move \in To(ps) : move.pc \in ps
           /\ \A p \in Pcs : (p \in Trying => mode # "None") =>
                 In(p) \subseteq Moves /\ \A move \in In(p) : move.pc = p
           /\ \A rank \in Nat :
                 /\ TryBelow(rank) \subseteq Moves
                 /\ \A move \in TryBelow(rank) : move.pc \in {"Cmd11", "SwitchMode", "Done"}
           /\ Rank[mode] \in Nat
<1>1. "None" \in DOMAIN Rank /\ \A m \in DOMAIN Rank : Rank[m] \in Nat
  BY DEF Rank
<1>2. \A ps \in SUBSET (Pcs \ Trying) :
         To(ps) \subseteq Moves /\ \A move \in To(ps) : move.pc \in ps
  BY <1>1 DEF To, Moves
<1>3. \A p \in Pcs : (p \in Trying => mode # "None") =>
         In(p) \subseteq Moves /\ \A move \in In(p) : move.pc = p
  BY DEF In, Moves
<1>4. ASSUME NEW rank \in Nat, NEW move \in TryBelow(rank)
      PROVE  move \in Moves /\ move.pc \in {"Cmd11", "SwitchMode", "Done"}
  <2>1. CASE move \in To({"Done"})
    BY <1>2, <2>1 DEF Pcs, Trying
  <2>2. CASE move \notin To({"Done"})
    <3>1. PICK m \in DOMAIN Rank : /\ Rank[m] > rank
             /\ move = [pc |-> IF m = "HighSpeed" THEN "SwitchMode" ELSE "Cmd11", mode |-> m]
      BY <2>2 DEF TryBelow
    <3>2. m # "None"
      BY <3>1 DEF Rank
    <3> QED
      BY <3>1, <3>2 DEF Moves, Pcs, Names
  <2> QED
    BY <2>1, <2>2
<1> QED
  BY <1>1, <1>2, <1>3, <1>4

\* Every answer leads where init can go on.
LEMMA AnswersLead ==
    ASSUME NEW name \in Names, mode \in DOMAIN Rank, name \in Trying => mode # "None"
    PROVE  /\ \A move \in Doing(name).ok : Leads(move, name, "ok")
           /\ \A move \in Doing(name).err : Leads(move, name, "err")
<1>1. CASE name \in SdCommands
  BY <1>1, MoveKinds, NameKinds
     DEF Leads, SdCommands, SdCommand, Command, Does, TryNext, Pcs, Names, Trying, Lit
<1>2. /\ Ladder \subseteq Moves
      /\ \A move \in Ladder : move.pc \in {"HsTiming", "Done", "Hs200Voltage"}
      /\ Slower \subseteq Moves /\ \A move \in Slower : move.pc \in {"HsTiming", "Done"}
  <2>1. {"HsTiming", "Done"} \in SUBSET (Pcs \ Trying) /\ {"Hs200Voltage"} \in SUBSET (Pcs \ Trying)
    BY DEF Pcs, Names, Trying
  <2> QED
    BY <2>1, MoveKinds DEF Ladder, Slower
<1>3. \A p \in Pcs \ Trying : \A move \in To({p}) : move \in Moves /\ move.pc = p
  BY MoveKinds
<1>4. CASE name \in MmcCommands
  <2>1. {"Done", "Rollback"} \in SUBSET (Pcs \ Trying)
    BY DEF Pcs, Names, Trying
  <2>2. \A move \in To({"Done", "Rollback"}) :
           move \in Moves /\ move.pc \in {"Done", "Rollback"}
    BY <2>1, MoveKinds
  <2>3. {"SetBit8Mmc", "Failed", "Hs200Voltage", "SetBit4Mmc", "Hs200Clock", "Done", "HsClock"}
           \subseteq Pcs \ Trying
    BY DEF Pcs, Names, Trying
  <2>4. CASE name \in {"Width8", "Width4"}
    <3>1. /\ Doing(name).ok = Ladder \cup To({"Hs200Voltage"})
          /\ Doing(name).err = To({"SetBit4Mmc"}) \/ Doing(name).err = Ladder
      BY <1>4, <2>4, NameKinds DEF MmcCommand, Command, Does
    <3>2. \A move \in Doing(name).ok :
             move \in Moves /\ move.pc \in {"HsTiming", "Done", "Hs200Voltage"}
      BY <1>2, <1>3, <2>3, <3>1
    <3>3. \A move \in Doing(name).err :
             move \in Moves /\ move.pc \in {"SetBit4Mmc", "HsTiming", "Done", "Hs200Voltage"}
      BY <1>2, <1>3, <2>3, <3>1
    <3>4. name \in Lit /\ name # "BringUp"
      BY <2>4 DEF Lit
    <3> QED
      BY <3>2, <3>3, <3>4 DEF Leads
  <2>5. CASE name \notin {"Width8", "Width4"}
    <3>1. /\ \/ name = "ReadExtCsd" /\ Doing(name).ok = To({"SetBit8Mmc"})
             \/ Doing(name).ok \in {To({"Hs200Clock"}), To({"Done", "Rollback"}), To({"HsClock"})}
          /\ Doing(name).err \in {To({"Failed"}), Slower, To({"Done"})}
      BY <1>4, <2>5, NameKinds DEF MmcCommands, MmcCommand, Command, Does
    <3> QED
      BY <1>2, <1>3, <1>4, <2>2, <2>3, <3>1 DEF Leads, Lit, MmcCommands
  <2> QED
    BY <2>4, <2>5
<1>5. CASE name \notin SdCommands \cup MmcCommands
  <2>1. {"Ready", "Dead", "SetIdClock", "Failed", "Identify", "Done", "Width8", "SetBit4Mmc",
         "Width4", "Hs200Timing", "Tune21", "Rollback", "Hs200Verify"} \subseteq Pcs \ Trying
    BY DEF Pcs, Names, Trying
  <2>2. {"SetDefault", "SpeedQuery"} \in SUBSET (Pcs \ Trying)
    BY DEF Pcs, Names, Trying
  <2>3. CASE name \in Trying
    BY <1>2, <1>5, <2>1, <2>3, MoveKinds, NameKinds
       DEF Leads, Trying, SdCommands, HostStep, Does, TryNext, Lit, Pcs, Names
  <2>4. CASE name \in Lit \ Trying
    <3>1. name \in {"SetBit8Mmc", "SetBit4Mmc", "Hs200Voltage"}
      BY <1>5, <2>4 DEF Lit, Trying, MmcCommands
    <3>2. /\ \E p \in {"Width8", "Width4", "Hs200Timing"} : Doing(name).ok = To({p})
          /\ \/ \E p \in {"SetBit4Mmc", "Hs200Timing"} : Doing(name).err = To({p})
             \/ Doing(name).err = Ladder
      BY <1>5, <3>1, NameKinds DEF HostStep, Does
    <3>3. \A move \in Doing(name).ok :
             move \in Moves /\ move.pc \in {"Width8", "Width4", "Hs200Timing"}
      BY <1>3, <2>1, <3>2
    <3>4. \A move \in Doing(name).err :
             /\ move \in Moves
             /\ move.pc \in {"SetBit4Mmc", "HsTiming", "Done", "Hs200Voltage", "Hs200Timing"}
      BY <1>2, <1>3, <2>1, <3>2
    <3>5. name \in Lit /\ name # "BringUp"
      BY <2>4, <3>1
    <3> QED
      BY <3>3, <3>4, <3>5 DEF Leads
  <2>5. CASE name \notin Lit \cup Trying
    BY SMTT(30), <1>2, <1>3, <1>5, <2>1, <2>2, <2>5, MoveKinds, NameKinds
       DEF Leads, Names, Trying, Lit, SdCommands, MmcCommands, HostStep, Does
  <2> QED
    BY <2>3, <2>4, <2>5
<1> QED
  BY <1>1, <1>4, <1>5

-----------------------------------------------------------------------------
(* The inductive invariant.                                                *)

\* The speed that the call in progress asks for.
Target == IF call.op = "bring_up" THEN "Identification" ELSE call.arg

\* The clock runs, and no update of it is still to come.
Running == Clocked /\ (backend = "DwMmc" => ~dw.updating)

\* The call is one that fits the program counter.
CallInv ==
    /\ pc \in Names => Fitting(call, pc)
    /\ pc \notin Names => call = NoCall /\ answer = "none"
    /\ pc \in Trying => mode # "None"
    /\ pc \in {"Down", "Dead", "BringUp"}
          => granted = "Identification" /\ requested = {"Identification"} /\ ~refused
    /\ call.op = "clock" /\ answer = "err" => refused
    /\ step # "Idle" => call.op # "none" /\ answer = "none"

\* A command is answered and a clock granted only with the clock running, and
\* it runs until the next voltage change is asked for.
PathInv ==
    /\ pc \in Lit => Running
    /\ answer = "ok" /\ call.op \in {"command", "clock", "bring_up"} => Running

\* The timing bit of the speed a call asks for.
Timing == call.arg \notin {"Identification", "Default"}

\* A clock that is fast enough for a speed: all of the reference, or more than
\* half of the speed.
Enough(ref, div, speed) == 2 * Divided(ref, div) > Hz[speed] \/ div = 0

\* What the steps of an SDHCI call leave to the next: a clock that is stopped
\* until it has the right divider.
SdhciInv ==
    /\ step \in {"Idle", "Callback", "Stabilise", "Tune"}
    /\ step = "Callback" => call.op = "clock" /\ sd.external /\ sd.highSpeed = Timing
    /\ step = "Stabilise"
         => /\ call.op \in {"clock", "bring_up"} /\ sd.clk.internal
            /\ sd.highSpeed = (call.op = "clock" /\ Timing)
            /\ Divided(sd.ref, sd.clk.div) <= Hz[Target]
            /\ Enough(sd.ref, sd.clk.div, Target)
    /\ step \in {"Callback", "Stabilise"} => ~sd.clk.enable
    /\ step = "Tune" => call.op = "tuning"
    /\ ~sd.external => sd.ref = sd.base
    /\ sd.clk.internal /\ sd.clk.enable => Divided(sd.ref, sd.clk.div) <= Hz[granted]

\* The reference can be divided down to 400 kHz.
Divisible == dw.ref <= 510 * Hz["Identification"]

\* What the steps of program_clock leave to the next; and that an update which
\* is late cannot change the divider of a running clock.
DwMmcInv ==
    /\ step \in {"Idle", "Gate", "Divide", "Ungate"}
    /\ step # "Idle" => /\ call.op \in {"clock", "bring_up"} /\ Target \in requested
                        /\ dw.ddr = (call.op = "clock" /\ call.arg = "Ddr50")
    /\ dw.ena => dw.unit.div = dw.div
    /\ step \in {"Gate", "Divide"} => ~dw.ena
    /\ step = "Ungate" => dw.ena
    /\ step = "Gate" /\ ~dw.updating => ~dw.unit.ena
    /\ step = "Divide" => ~dw.unit.ena
    /\ step = "Divide" /\ ~dw.updating => dw.unit.div = dw.div
    /\ step = "Ungate" /\ ~dw.updating => dw.unit.ena
    /\ step \in {"Divide", "Ungate"} => dw.div = DwMmc!Divider(dw.ref, Hz[Target])
    /\ Divisible /\ (dw.ena \/ dw.unit.ena)
         => \E s \in requested : Divided(dw.ref, dw.unit.div) <= Hz[s]

\* The bus is what the last set_clock made it.
IsSet ==
    /\ Running
    /\ IF backend = "Sdhci"
       THEN /\ Enough(sd.ref, sd.clk.div, granted)
            /\ sd.highSpeed = (granted \notin {"Identification", "Default"})
       ELSE /\ Enough(dw.ref, dw.unit.div, granted)
            /\ dw.ddr = (granted = "Ddr50")

SetInv ==
    pc \notin {"Down", "Dead"} /\ ~refused
    /\ (call.op \notin {"clock", "bring_up"} \/ answer = "ok") => IsSet

ControlInv ==
    /\ TypeOK /\ CallInv /\ PathInv
    /\ backend = "Sdhci" => SdhciInv
    /\ backend = "DwMmc" => DwMmcInv
    /\ SetInv

\* What TypeOK and CallInv say of the call in progress.
LEMMA CallKnown ==
    ASSUME TypeOK, CallInv
    PROVE  /\ call.op # "none" => pc \in Names /\ Fitting(call, pc)
           /\ pc \in Names => call.op # "none"
           /\ call.op = "clock" => call.arg \in Speeds
           /\ Target \in Speeds \/ call.op \notin {"clock", "bring_up"}
<1>1. pc \in Names => Fitting(call, pc)
  BY DEF CallInv
<1>2. pc \notin Names => call.op = "none"
  BY DEF CallInv, NoCall
<1>3. call.op = "clock" => call.arg \in Speeds
  BY DEF TypeOK, ChannelTypeOK, Calls
<1>4. "Identification" \in Speeds
  BY DEF Speeds, Hz
<1> QED
  BY <1>1, <1>2, <1>3, <1>4 DEF Fitting, Target

\* The same of the call that will be made.
LEMMA NextCallFits ==
    ASSUME NEW name \in Names
    PROVE  (mode \in DOMAIN Rank /\ (name \in Trying => mode # "None")
            => Fitting(Doing(name).call, name))'
<1>1. mode \in DOMAIN Rank /\ (name \in Trying => mode # "None")
        => Fitting(Doing(name).call, name)
  BY CallsFit
<1> QED
  BY <1>1, PTL

\* Putting a call under a name keeps the call and its name together.
LEMMA PutFits ==
    ASSUME NEW p \in Pcs, NEW m \in DOMAIN Rank, p \in Trying => m # "None", Put(p, m)
    PROVE  /\ pc' = p /\ mode' = m /\ answer' = "none" /\ call' \in Calls
           /\ (pc \in Names => Fitting(call, pc))'
           /\ (pc \notin Names => call = NoCall)'
<1>1. pc' = p /\ mode' = m /\ answer' = "none"
  BY DEF Put
<1>2. CASE p \in Names
  <2>1. call' = Doing(p)'.call
    BY <1>2 DEF Put
  <2>2. Fitting(Doing(p)'.call, p)
    BY <1>1, <1>2, NextCallFits
  <2> QED
    BY <1>1, <1>2, <2>1, <2>2 DEF Fitting
<1>3. CASE p \notin Names
  BY <1>1, <1>3 DEF Put, NoCall, Calls
<1> QED
  BY <1>1, <1>2, <1>3

\* The first state.
LEMMA InitControl == Init => ControlInv
<1> SUFFICES ASSUME Init PROVE ControlInv
  OBVIOUS
<1>1. sd \in Sdhci!Registers /\ sd.ref = sd.base /\ ~sd.clk.enable
  <2>1. PICK b \in Sdhci!Bases, e \in BOOLEAN : sd = Sdhci!Reset(b, e, b)
    BY DEF Init, Sdhci!Init
  <2>2. b \in Nat
    BY SMT, BaseAssumption DEF Sdhci!Bases, Sdhci!MHz
  <2>3. 0 \in Sdhci!Divisors
    BY DEF Sdhci!Divisors
  <2> QED
    BY <2>1, <2>2, <2>3 DEF Sdhci!Reset, Sdhci!Registers, Sdhci!ClockControl
<1>2. dw \in DwMmc!Registers /\ ~dw.ena /\ ~dw.unit.ena
  <2>1. PICK r \in RefHz :
           dw = [ref |-> r, ena |-> FALSE, div |-> 0, updating |-> FALSE,
                 unit |-> DwMmc!Off, ddr |-> FALSE, volt |-> FALSE, width |-> "Bit1"]
    BY DEF Init, DwMmc!Init
  <2>2. 0 \in DwMmc!Divisors
    BY DEF DwMmc!Divisors
  <2> QED
    BY <2>1, <2>2 DEF DwMmc!Registers, DwMmc!Off
<1>3. /\ pc = "Down" /\ mode = "None" /\ wide = FALSE /\ backend \in Backends
      /\ granted = "Identification" /\ requested = {"Identification"} /\ refused = FALSE
      /\ call = NoCall /\ answer = "none" /\ step = "Idle"
  BY DEF Init
<1>4. TypeOK
  <2>1. mode \in DOMAIN Rank
    BY <1>3 DEF Rank
  <2>2. "Identification" \in Speeds
    BY DEF Speeds, Hz
  <2>3. ChannelTypeOK
    BY <1>3 DEF ChannelTypeOK, NoCall, Calls, Steps
  <2> QED
    BY <1>1, <1>2, <1>3, <2>1, <2>2, <2>3 DEF TypeOK
<1>5. CallInv
  BY <1>3 DEF CallInv, NoCall, Names, Trying
<1>6. PathInv
  BY <1>3 DEF PathInv, Lit
<1>7. SdhciInv
  BY <1>1, <1>3 DEF SdhciInv
<1>8. DwMmcInv
  BY <1>2, <1>3 DEF DwMmcInv
<1>9. SetInv
  BY <1>3 DEF SetInv
<1> QED
  BY <1>4, <1>5, <1>6, <1>7, <1>8, <1>9 DEF ControlInv

-----------------------------------------------------------------------------
(* The steps of init: it puts its next call.                               *)

\* Putting a call keeps the invariant, wherever init is and goes.
LEMMA PutControl ==
    ASSUME ControlInv, answer # "none" \/ call.op = "none",
           NEW p \in Pcs, NEW m \in DOMAIN Rank, p \in Trying => m # "None", Put(p, m),
           p \in {"Down", "Dead", "BringUp"} => pc \in {"Down", "Dead", "BringUp"},
           p \in Lit => Running,
           p \notin {"Down", "Dead", "BringUp"} /\ ~refused => IsSet,
           wide' \in BOOLEAN,
           UNCHANGED <<sd, dw, backend, granted, requested, refused, step>>
    PROVE  ControlInv'
<1>1. /\ pc' = p /\ mode' = m /\ answer' = "none" /\ call' \in Calls
      /\ (pc \in Names => Fitting(call, pc))'
      /\ (pc \notin Names => call = NoCall)'
  BY PutFits
<1>2. step = "Idle"
  BY DEF ControlInv, CallInv
<1>3. TypeOK'
  BY <1>1 DEF ControlInv, TypeOK, ChannelTypeOK, Pcs, Sdhci!Registers, DwMmc!Registers
<1>4. CallInv'
  BY <1>1, <1>2 DEF ControlInv, CallInv
<1>5. Running' <=> Running
  BY DEF Running, Clocked, Sdhci!Clocked, DwMmc!Clocked
<1>6. PathInv'
  BY <1>1, <1>5 DEF PathInv
<1>7. backend = "Sdhci" => SdhciInv'
  BY <1>2 DEF ControlInv, SdhciInv
<1>8. backend = "DwMmc" => DwMmcInv'
  BY <1>2 DEF ControlInv, DwMmcInv, Divisible
<1>9. SetInv'
  <2>1. IsSet' <=> IsSet
    BY <1>5 DEF IsSet
  <2>2. pc' = "BringUp" => call'.op = "bring_up"
    BY <1>1 DEF Names, Fitting
  <2> QED
    BY <1>1, <2>1, <2>2 DEF SetInv
<1> QED
  BY <1>3, <1>4, <1>6, <1>7, <1>8, <1>9 DEF ControlInv

\* The three steps that put a call.
LEMMA CallerControl ==
    ASSUME ControlInv, PowerUp \/ CallInit \/ TakeAnswer
    PROVE  ControlInv'
<1> USE DEF ControlInv
<1>1. "None" \in DOMAIN Rank /\ mode \in DOMAIN Rank /\ wide \in BOOLEAN
  BY DEF TypeOK, Rank
<1>2. CASE PowerUp
  <2>1. call.op = "none"
    BY <1>2 DEF PowerUp, CallInv, NoCall, Names
  <2> QED
    BY <1>1, <1>2, <2>1, PutControl DEF PowerUp, Pcs, Names, Trying, Lit
<1>3. CASE CallInit
  <2>1. call.op = "none"
    BY <1>3 DEF CallInit, CallInv, NoCall, Names
  <2>2. ~refused => IsSet
    BY <1>3, <2>1 DEF CallInit, SetInv
  <2> QED
    BY <1>1, <1>3, <2>1, <2>2, PutControl DEF CallInit, Pcs, Names, Trying, Lit
<1>4. CASE TakeAnswer
  <2>1. pc \in Names /\ answer \in {"ok", "err"} /\ wide' \in BOOLEAN
    BY <1>1, <1>4 DEF TakeAnswer, TypeOK, ChannelTypeOK
  <2>2. PICK move \in IF answer = "ok" THEN Doing(pc).ok ELSE Doing(pc).err :
           Put(move.pc, move.mode)
    BY <1>4 DEF TakeAnswer
  <2>3. Leads(move, pc, answer)
    BY <1>1, <2>1, <2>2, AnswersLead DEF CallInv
  <2>4. /\ move.pc \in Pcs /\ move.mode \in DOMAIN Rank
        /\ move.pc \in Trying => move.mode # "None"
    BY <2>3 DEF Leads, Moves
  <2>5. move.pc \in {"Down", "Dead", "BringUp"} => pc \in {"Down", "Dead", "BringUp"}
    BY <2>3 DEF Leads
  <2>6. move.pc \in Lit => Running
    <3>1. pc \in {"ReadExtCsd", "Cmd11"} => call.op = "command"
      BY <2>1, CallKnown DEF Fitting
    <3> QED
      BY <2>3, <3>1 DEF Leads, PathInv
  <2>7. UNCHANGED <<sd, dw, backend, granted, requested, refused, step>>
    BY <1>4 DEF TakeAnswer
  <2>8. move.pc \notin {"Down", "Dead", "BringUp"} /\ ~refused => IsSet
    <3>1. pc \notin {"Down", "Dead"}
      BY <2>1 DEF Names
    <3>2. call.op = "clock" /\ answer = "err" => refused
      BY DEF CallInv
    <3>3. call.op = "bring_up" /\ answer = "err" => move.pc = "Dead"
      BY <2>1, <2>3, CallKnown DEF Leads, Fitting
    <3> QED
      BY <2>1, <3>1, <3>2, <3>3 DEF SetInv
  <2> QED
    BY <2>1, <2>2, <2>4, <2>5, <2>6, <2>7, <2>8, PutControl
<1> QED
  BY <1>2, <1>3, <1>4

-----------------------------------------------------------------------------
(* The steps of the controllers.                                           *)

\* A controller acts on the call that init waits for, and answers or goes on.
LEMMA ControllerFrame ==
    ASSUME ControlInv, Controller
    PROVE  /\ UNCHANGED <<call, backend, pc, mode, wide>>
           /\ answer = "none" /\ call.op # "none" /\ pc \in Names
           /\ \/ answer' \in {"ok", "err"} /\ step' = "Idle"
              \/ answer' = "none" /\ step' \in Steps \ {"Idle"}
<1> USE DEF ControlInv
<1>1. UNCHANGED <<backend, pc, mode, wide>>
  BY DEF Controller
<1> DEFINE Goal == /\ UNCHANGED call /\ answer = "none" /\ call.op # "none"
                   /\ \/ answer' \in {"ok", "err"} /\ step' = "Idle"
                      \/ answer' = "none" /\ step' \in Steps \ {"Idle"}
<1>2. ASSUME Transmit PROVE Goal
  BY <1>2 DEF Transmit, Asked, Answer
<1>3. ASSUME Sdhci!Step PROVE Goal
  BY <1>3
     DEF CallInv, Sdhci!Step, Sdhci!BringUp, Sdhci!SetBusWidth, Sdhci!SetClock,
         Sdhci!Callback, Sdhci!Stabilise, Sdhci!SwitchVoltage, Sdhci!ExecuteTuning,
         Sdhci!TuningEnds, Sdhci!Asked, Sdhci!Answer, Sdhci!Await, Steps
<1>4. ASSUME DwMmc!Step PROVE Goal
  BY <1>4
     DEF CallInv, DwMmc!Step, DwMmc!ResetAndInit, DwMmc!SetBusWidth, DwMmc!SetClock,
         DwMmc!Updated, DwMmc!UpdateExpires, DwMmc!Updating, DwMmc!SwitchVoltage,
         DwMmc!ExecuteTuning, DwMmc!Asked, DwMmc!Answer, DwMmc!Await, Steps
<1> QED
  BY <1>1, <1>2, <1>3, <1>4, CallKnown DEF Controller

\* What is noted of an answer keeps its type and the part of CallInv.
LEMMA NoteControl ==
    ASSUME ControlInv, Controller
    PROVE  /\ granted' \in Speeds /\ requested' \subseteq Speeds /\ refused' \in BOOLEAN
           /\ ChannelTypeOK' /\ CallInv'
<1>1. /\ UNCHANGED <<call, backend, pc, mode, wide>> /\ Note
      /\ answer = "none" /\ call.op # "none" /\ pc \in Names
      /\ \/ answer' \in {"ok", "err"} /\ step' = "Idle"
         \/ answer' = "none" /\ step' \in Steps \ {"Idle"}
  BY ControllerFrame DEF Controller
<1>2. /\ call.op = "clock" => call.arg \in Speeds
      /\ pc \in {"Down", "Dead", "BringUp"} => call.op # "clock"
  BY CallKnown DEF ControlInv, Fitting, Calls, CallInv, NoCall, Names
<1>3. "Identification" \in Speeds
  BY DEF Speeds, Hz
<1>4. granted' \in Speeds /\ requested' \subseteq Speeds /\ refused' \in BOOLEAN
  <2>1. granted \in Speeds /\ requested \subseteq Speeds /\ refused \in BOOLEAN
    BY DEF ControlInv, TypeOK
  <2>2. granted' \in Speeds
    BY <1>1, <1>2, <1>3, <2>1 DEF Note
  <2>3. requested' \subseteq Speeds
    BY <1>1, <1>2, <2>1 DEF Note
  <2>4. refused' \in BOOLEAN
    BY <1>1, <2>1 DEF Note
  <2> QED
    BY <2>2, <2>3, <2>4
<1>5. ChannelTypeOK'
  BY <1>1 DEF ControlInv, TypeOK, ChannelTypeOK, Steps
<1>6. CallInv'
  BY <1>1, <1>2 DEF ControlInv, CallInv, Note
<1> QED
  BY <1>4, <1>5, <1>6

\* The clocks of the table, in both controllers.
LEMMA Clocks ==
    /\ Sdhci!Hz = Hz /\ DwMmc!Hz = Hz
    /\ \A s \in Speeds : (\E t \in 4 .. 2000 : Hz[s] = t * 100000) /\ Hz[s] \in Nat \ {0}
<1>1. Sdhci!Hz = Hz /\ DwMmc!Hz = Hz
  BY SMT DEF Hz, Sdhci!Hz, DwMmc!Hz
<1> DEFINE Hundreds(s) == \E t \in 4 .. 2000 : Hz[s] = t * 100000
<1>2. ASSUME NEW s \in Speeds
      PROVE  Hundreds(s)
  <2>1. CASE s \in {"Identification", "Default", "HighSpeed"}
    <3>1. 4 * 100000 = 400000 /\ 250 * 100000 = 25000000 /\ 500 * 100000 = 50000000
      BY SMT
    <3> QED
      BY SMT, <2>1, <3>1 DEF Hz
  <2>2. CASE s \notin {"Identification", "Default", "HighSpeed"}
    <3>1. 500 * 100000 = 50000000 /\ 1040 * 100000 = 104000000 /\ 2000 * 100000 = 200000000
      BY SMT
    <3> QED
      BY SMTT(30), <2>2, <3>1 DEF Hz, Speeds
  <2> HIDE DEF Hundreds
  <2> QED
    BY SMT, <2>1, <2>2
<1>3. \A s \in Speeds : Hz[s] \in Nat \ {0}
  BY SMT DEF Hz, Speeds
<1>4. \A s \in Speeds : Hundreds(s) /\ Hz[s] \in Nat \ {0}
  <2> HIDE DEF Hundreds
  <2> QED
    BY SMT, <1>2, <1>3
<1> QED
  BY SMTT(30), <1>1, <1>4

\* The divider of a base clock fits its field, and the speed.
LEMMA SdhciDivides ==
    ASSUME TypeOK, sd.base > 0, NEW s \in Speeds
    PROVE  LET d == Sdhci!Divider(sd.base, Sdhci!Hz[s])
           IN  /\ d \in Sdhci!Divisors
               /\ Divided(sd.base, d) <= Hz[s]
               /\ 2 * Divided(sd.base, d) > Hz[s] \/ d = 0
<1> DEFINE bases == {m * Sdhci!MHz : m \in 0 .. 255}
           targets == {t * 100000 : t \in 4 .. 2000}
<1>1. sd.base \in bases
  <2>1. sd.base \in Sdhci!Bases
    BY DEF TypeOK, Sdhci!Registers
  <2>2. PICK m \in BaseMHz : sd.base = m * Sdhci!MHz
    BY <2>1 DEF Sdhci!Bases
  <2>3. m \in 0 .. 255
    BY Zenon, BaseAssumption
  <2> QED
    BY Zenon, <2>2, <2>3
<1>2. Hz[s] \in targets
  BY SMT, Clocks
<1>3. \A base \in bases, target \in targets :
         base > 0 => LET d == Sdhci!Divider(base, target)
                     IN  /\ d \in 0 .. 1023
                         /\ Divided(base, d) <= target
                         /\ 2 * Divided(base, d) > target \/ d = 0
  BY SdhciDivider
<1> HIDE DEF bases, targets
<1>4. Sdhci!Hz = Hz
  BY SMT, Clocks
<1> QED
  BY SMT, <1>1, <1>2, <1>3, <1>4 DEF Sdhci!Divisors

\* What a write to the SDHCI registers does, and what it leaves.
SameSource(q, r) == q.base = r.base /\ q.external = r.external /\ q.ref = r.ref
SameClock(q, r) == SameSource(q, r) /\ q.clk = r.clk

Restarted(q, r, d) == /\ q \in Sdhci!Registers /\ SameSource(q, r)
                      /\ q.clk.internal /\ q.clk.div = d /\ ~q.clk.enable
                      /\ q.highSpeed = r.highSpeed

Enabled(q, r, b) == /\ q \in Sdhci!Registers /\ SameSource(q, r)
                    /\ q.clk.internal = r.clk.internal /\ q.clk.div = r.clk.div
                    /\ q.clk.enable = b /\ q.highSpeed = r.highSpeed

\* The write that stops the clock and sets its divider.
LEMMA RestartWrite ==
    ASSUME NEW r \in Sdhci!Registers, NEW d \in Sdhci!Divisors
    PROVE  Restarted(Sdhci!Restart(r, d), r, d)
<1> DEFINE c == [internal |-> TRUE, div |-> d, enable |-> FALSE]
           q == [r EXCEPT !.clk = c]
<1>1. c \in Sdhci!ClockControl /\ c.internal /\ c.div = d /\ ~c.enable
  BY DEF Sdhci!ClockControl
<1> HIDE DEF c
<1>2. q \in Sdhci!Registers
  BY <1>1 DEF Sdhci!Registers
<1>3. SameSource(q, r) /\ q.clk = c /\ q.highSpeed = r.highSpeed
  BY DEF Sdhci!Registers, SameSource
<1>4. Sdhci!Restart(r, d) = q
  BY DEF Sdhci!Restart, c
<1> HIDE DEF q
<1> QED
  BY <1>1, <1>2, <1>3, <1>4 DEF Restarted

\* The write of the clock enable bit.
LEMMA EnableWrite ==
    ASSUME NEW r \in Sdhci!Registers, NEW b \in BOOLEAN
    PROVE  Enabled(Sdhci!Enable(r, b), r, b)
<1> DEFINE c == [internal |-> r.clk.internal, div |-> r.clk.div, enable |-> b]
           q == [r EXCEPT !.clk = c]
<1>1. /\ c \in Sdhci!ClockControl /\ c.internal = r.clk.internal /\ c.div = r.clk.div
      /\ c.enable = b
  BY DEF Sdhci!ClockControl, Sdhci!Registers
<1> HIDE DEF c
<1>2. q \in Sdhci!Registers
  BY <1>1 DEF Sdhci!Registers
<1>3. SameSource(q, r) /\ q.clk = c /\ q.highSpeed = r.highSpeed
  BY DEF Sdhci!Registers, SameSource
<1>4. Sdhci!Enable(r, b) = q
  BY DEF Sdhci!Enable, c
<1> HIDE DEF q
<1> QED
  BY <1>1, <1>2, <1>3, <1>4 DEF Enabled

\* The write of the reference clock.
LEMMA RefWrite ==
    ASSUME NEW r \in Sdhci!Registers, NEW x \in Nat
    PROVE  LET q == [r EXCEPT !.ref = x]
           IN  /\ q \in Sdhci!Registers /\ q.ref = x /\ q.clk = r.clk
               /\ q.base = r.base /\ q.external = r.external /\ q.highSpeed = r.highSpeed
BY DEF Sdhci!Registers

\* The writes of a single bit.
LEMMA BitWrites ==
    ASSUME NEW r \in Sdhci!Registers, NEW x \in BOOLEAN
    PROVE  /\ LET q == [r EXCEPT !.highSpeed = x]
              IN  q \in Sdhci!Registers /\ SameClock(q, r) /\ q.highSpeed = x
           /\ LET q == [r EXCEPT !.v18 = x]
              IN  q \in Sdhci!Registers /\ SameClock(q, r) /\ q.highSpeed = r.highSpeed
           /\ LET q == [r EXCEPT !.sampling = x]
              IN  q \in Sdhci!Registers /\ SameClock(q, r) /\ q.highSpeed = r.highSpeed
<1>1. LET q == [r EXCEPT !.highSpeed = x]
      IN  q \in Sdhci!Registers /\ SameClock(q, r) /\ q.highSpeed = x
  BY DEF Sdhci!Registers, SameClock, SameSource
<1>2. LET q == [r EXCEPT !.v18 = x]
      IN  q \in Sdhci!Registers /\ SameClock(q, r) /\ q.highSpeed = r.highSpeed
  BY DEF Sdhci!Registers, SameClock, SameSource
<1>3. LET q == [r EXCEPT !.sampling = x]
      IN  q \in Sdhci!Registers /\ SameClock(q, r) /\ q.highSpeed = r.highSpeed
  BY DEF Sdhci!Registers, SameClock, SameSource
<1> QED
  BY <1>1, <1>2, <1>3

\* The write of a bus width.
LEMMA WidthWrite ==
    ASSUME NEW r \in Sdhci!Registers, NEW x \in {"Bit1", "Bit4"}
    PROVE  LET q == [r EXCEPT !.width = x]
           IN  q \in Sdhci!Registers /\ SameClock(q, r) /\ q.highSpeed = r.highSpeed
BY DEF Sdhci!Registers, SameClock, SameSource

\* What a step of an SDHCI controller does to the clock; all the rest about the
\* controller follows from it.
Undisturbed ==
    /\ sd' \in Sdhci!Registers /\ SameClock(sd', sd) /\ sd'.highSpeed = sd.highSpeed
    /\ \/ step' = "Idle" /\ (answer' = "ok" => call.op \in {"width", "voltage", "tuning"})
       \/ step' = "Tune" /\ call.op = "tuning"

\* The clock is programmed for a speed and has to become stable.
Programmed ==
    /\ call.op \in {"clock", "bring_up"} /\ step' = "Stabilise"
    /\ sd' \in Sdhci!Registers
    /\ sd'.base = sd.base /\ sd'.external = sd.external
    /\ ~sd.external => sd'.ref = sd.ref
    /\ sd'.clk.internal /\ ~sd'.clk.enable
    /\ sd'.highSpeed = (call.op = "clock" /\ Timing)
    /\ Divided(sd'.ref, sd'.clk.div) <= Hz[Target]
    /\ 2 * Divided(sd'.ref, sd'.clk.div) > Hz[Target] \/ sd'.clk.div = 0

\* It is gated for the platform, and retuned or not by it.
Called ==
    /\ call.op = "clock" /\ sd.external /\ step' = "Callback"
    /\ sd' \in Sdhci!Registers /\ SameSource(sd', sd)
    /\ ~sd'.clk.enable /\ sd'.highSpeed = Timing

Unhelped ==
    /\ call.op = "clock" /\ answer' = "err" /\ sd.external /\ ~sd.clk.enable
    /\ sd' \in Sdhci!Registers /\ sd'.external /\ sd'.clk = sd.clk

\* It is refused, all but the High Speed Enable bit.
Refused ==
    /\ call.op = "clock" /\ answer' = "err"
    /\ sd' \in Sdhci!Registers /\ SameClock(sd', sd)

\* It is let out, or set running again where it runs already.
LetOut ==
    /\ sd' \in Sdhci!Registers /\ SameSource(sd', sd) /\ sd'.highSpeed = sd.highSpeed
    /\ sd'.clk.internal /\ sd'.clk.enable /\ sd'.clk.div = sd.clk.div /\ step' = "Idle"
    /\ \/ step = "Stabilise" /\ answer' = "ok"
       \/ call.op = "voltage" /\ sd.clk.internal /\ sd.clk.enable

SdhciEffect ==
    Undisturbed \/ Programmed \/ Called \/ Unhelped \/ Refused \/ LetOut

\* Every step of an SDHCI controller is one of these.
LEMMA SdhciEffects ==
    ASSUME ControlInv, backend = "Sdhci", Sdhci!Step, Controller
    PROVE  SdhciEffect
<1>1. /\ sd \in Sdhci!Registers /\ SdhciInv /\ PathInv /\ TypeOK
      /\ Fitting(call, pc)
      /\ call.op = "clock" => call.arg \in Speeds
  <2>1. TypeOK /\ CallInv /\ PathInv /\ SdhciInv
    BY DEF ControlInv
  <2>2. sd \in Sdhci!Registers
    BY <2>1 DEF TypeOK
  <2> QED
    BY <2>1, <2>2, CallKnown, ControllerFrame
<1>2. 0 \in Sdhci!Divisors
  BY DEF Sdhci!Divisors
<1>3. \A s \in Speeds : /\ Sdhci!Hz[s] = Hz[s] /\ Hz[s] \in Nat
                        /\ Divided(Hz[s], 0) <= Hz[s]
  <2>1. \A s \in Speeds : Sdhci!Hz[s] = Hz[s] /\ Hz[s] \in Nat
    BY SMT, Clocks
  <2> QED
    BY SMT, <2>1 DEF Divided
<1>4. ASSUME NEW s \in Speeds, sd.base > 0
      PROVE  LET d == Sdhci!Divider(sd.base, Sdhci!Hz[s])
             IN  /\ d \in Sdhci!Divisors
                 /\ Divided(sd.base, d) <= Hz[s] /\ Enough(sd.base, d, s)
  BY <1>1, <1>4, SdhciDivides DEF Enough
<1>5. ASSUME Sdhci!BringUp PROVE SdhciEffect
  <2>1. call.op = "bring_up" /\ Target = "Identification" /\ Target \in Speeds
    BY <1>5 DEF Sdhci!BringUp, Sdhci!Asked, Target, Speeds, Hz
  <2> DEFINE reset == Sdhci!Reset(sd.base, sd.external, sd.ref)
             tuned == [reset EXCEPT !.ref = Hz[Target]]
  <2>2. reset \in Sdhci!Registers /\ SameSource(reset, sd) /\ reset.highSpeed = FALSE
    BY <1>1, <1>2 DEF Sdhci!Reset, Sdhci!Registers, Sdhci!ClockControl, SameSource
  <2>3. CASE sd.external /\ sd' = Sdhci!Retuned(reset, Sdhci!Hz["Identification"])
             /\ Sdhci!Await("Stabilise")
    <3>1. sd' = Sdhci!Restart(tuned, 0)
      BY <1>3, <2>1, <2>3 DEF Sdhci!Retuned
    <3> HIDE DEF reset
    <3>2. /\ tuned \in Sdhci!Registers /\ tuned.base = sd.base
          /\ tuned.external = sd.external /\ tuned.ref = Hz[Target] /\ tuned.highSpeed = FALSE
      <4>1. PICK f \in Nat : f = Hz[Target]
        BY <1>3, <2>1
      <4> QED
        BY <2>2, <4>1, RefWrite DEF SameSource
    <3> HIDE DEF tuned
    <3>3. Restarted(sd', tuned, 0)
      BY <1>2, <3>1, <3>2, RestartWrite
    <3>4. Programmed
      BY <1>3, <2>1, <2>3, <3>2, <3>3 DEF Programmed, Restarted, SameSource, Enough, Sdhci!Await
    <3> QED
      BY <3>4 DEF SdhciEffect
  <2>4. CASE /\ ~sd.external /\ sd.base > 0
             /\ sd' = Sdhci!Restart(reset, Sdhci!Divider(sd.base, Sdhci!Hz["Identification"]))
             /\ Sdhci!Await("Stabilise")
    <3> HIDE DEF reset
    <3> DEFINE d == Sdhci!Divider(sd.base, Sdhci!Hz[Target])
    <3>1. /\ d \in Sdhci!Divisors /\ sd' = Sdhci!Restart(reset, d)
          /\ Divided(sd.base, d) <= Hz[Target] /\ Enough(sd.base, d, Target)
      BY <1>4, <2>1, <2>4
    <3> HIDE DEF d
    <3>2. Restarted(sd', reset, d)
      BY <2>2, <3>1, RestartWrite
    <3>3. sd.ref = sd.base
      BY <1>1, <2>4 DEF SdhciInv
    <3>4. Programmed
      BY <2>1, <2>2, <2>4, <3>1, <3>2, <3>3
         DEF Programmed, Restarted, SameSource, Enough, Sdhci!Await
    <3> QED
      BY <3>4 DEF SdhciEffect
  <2>5. CASE Sdhci!Answer("err") /\ UNCHANGED sd
    <3>1. Undisturbed
      BY <1>1, <2>5 DEF Undisturbed, SameClock, SameSource, Sdhci!Answer
    <3> QED
      BY <3>1 DEF SdhciEffect
  <2> QED
    BY <1>5, <2>3, <2>4, <2>5 DEF Sdhci!BringUp
<1>6. ASSUME Sdhci!SetBusWidth PROVE SdhciEffect
  <2>1. call.op = "width" /\ step' = "Idle"
    BY <1>6 DEF Sdhci!SetBusWidth, Sdhci!Asked, Sdhci!Answer
  <2>2. CASE UNCHANGED sd
    BY <1>1, <2>1, <2>2 DEF SdhciEffect, Undisturbed, SameClock, SameSource
  <2>3. CASE call.arg # "Bit8" /\ sd' = [sd EXCEPT !.width = call.arg]
    <3>1. call.arg \in {"Bit1", "Bit4"}
      BY <1>1, <2>1, <2>3 DEF Fitting, Calls
    <3>2. Undisturbed
      BY <1>1, <2>1, <2>3, <3>1, WidthWrite DEF Undisturbed
    <3> QED
      BY <3>2 DEF SdhciEffect
  <2> QED
    BY <1>6, <2>2, <2>3 DEF Sdhci!SetBusWidth
<1>7. ASSUME Sdhci!SetClock PROVE SdhciEffect
  <2>1. call.op = "clock" /\ Target = call.arg /\ Target \in Speeds
    BY <1>1, <1>7 DEF Sdhci!SetClock, Sdhci!Asked, Target
  <2> DEFINE timed == Sdhci!Timed(call.arg)
  <2>2. /\ timed \in Sdhci!Registers /\ SameClock(timed, sd)
        /\ timed.highSpeed = Timing
    <3>1. PICK b \in BOOLEAN : b = Timing
      BY DEF Timing
    <3>2. timed = [sd EXCEPT !.highSpeed = b]
      BY <3>1 DEF Sdhci!Timed, Timing
    <3> HIDE DEF timed
    <3> QED
      BY <1>1, <3>1, <3>2, BitWrites
  <2> HIDE DEF timed
  <2>3. CASE sd.external /\ sd' = Sdhci!Enable(timed, FALSE) /\ Sdhci!Await("Callback")
    <3>1. Enabled(sd', timed, FALSE)
      BY <2>2, <2>3, EnableWrite
    <3>2. Called
      BY <2>1, <2>2, <2>3, <3>1 DEF Called, Enabled, SameClock, SameSource, Sdhci!Await
    <3> QED
      BY <3>2 DEF SdhciEffect
  <2>4. CASE /\ ~sd.external /\ sd.base > 0
             /\ sd' = Sdhci!Restart(timed, Sdhci!Divider(sd.base, Sdhci!Hz[call.arg]))
             /\ Sdhci!Await("Stabilise")
    <3> DEFINE d == Sdhci!Divider(sd.base, Sdhci!Hz[Target])
    <3>1. /\ d \in Sdhci!Divisors /\ sd' = Sdhci!Restart(timed, d)
          /\ Divided(sd.base, d) <= Hz[Target] /\ Enough(sd.base, d, Target)
      BY <1>4, <2>1, <2>4
    <3> HIDE DEF d
    <3>2. Restarted(sd', timed, d)
      BY <2>2, <3>1, RestartWrite
    <3>3. sd.ref = sd.base
      BY <1>1, <2>4 DEF SdhciInv
    <3>4. /\ sd' \in Sdhci!Registers /\ sd'.base = sd.base /\ sd'.external = sd.external
          /\ sd'.ref = sd.ref /\ sd'.clk.internal /\ ~sd'.clk.enable /\ sd'.clk.div = d
          /\ sd'.highSpeed = Timing
      BY <2>2, <3>2 DEF Restarted, SameClock, SameSource
    <3>5. /\ Divided(sd'.ref, sd'.clk.div) <= Hz[Target]
          /\ 2 * Divided(sd'.ref, sd'.clk.div) > Hz[Target] \/ sd'.clk.div = 0
      BY <3>1, <3>3, <3>4 DEF Enough
    <3>6. Programmed
      BY <2>1, <2>4, <3>4, <3>5 DEF Programmed, Timing, Sdhci!Await
    <3> QED
      BY <3>6 DEF SdhciEffect
  <2>5. CASE sd' = timed /\ Sdhci!Answer("err")
    <3>1. Refused
      BY <2>1, <2>2, <2>5 DEF Refused, Sdhci!Answer
    <3> QED
      BY <3>1 DEF SdhciEffect
  <2> QED
    BY <1>7, <2>3, <2>4, <2>5 DEF Sdhci!SetClock, timed
<1>8. ASSUME Sdhci!Callback PROVE SdhciEffect
  <2>1. /\ call.op = "clock" /\ Target = call.arg /\ Target \in Speeds
        /\ sd.external /\ ~sd.clk.enable /\ sd.highSpeed = Timing
    BY <1>1, <1>8 DEF Sdhci!Callback, SdhciInv, Target
  <2>2. CASE sd' = Sdhci!Retuned(sd, Sdhci!Hz[call.arg]) /\ Sdhci!Await("Stabilise")
    <3> DEFINE tuned == [sd EXCEPT !.ref = Hz[Target]]
    <3>1. sd' = Sdhci!Restart(tuned, 0)
      BY <1>3, <2>1, <2>2 DEF Sdhci!Retuned
    <3>2. /\ tuned \in Sdhci!Registers /\ tuned.base = sd.base
          /\ tuned.external = sd.external /\ tuned.ref = Hz[Target]
          /\ tuned.highSpeed = sd.highSpeed
      <4>1. PICK f \in Nat : f = Hz[Target]
        BY <1>3, <2>1
      <4> QED
        BY <1>1, <4>1, RefWrite
    <3> HIDE DEF tuned
    <3>3. Restarted(sd', tuned, 0)
      BY <1>2, <3>1, <3>2, RestartWrite
    <3>4. /\ sd' \in Sdhci!Registers /\ sd'.base = sd.base /\ sd'.external = sd.external
          /\ sd'.ref = Hz[Target] /\ sd'.clk.internal /\ ~sd'.clk.enable /\ sd'.clk.div = 0
          /\ sd'.highSpeed = Timing
      BY <2>1, <3>2, <3>3 DEF Restarted, SameSource
    <3>5. Divided(sd'.ref, sd'.clk.div) <= Hz[Target]
      BY <1>3, <2>1, <3>4
    <3>6. Programmed
      BY <2>1, <2>2, <3>4, <3>5 DEF Programmed, Timing, Sdhci!Await
    <3> QED
      BY <3>6 DEF SdhciEffect
  <2>3. CASE /\ \E r \in {sd.ref, Sdhci!Hz[call.arg]} : sd' = [sd EXCEPT !.ref = r]
             /\ Sdhci!Answer("err")
    <3>1. PICK r \in {sd.ref, Sdhci!Hz[call.arg]} : sd' = [sd EXCEPT !.ref = r]
      BY <2>3
    <3>2. r \in Nat
      BY <1>1, <1>3, <2>1 DEF Sdhci!Registers
    <3>3. Unhelped
      BY <1>1, <2>1, <2>3, <3>1, <3>2, RefWrite DEF Unhelped, Sdhci!Answer
    <3> QED
      BY <3>3 DEF SdhciEffect
  <2> QED
    BY <1>8, <2>2, <2>3 DEF Sdhci!Callback
<1>9. ASSUME Sdhci!Stabilise PROVE SdhciEffect
  <2>1. step = "Stabilise" /\ sd.clk.internal
    BY <1>1, <1>9 DEF Sdhci!Stabilise, SdhciInv
  <2>2. CASE sd' = Sdhci!Enable(sd, TRUE) /\ Sdhci!Answer("ok")
    <3>1. Enabled(sd', sd, TRUE)
      BY <1>1, <2>2, EnableWrite
    <3>2. LetOut
      BY <2>1, <2>2, <3>1 DEF LetOut, Enabled, Sdhci!Answer
    <3> QED
      BY <3>2 DEF SdhciEffect
  <2>3. CASE UNCHANGED sd /\ Sdhci!Answer("err")
    <3>1. Undisturbed
      BY <1>1, <2>3 DEF Undisturbed, SameClock, SameSource, Sdhci!Answer
    <3> QED
      BY <3>1 DEF SdhciEffect
  <2> QED
    BY <1>9, <2>2, <2>3 DEF Sdhci!Stabilise
<1>10. ASSUME Sdhci!SwitchVoltage PROVE SdhciEffect
  <2>1. /\ call.op = "voltage" /\ call.arg = "V180" /\ step' = "Idle"
        /\ sd.clk.internal /\ sd.clk.enable
    BY <1>1, <1>10
       DEF Sdhci!SwitchVoltage, Sdhci!Asked, Sdhci!Answer, Fitting, PathInv, Running, Clocked,
           Sdhci!Clocked
  <2> DEFINE shifted == [sd EXCEPT !.v18 = call.arg = "V180"]
  <2>2. sd' = Sdhci!Enable(shifted, TRUE)
    BY <1>10, <2>1 DEF Sdhci!SwitchVoltage
  <2>3. /\ shifted \in Sdhci!Registers /\ SameClock(shifted, sd)
        /\ shifted.highSpeed = sd.highSpeed
    <3>1. shifted = [sd EXCEPT !.v18 = TRUE]
      BY <2>1
    <3> HIDE DEF shifted
    <3> QED
      BY <1>1, <3>1, BitWrites
  <2> HIDE DEF shifted
  <2>4. Enabled(sd', shifted, TRUE)
    BY <2>2, <2>3, EnableWrite
  <2>5. LetOut
    BY <2>1, <2>3, <2>4 DEF LetOut, Enabled, SameClock, SameSource
  <2> QED
    BY <2>5 DEF SdhciEffect
<1>11. ASSUME Sdhci!ExecuteTuning PROVE SdhciEffect
  BY <1>1, <1>11
     DEF Sdhci!ExecuteTuning, Sdhci!Asked, Sdhci!Await, SdhciEffect, Undisturbed, SameClock,
         SameSource
<1>12. ASSUME Sdhci!TuningEnds PROVE SdhciEffect
  <2>1. call.op = "tuning" /\ step' = "Idle"
    BY <1>1, <1>12 DEF Sdhci!TuningEnds, SdhciInv, Sdhci!Answer
  <2>2. PICK s \in BOOLEAN : sd' = [sd EXCEPT !.sampling = s]
    <3>1. sd.sampling \in BOOLEAN
      BY <1>1 DEF Sdhci!Registers
    <3> QED
      BY <1>12, <3>1 DEF Sdhci!TuningEnds
  <2>3. Undisturbed
    BY <1>1, <2>1, <2>2, BitWrites DEF Undisturbed
  <2> QED
    BY <2>3 DEF SdhciEffect
<1> QED
  BY <1>5, <1>6, <1>7, <1>8, <1>9, <1>10, <1>11, <1>12 DEF Sdhci!Step


\* The steps of an SDHCI controller keep the invariant.
LEMMA SdhciControl ==
    ASSUME ControlInv, backend = "Sdhci", Sdhci!Step, Controller
    PROVE  ControlInv'
<1>1. /\ UNCHANGED <<call, backend, pc, mode, wide>>
      /\ answer = "none" /\ call.op # "none" /\ pc \in Names
      /\ \/ answer' \in {"ok", "err"} /\ step' = "Idle"
         \/ answer' = "none" /\ step' \in Steps \ {"Idle"}
  BY ControllerFrame
<1>2. /\ granted' \in Speeds /\ requested' \subseteq Speeds /\ refused' \in BOOLEAN
      /\ ChannelTypeOK' /\ CallInv'
  BY NoteControl
<1>3. /\ SdhciInv /\ PathInv /\ SetInv /\ TypeOK
      /\ call.op \in {"clock", "bring_up", "tuning"} => pc \notin Lit
      /\ call.op = "bring_up" <=> pc = "BringUp"
  BY <1>1, CallKnown DEF ControlInv, Fitting
<1>4. UNCHANGED dw
  BY DEF Controller, Transmit
<1>5. /\ Running <=> (sd.clk.internal /\ sd.clk.enable)
      /\ Running' <=> (sd'.clk.internal /\ sd'.clk.enable)
  BY <1>1 DEF Running, Clocked, Sdhci!Clocked
<1>6. /\ answer' # "ok" \/ call.op \notin {"clock", "bring_up"} => granted' = granted
      /\ answer' = "ok" /\ call.op \in {"clock", "bring_up"} => granted' = Target
      /\ call.op # "clock" => refused' = refused
  BY DEF Controller, Note, Target
<1>7. Target' = Target /\ Timing' = Timing
  BY <1>1 DEF Target, Timing
<1> DEFINE Goal == sd' \in Sdhci!Registers /\ SdhciInv' /\ PathInv' /\ SetInv'
<1>8. ASSUME Undisturbed PROVE Goal
  <2>1. /\ sd' \in Sdhci!Registers /\ sd'.base = sd.base /\ sd'.external = sd.external
        /\ sd'.ref = sd.ref /\ sd'.clk = sd.clk /\ sd'.highSpeed = sd.highSpeed
        /\ step' = "Idle" \/ (step' = "Tune" /\ call.op = "tuning")
        /\ answer' = "ok" => call.op \in {"width", "voltage", "tuning"}
    BY <1>1, <1>8 DEF Undisturbed, SameClock, SameSource
  <2>2. granted' = granted
    BY <1>6, <2>1
  <2>3. SdhciInv'
    BY <1>1, <1>3, <2>1, <2>2 DEF SdhciInv
  <2>4. PathInv'
    BY <1>1, <1>3, <1>5, <2>1 DEF PathInv
  <2>5. SetInv'
    <3>1. IsSet => IsSet'
      BY <1>1, <1>5, <2>1, <2>2 DEF IsSet
    <3> QED
      BY <1>1, <1>3, <1>6, <2>1, <3>1 DEF SetInv
  <2> QED
    BY <2>1, <2>3, <2>4, <2>5
<1>9. ASSUME Programmed PROVE Goal
  <2>1. answer' = "none" /\ call.op \in {"clock", "bring_up"}
    BY <1>1, <1>9 DEF Programmed
  <2>2. SdhciInv'
    BY <1>1, <1>3, <1>7, <1>9 DEF SdhciInv, Programmed, Enough
  <2> QED
    BY <1>1, <1>3, <1>9, <2>1, <2>2 DEF Programmed, PathInv, SetInv
<1>10. ASSUME Called PROVE Goal
  <2>1. answer' = "none" /\ call.op = "clock"
    BY <1>1, <1>10 DEF Called
  <2>2. SdhciInv'
    BY <1>1, <1>3, <1>7, <1>10 DEF SdhciInv, Called, SameSource
  <2> QED
    BY <1>1, <1>3, <1>10, <2>1, <2>2 DEF Called, PathInv, SetInv
<1>11. ASSUME Unhelped PROVE Goal
  <2>1. answer' = "err" /\ call.op = "clock" /\ step' = "Idle"
    BY <1>1, <1>11 DEF Unhelped
  <2>2. SdhciInv'
    BY <1>3, <1>11, <2>1 DEF SdhciInv, Unhelped
  <2> QED
    BY <1>1, <1>3, <1>11, <2>1, <2>2 DEF Unhelped, PathInv, SetInv
<1>12. ASSUME Refused PROVE Goal
  <2>1. answer' = "err" /\ call.op = "clock" /\ step' = "Idle" /\ granted' = granted
    BY <1>1, <1>6, <1>12 DEF Refused
  <2>2. SdhciInv'
    BY <1>3, <1>12, <2>1 DEF SdhciInv, Refused, SameClock, SameSource
  <2> QED
    BY <1>1, <1>3, <1>12, <2>1, <2>2 DEF Refused, PathInv, SetInv
<1>13. ASSUME LetOut PROVE Goal
  <2>1. /\ sd' \in Sdhci!Registers /\ sd'.base = sd.base /\ sd'.external = sd.external
        /\ sd'.ref = sd.ref /\ sd'.clk.div = sd.clk.div /\ sd'.highSpeed = sd.highSpeed
        /\ step' = "Idle" /\ sd'.clk.internal /\ sd'.clk.enable
    BY <1>13 DEF LetOut, SameSource
  <2>2. PathInv'
    BY <1>5, <2>1 DEF PathInv
  <2>3. CASE step = "Stabilise" /\ answer' = "ok"
    <3>1. /\ call.op \in {"clock", "bring_up"} /\ granted' = Target
          /\ sd.highSpeed = (call.op = "clock" /\ Timing)
          /\ Divided(sd.ref, sd.clk.div) <= Hz[Target] /\ Enough(sd.ref, sd.clk.div, Target)
      BY <1>3, <1>6, <2>3 DEF SdhciInv
    <3>2. Divided(sd'.ref, sd'.clk.div) <= Hz[granted']
      BY <2>1, <3>1
    <3>3. SdhciInv'
      BY <1>3, <2>1, <3>2 DEF SdhciInv
    <3>4. sd'.highSpeed = (granted' \notin {"Identification", "Default"})
      BY <2>1, <3>1 DEF Timing, Target
    <3>5. IsSet'
      BY <1>1, <1>5, <2>1, <3>1, <3>4 DEF IsSet
    <3> QED
      BY <2>1, <2>2, <3>3, <3>5 DEF SetInv
  <2>4. CASE call.op = "voltage" /\ sd.clk.internal /\ sd.clk.enable
    <3>1. granted' = granted /\ refused' = refused
      BY <1>6, <2>4
    <3>2. SdhciInv'
      BY <1>3, <2>1, <2>4, <3>1 DEF SdhciInv
    <3>3. IsSet => IsSet'
      BY <1>1, <1>5, <2>1, <3>1 DEF IsSet
    <3> QED
      BY <1>1, <1>3, <2>1, <2>2, <2>4, <3>1, <3>2, <3>3 DEF SetInv
  <2> QED
    BY <1>13, <2>3, <2>4 DEF LetOut
<1>14. Goal
  BY <1>8, <1>9, <1>10, <1>11, <1>12, <1>13, SdhciEffects DEF SdhciEffect
<1>15. TypeOK'
  BY <1>1, <1>2, <1>3, <1>4, <1>14 DEF TypeOK
<1> QED
  BY <1>1, <1>2, <1>14, <1>15 DEF ControlInv

\* A command of init is heard only while the clock runs, and changes nothing else.
LEMMA TransmitControl ==
    ASSUME ControlInv, Transmit, Controller
    PROVE  ControlInv'
<1>1. /\ UNCHANGED <<call, backend, pc, mode, wide, sd, dw>>
      /\ call.op = "command" /\ answer = "none" /\ step = "Idle" /\ step' = "Idle"
      /\ answer' = "ok" => Running
  BY DEF Controller, Transmit, Asked, Answer, Running
<1>2. granted' = granted /\ requested' = requested /\ refused' = refused
  BY <1>1 DEF Controller, Note
<1>3. CallInv' /\ ChannelTypeOK'
  BY NoteControl
<1>4. TypeOK /\ PathInv /\ SetInv
  BY DEF ControlInv
<1>5. Running' <=> Running
  BY <1>1 DEF Running, Clocked, Sdhci!Clocked, DwMmc!Clocked
<1>6. TypeOK'
  BY <1>1, <1>2, <1>3, <1>4 DEF TypeOK, Sdhci!Registers, DwMmc!Registers
<1>7. PathInv'
  BY <1>1, <1>4, <1>5 DEF PathInv
<1>8. backend = "Sdhci" => SdhciInv'
  BY <1>1, <1>2 DEF ControlInv, SdhciInv
<1>9. backend = "DwMmc" => DwMmcInv'
  BY <1>1, <1>2 DEF ControlInv, DwMmcInv, Divisible
<1>10. SetInv'
  <2>1. IsSet' <=> IsSet
    BY <1>1, <1>2, <1>5 DEF IsSet
  <2> QED
    BY <1>1, <1>2, <1>4, <2>1 DEF SetInv
<1> QED
  BY <1>1, <1>3, <1>6, <1>7, <1>8, <1>9, <1>10 DEF ControlInv

-----------------------------------------------------------------------------
(* The DesignWare controller.                                              *)

\* A write to the clock registers of the DesignWare core leaves the card
\* interface unit and the timing as they are.
Written(q, r, ena, div, updating) ==
    /\ q \in DwMmc!Registers /\ q.ref = r.ref /\ q.unit = r.unit /\ q.ddr = r.ddr
    /\ q.ena = ena /\ q.div = div /\ q.updating = updating

Kept(q, r) == Written(q, r, r.ena, r.div, r.updating)

\* The writes of a single field.
LEMMA FieldWrites ==
    ASSUME NEW r \in DwMmc!Registers, NEW x \in BOOLEAN
    PROVE  /\ Written([r EXCEPT !.ena = x], r, x, r.div, r.updating)
           /\ Written(DwMmc!Update(r), r, r.ena, r.div, TRUE)
           /\ Kept([r EXCEPT !.volt = x], r)
<1>1. Written([r EXCEPT !.ena = x], r, x, r.div, r.updating)
  BY DEF Written, DwMmc!Registers
<1>2. Written(DwMmc!Update(r), r, r.ena, r.div, TRUE)
  BY DEF Written, DwMmc!Registers, DwMmc!Update
<1>3. Kept([r EXCEPT !.volt = x], r)
  BY DEF Kept, Written, DwMmc!Registers
<1> QED
  BY <1>1, <1>2, <1>3

\* The write of a card width.
LEMMA CardWidthWrite ==
    ASSUME NEW r \in DwMmc!Registers, NEW x \in {"Bit1", "Bit4", "Bit8"}
    PROVE  Kept([r EXCEPT !.width = x], r)
BY DEF Kept, Written, DwMmc!Registers

\* The write of the divider field.
LEMMA DivWrite ==
    ASSUME NEW r \in DwMmc!Registers, NEW d \in DwMmc!Divisors
    PROVE  Written([r EXCEPT !.div = d], r, r.ena, d, r.updating)
BY DEF Written, DwMmc!Registers

\* The write of the DDR bit.
LEMMA DdrWrite ==
    ASSUME NEW r \in DwMmc!Registers, NEW x \in BOOLEAN
    PROVE  LET q == [r EXCEPT !.ddr = x]
           IN  /\ q \in DwMmc!Registers /\ q.ref = r.ref /\ q.unit = r.unit /\ q.ddr = x
               /\ q.ena = r.ena /\ q.div = r.div /\ q.updating = r.updating
BY DEF DwMmc!Registers

\* The three updates of program_clock.
LEMMA GateWrite ==
    ASSUME NEW r \in DwMmc!Registers
    PROVE  Written(DwMmc!Gate(r), r, FALSE, r.div, TRUE)
<1> DEFINE q == [r EXCEPT !.ena = FALSE]
<1>1. Written(q, r, FALSE, r.div, r.updating)
  BY FieldWrites
<1>2. DwMmc!Gate(r) = DwMmc!Update(q)
  BY DEF DwMmc!Gate
<1> HIDE DEF q
<1>3. Written(DwMmc!Update(q), q, q.ena, q.div, TRUE)
  BY <1>1, FieldWrites DEF Written
<1> QED
  BY <1>1, <1>2, <1>3 DEF Written

\* The update that divides.
LEMMA DivideWrite ==
    ASSUME NEW r \in DwMmc!Registers, NEW d \in DwMmc!Divisors
    PROVE  Written(DwMmc!Update([r EXCEPT !.div = d]), r, r.ena, d, TRUE)
<1> DEFINE q == [r EXCEPT !.div = d]
<1>1. Written(q, r, r.ena, d, r.updating)
  BY DivWrite
<1> HIDE DEF q
<1>2. Written(DwMmc!Update(q), q, q.ena, q.div, TRUE)
  BY <1>1, FieldWrites DEF Written
<1>3. Written(DwMmc!Update(q), r, r.ena, d, TRUE)
  BY <1>1, <1>2 DEF Written
<1> QED
  BY <1>3 DEF q

\* The update that lets the clock through.
LEMMA UngateWrite ==
    ASSUME NEW r \in DwMmc!Registers
    PROVE  Written(DwMmc!Update([r EXCEPT !.ena = TRUE]), r, TRUE, r.div, TRUE)
<1> DEFINE q == [r EXCEPT !.ena = TRUE]
<1>1. Written(q, r, TRUE, r.div, r.updating)
  BY FieldWrites
<1> HIDE DEF q
<1>2. Written(DwMmc!Update(q), q, q.ena, q.div, TRUE)
  BY <1>1, FieldWrites DEF Written
<1>3. Written(DwMmc!Update(q), r, TRUE, r.div, TRUE)
  BY <1>1, <1>2 DEF Written
<1> QED
  BY <1>3 DEF q

\* What the unit takes.
LEMMA TakenWrite ==
    ASSUME NEW r \in DwMmc!Registers
    PROVE  LET q == [DwMmc!Taken(r) EXCEPT !.updating = FALSE]
           IN  /\ q \in DwMmc!Registers /\ q.ref = r.ref /\ q.ddr = r.ddr
               /\ q.ena = r.ena /\ q.div = r.div /\ ~q.updating
               /\ q.unit.ena = r.ena /\ q.unit.div = r.div
<1> DEFINE u == [ena |-> r.ena, div |-> r.div]
           t == [r EXCEPT !.unit = u]
           q == [t EXCEPT !.updating = FALSE]
<1>1. u \in [ena : BOOLEAN, div : DwMmc!Divisors] /\ u.ena = r.ena /\ u.div = r.div
  BY DEF DwMmc!Registers
<1> HIDE DEF u
<1>2. /\ t \in DwMmc!Registers /\ t.ref = r.ref /\ t.ddr = r.ddr
      /\ t.ena = r.ena /\ t.div = r.div /\ t.unit = u
  BY <1>1 DEF DwMmc!Registers
<1>3. DwMmc!Taken(r) = t
  BY DEF DwMmc!Taken, u
<1> HIDE DEF t
<1>4. /\ q \in DwMmc!Registers /\ q.ref = t.ref /\ q.ddr = t.ddr
      /\ q.ena = t.ena /\ q.div = t.div /\ q.unit = t.unit /\ ~q.updating
  BY <1>2 DEF DwMmc!Registers
<1>5. q = [DwMmc!Taken(r) EXCEPT !.updating = FALSE]
  BY <1>3
<1> HIDE DEF q
<1> QED
  BY <1>1, <1>2, <1>4, <1>5

\* What a step of a DesignWare controller does to the clock.
Finished ==
    /\ step' = "Idle" /\ Kept(dw', dw)
    /\ answer' = "ok" => call.op \in {"width", "voltage", "tuning"}

ResetFails ==
    /\ step' = "Idle" /\ answer' = "err" /\ call.op = "bring_up"
    /\ Written(dw', dw, FALSE, dw.div, dw.updating)

\* program_clock begins, in a call of its own or after a reset.
Gated ==
    /\ step = "Idle" /\ step' = "Gate" /\ call.op \in {"clock", "bring_up"}
    /\ dw' \in DwMmc!Registers /\ dw'.ref = dw.ref /\ ~dw'.ena /\ dw'.updating
    /\ dw'.unit = dw.unit \/ ~dw'.unit.ena
    /\ dw'.ddr = (call.op = "clock" /\ call.arg = "Ddr50")

Divides ==
    /\ step = "Gate" /\ ~dw.updating /\ step' = "Divide"
    /\ Written(dw', dw, dw.ena, DwMmc!Divider(dw.ref, Hz[Target]), TRUE)

LetsOut ==
    /\ step = "Divide" /\ ~dw.updating /\ step' = "Ungate"
    /\ Written(dw', dw, TRUE, dw.div, TRUE)

Grants ==
    /\ step = "Ungate" /\ ~dw.updating /\ step' = "Idle" /\ answer' = "ok"
    /\ dw' = dw

DwMmcEffect ==
    Finished \/ ResetFails \/ Gated \/ Divides \/ LetsOut \/ Grants

\* Every step of a DesignWare controller is one of these.
LEMMA DwMmcEffects ==
    ASSUME ControlInv, backend = "DwMmc", DwMmc!Step, Controller
    PROVE  DwMmcEffect
<1>1. /\ dw \in DwMmc!Registers /\ DwMmcInv /\ Fitting(call, pc)
      /\ call.op = "clock" => call.arg \in Speeds
      /\ call.op \in {"clock", "bring_up"} => Target \in Speeds
  <2>1. TypeOK /\ CallInv /\ DwMmcInv
    BY DEF ControlInv
  <2>2. dw \in DwMmc!Registers
    BY <2>1 DEF TypeOK
  <2> QED
    BY <2>1, <2>2, CallKnown, ControllerFrame
<1>2. UNCHANGED dw => Kept(dw', dw)
  BY <1>1 DEF Kept, Written
<1>3. ASSUME DwMmc!ResetAndInit PROVE DwMmcEffect
  <2>1. call.op = "bring_up" /\ step = "Idle"
    BY <1>3 DEF DwMmc!ResetAndInit, DwMmc!Asked
  <2>2. CASE dw' = DwMmc!Gate(DwMmc!Reset(dw)) /\ DwMmc!Await("Gate")
    <3> DEFINE reset == DwMmc!Reset(dw)
    <3>1. /\ reset \in DwMmc!Registers /\ reset.ref = dw.ref /\ ~reset.ddr
          /\ ~reset.unit.ena
      <4>1. 0 \in DwMmc!Divisors
        BY DEF DwMmc!Divisors
      <4> QED
        BY <1>1, <4>1 DEF DwMmc!Reset, DwMmc!Off, DwMmc!Registers
    <3> HIDE DEF reset
    <3>2. Written(dw', reset, FALSE, reset.div, TRUE)
      BY <2>2, <3>1, GateWrite DEF reset
    <3>3. Gated
      BY <2>1, <2>2, <3>1, <3>2 DEF Gated, Written, DwMmc!Await, DwMmc!Registers
    <3> QED
      BY <3>3 DEF DwMmcEffect
  <2>3. CASE dw' = [dw EXCEPT !.ena = FALSE] /\ DwMmc!Answer("err")
    <3>1. ResetFails
      BY <1>1, <2>1, <2>3, FieldWrites DEF ResetFails, DwMmc!Answer
    <3> QED
      BY <3>1 DEF DwMmcEffect
  <2> QED
    BY <1>3, <2>2, <2>3 DEF DwMmc!ResetAndInit
<1>4. ASSUME DwMmc!SetBusWidth PROVE DwMmcEffect
  <2>1. call.op = "width" /\ step' = "Idle" /\ dw' = [dw EXCEPT !.width = call.arg]
    BY <1>4 DEF DwMmc!SetBusWidth, DwMmc!Asked, DwMmc!Answer
  <2>2. call.arg \in {"Bit1", "Bit4", "Bit8"}
    BY <1>1, <2>1 DEF Fitting, Calls
  <2>3. Finished
    BY <1>1, <2>1, <2>2, CardWidthWrite DEF Finished
  <2> QED
    BY <2>3 DEF DwMmcEffect
<1>5. ASSUME DwMmc!SetClock PROVE DwMmcEffect
  <2>1. call.op = "clock" /\ step = "Idle" /\ step' = "Gate"
    BY <1>5 DEF DwMmc!SetClock, DwMmc!Asked, DwMmc!Await
  <2> DEFINE timed == DwMmc!Timed(call.arg)
  <2>2. PICK b \in BOOLEAN : b = (call.arg = "Ddr50")
    OBVIOUS
  <2>3. timed = [dw EXCEPT !.ddr = b]
    BY <2>2 DEF DwMmc!Timed
  <2> HIDE DEF timed
  <2>4. /\ timed \in DwMmc!Registers /\ timed.ref = dw.ref /\ timed.unit = dw.unit
        /\ timed.ddr = b
    BY <1>1, <2>2, <2>3, DdrWrite
  <2>5. Written(dw', timed, FALSE, timed.div, TRUE)
    BY <1>5, <2>4, GateWrite DEF DwMmc!SetClock, timed
  <2>6. Gated
    BY <2>1, <2>2, <2>4, <2>5 DEF Gated, Written
  <2> QED
    BY <2>6 DEF DwMmcEffect
<1>6. ASSUME DwMmc!Updated PROVE DwMmcEffect
  <2>1. CASE step = "Gate" /\ DwMmc!Await("Divide")
             /\ dw' = DwMmc!Update([dw EXCEPT !.div = DwMmc!Divider(dw.ref, DwMmc!Target)])
    <3>1. DwMmc!Target = Hz[Target] /\ Target \in Speeds
      <4>1. DwMmc!Hz = Hz
        BY SMT, Clocks
      <4> QED
        BY <1>1, <2>1, <4>1 DEF DwMmc!Target, Target, DwMmcInv
    <3> DEFINE d == DwMmc!Divider(dw.ref, Hz[Target])
    <3>2. d \in DwMmc!Divisors
      <4>1. PICK f \in Nat \ {0} : f = Hz[Target]
        BY SMT, <3>1, Clocks
      <4>2. dw.ref \in Nat \ {0}
        BY <1>1, RefAssumption DEF DwMmc!Registers
      <4> QED
        BY <4>1, <4>2, DwMmcDivider
    <3>3. dw' = DwMmc!Update([dw EXCEPT !.div = d])
      BY <2>1, <3>1
    <3> HIDE DEF d
    <3>4. Written(dw', dw, dw.ena, d, TRUE)
      BY <1>1, <3>2, <3>3, DivideWrite
    <3>5. Divides
      BY <1>6, <2>1, <3>4 DEF Divides, DwMmc!Updated, DwMmc!Await, d
    <3> QED
      BY <3>5 DEF DwMmcEffect
  <2>2. CASE step = "Divide" /\ DwMmc!Await("Ungate")
             /\ dw' = DwMmc!Update([dw EXCEPT !.ena = TRUE])
    <3>1. Written(dw', dw, TRUE, dw.div, TRUE)
      BY <1>1, <2>2, UngateWrite
    <3>2. LetsOut
      BY <1>6, <2>2, <3>1 DEF LetsOut, DwMmc!Updated, DwMmc!Await
    <3> QED
      BY <3>2 DEF DwMmcEffect
  <2>3. CASE step = "Ungate" /\ DwMmc!Answer("ok") /\ UNCHANGED dw
    <3>1. Grants
      BY <1>6, <2>3 DEF Grants, DwMmc!Updated, DwMmc!Answer
    <3> QED
      BY <3>1 DEF DwMmcEffect
  <2> QED
    BY <1>6, <2>1, <2>2, <2>3 DEF DwMmc!Updated
<1>7. ASSUME DwMmc!UpdateExpires PROVE DwMmcEffect
  <2>1. Finished
    BY <1>2, <1>7 DEF DwMmc!UpdateExpires, DwMmc!Answer, Finished
  <2> QED
    BY <2>1 DEF DwMmcEffect
<1>8. ASSUME DwMmc!SwitchVoltage PROVE DwMmcEffect
  <2>1. call.op = "voltage" /\ step' = "Idle"
    BY <1>8 DEF DwMmc!SwitchVoltage, DwMmc!Asked, DwMmc!Answer
  <2>2. Kept(dw', dw)
    <3>1. PICK b \in BOOLEAN : b = (call.arg = "V180")
      OBVIOUS
    <3>2. UNCHANGED dw \/ dw' = [dw EXCEPT !.volt = b]
      BY <1>8, <3>1 DEF DwMmc!SwitchVoltage
    <3> QED
      BY <1>1, <1>2, <3>1, <3>2, FieldWrites
  <2>3. Finished
    BY <2>1, <2>2 DEF Finished
  <2> QED
    BY <2>3 DEF DwMmcEffect
<1>9. ASSUME DwMmc!ExecuteTuning PROVE DwMmcEffect
  <2>1. Finished
    BY <1>2, <1>9 DEF DwMmc!ExecuteTuning, DwMmc!Answer, Finished
  <2> QED
    BY <2>1 DEF DwMmcEffect
<1> QED
  BY <1>3, <1>4, <1>5, <1>6, <1>7, <1>8, <1>9 DEF DwMmc!Step

\* The divider of program_clock fits the speed, and is enough.
LEMMA DwMmcDivides ==
    ASSUME dw \in DwMmc!Registers, NEW s \in Speeds
    PROVE  LET d == DwMmc!Divider(dw.ref, Hz[s])
           IN  (Divisible => Divided(dw.ref, d) <= Hz[s]) /\ Enough(dw.ref, d, s)
<1> DEFINE d == DwMmc!Divider(dw.ref, Hz[s])
<1>1. dw.ref \in Nat \ {0}
  BY RefAssumption DEF DwMmc!Registers
<1>2. Hz[s] \in Nat \ {0}
  BY SMT, Clocks
<1>3. /\ dw.ref <= 510 * Hz[s] => Divided(dw.ref, d) <= Hz[s]
      /\ 2 * Divided(dw.ref, d) > Hz[s] \/ d = 0
  BY <1>1, <1>2, DwMmcDivider
<1> HIDE DEF d
<1>4. Divisible => dw.ref <= 510 * Hz[s]
  <2>1. Hz["Identification"] \in Nat /\ Hz["Identification"] <= Hz[s]
    BY SMT DEF Hz, Speeds
  <2> QED
    BY SMT, <1>1, <1>2, <2>1 DEF Divisible
<1> QED
  BY <1>3, <1>4 DEF Enough, d

\* The steps of a DesignWare controller keep the invariant.
LEMMA DwMmcControl ==
    ASSUME ControlInv, backend = "DwMmc", DwMmc!Step, Controller
    PROVE  ControlInv'
<1>1. /\ UNCHANGED <<call, backend, pc, mode, wide>>
      /\ answer = "none" /\ call.op # "none" /\ pc \in Names
      /\ \/ answer' \in {"ok", "err"} /\ step' = "Idle"
         \/ answer' = "none" /\ step' \in Steps \ {"Idle"}
  BY ControllerFrame
<1>2. /\ granted' \in Speeds /\ requested' \subseteq Speeds /\ refused' \in BOOLEAN
      /\ ChannelTypeOK' /\ CallInv'
  BY NoteControl
<1>3. /\ DwMmcInv /\ PathInv /\ SetInv /\ TypeOK /\ dw \in DwMmc!Registers
      /\ call.op \in {"clock", "bring_up", "tuning"} => pc \notin Lit
      /\ call.op = "bring_up" => pc = "BringUp"
      /\ call.op \in {"clock", "bring_up"} => Target \in Speeds
      /\ call.op = "bring_up" => requested = {"Identification"}
  BY <1>1, CallKnown DEF ControlInv, Fitting, CallInv, TypeOK
<1>4. UNCHANGED sd
  BY DEF Controller, Transmit
<1>5. /\ Running <=> (dw.unit.ena /\ ~dw.updating)
      /\ Running' <=> (dw'.unit.ena /\ ~dw'.updating)
  BY <1>1 DEF Running, Clocked, DwMmc!Clocked
<1>6. /\ answer' # "ok" \/ call.op \notin {"clock", "bring_up"}
           => granted' = granted /\ requested \subseteq requested'
      /\ answer' = "ok" /\ call.op \in {"clock", "bring_up"} => granted' = Target
      /\ call.op \in {"clock", "bring_up"} => Target \in requested'
      /\ call.op # "clock" => refused' = refused
  BY <1>3 DEF Controller, Note, Target
<1>7. Target' = Target
  BY <1>1 DEF Target
<1>8. call.op \in {"clock", "bring_up"}
      => LET d == DwMmc!Divider(dw.ref, Hz[Target])
         IN  (Divisible => Divided(dw.ref, d) <= Hz[Target]) /\ Enough(dw.ref, d, Target)
  BY <1>3, DwMmcDivides
<1> DEFINE Goal == dw' \in DwMmc!Registers /\ DwMmcInv' /\ PathInv' /\ SetInv'
<1>9. ASSUME Finished PROVE Goal
  <2>1. /\ dw' \in DwMmc!Registers /\ dw'.ref = dw.ref /\ dw'.unit = dw.unit
        /\ dw'.ddr = dw.ddr /\ dw'.ena = dw.ena /\ dw'.div = dw.div
        /\ dw'.updating = dw.updating /\ step' = "Idle"
        /\ answer' = "ok" => call.op \in {"width", "voltage", "tuning"}
    BY <1>9 DEF Finished, Kept, Written
  <2>2. granted' = granted /\ requested \subseteq requested'
    BY <1>6, <2>1
  <2>3. DwMmcInv'
    BY <1>3, <2>1, <2>2 DEF DwMmcInv, Divisible
  <2>4. PathInv'
    BY <1>1, <1>3, <1>5, <2>1 DEF PathInv
  <2>5. SetInv'
    <3>1. IsSet => IsSet'
      BY <1>1, <1>5, <2>1, <2>2 DEF IsSet
    <3> QED
      BY <1>1, <1>3, <1>6, <2>1, <3>1 DEF SetInv
  <2> QED
    BY <2>1, <2>3, <2>4, <2>5
<1>10. ASSUME ResetFails PROVE Goal
  <2>1. /\ dw' \in DwMmc!Registers /\ dw'.ref = dw.ref /\ dw'.unit = dw.unit
        /\ ~dw'.ena /\ step' = "Idle" /\ answer' = "err" /\ call.op = "bring_up"
    BY <1>10 DEF ResetFails, Written
  <2>2. requested \subseteq requested'
    BY <1>6, <2>1
  <2>3. DwMmcInv'
    BY <1>3, <2>1, <2>2 DEF DwMmcInv, Divisible
  <2> QED
    BY <1>1, <1>3, <2>1, <2>3 DEF PathInv, SetInv
<1>11. ASSUME Gated PROVE Goal
  <2>1. answer' = "none" /\ call.op \in {"clock", "bring_up"} /\ step' = "Gate"
    BY <1>1, <1>11 DEF Gated
  <2>2. requested \subseteq requested' /\ Target \in requested'
    BY <1>6, <2>1
  <2>3. DwMmcInv'
    BY <1>1, <1>3, <1>7, <1>11, <2>1, <2>2 DEF DwMmcInv, Divisible, Gated
  <2> QED
    BY <1>1, <1>3, <1>11, <2>1, <2>3 DEF Gated, PathInv, SetInv
<1>12. ASSUME Divides PROVE Goal
  <2>1. /\ dw' \in DwMmc!Registers /\ dw'.ref = dw.ref /\ dw'.unit = dw.unit
        /\ dw'.ddr = dw.ddr /\ dw'.ena = dw.ena /\ dw'.updating
        /\ dw'.div = DwMmc!Divider(dw.ref, Hz[Target]) /\ answer' = "none"
        /\ step = "Gate" /\ ~dw.updating /\ step' = "Divide"
    BY <1>1, <1>12 DEF Divides, Written
  <2>2. /\ call.op \in {"clock", "bring_up"} /\ Target \in requested'
        /\ ~dw.ena /\ ~dw.unit.ena
    BY <1>3, <1>6, <2>1 DEF DwMmcInv
  <2>3. DwMmcInv'
    BY <1>1, <1>3, <1>7, <2>1, <2>2 DEF DwMmcInv, Divisible
  <2> QED
    BY <1>1, <1>3, <2>1, <2>2, <2>3 DEF PathInv, SetInv
<1>13. ASSUME LetsOut PROVE Goal
  <2>1. /\ dw' \in DwMmc!Registers /\ dw'.ref = dw.ref /\ dw'.unit = dw.unit
        /\ dw'.ddr = dw.ddr /\ dw'.ena /\ dw'.updating
        /\ dw'.div = dw.div /\ answer' = "none"
        /\ step = "Divide" /\ ~dw.updating /\ step' = "Ungate"
    BY <1>1, <1>13 DEF LetsOut, Written
  <2>2. /\ call.op \in {"clock", "bring_up"} /\ Target \in requested'
        /\ dw.unit.div = dw.div /\ dw.div = DwMmc!Divider(dw.ref, Hz[Target])
    BY <1>3, <1>6, <2>1 DEF DwMmcInv
  <2>3. Divisible' => Divided(dw'.ref, dw'.unit.div) <= Hz[Target]
    BY <1>8, <2>1, <2>2 DEF Divisible
  <2>4. DwMmcInv'
    BY <1>1, <1>3, <1>7, <2>1, <2>2, <2>3 DEF DwMmcInv
  <2> QED
    BY <1>1, <1>3, <2>1, <2>2, <2>4 DEF PathInv, SetInv
<1>14. ASSUME Grants PROVE Goal
  <2>1. /\ step = "Ungate" /\ ~dw.updating /\ step' = "Idle" /\ answer' = "ok"
        /\ dw' = dw
    BY <1>14 DEF Grants
  <2>2. /\ call.op \in {"clock", "bring_up"} /\ Target \in requested' /\ granted' = Target
        /\ dw.ena /\ dw.unit.ena /\ dw.unit.div = dw.div
        /\ dw.div = DwMmc!Divider(dw.ref, Hz[Target])
        /\ dw.ddr = (call.op = "clock" /\ call.arg = "Ddr50")
    BY <1>3, <1>6, <2>1 DEF DwMmcInv
  <2>3. /\ Divisible' => Divided(dw'.ref, dw'.unit.div) <= Hz[Target]
        /\ Enough(dw'.ref, dw'.unit.div, Target)
    BY <1>8, <2>1, <2>2 DEF Divisible
  <2>4. DwMmcInv'
    BY <1>3, <2>1, <2>2, <2>3 DEF DwMmcInv
  <2>5. dw'.ddr = (granted' = "Ddr50")
    BY <2>1, <2>2 DEF Target
  <2>6. Running'
    BY <1>5, <2>1, <2>2
  <2>7. IsSet'
    BY <1>1, <2>2, <2>3, <2>5, <2>6 DEF IsSet
  <2> QED
    BY <1>3, <2>1, <2>4, <2>6, <2>7 DEF PathInv, SetInv
<1>15. Goal
  BY <1>9, <1>10, <1>11, <1>12, <1>13, <1>14, DwMmcEffects DEF DwMmcEffect
<1>16. TypeOK'
  BY <1>1, <1>2, <1>3, <1>4, <1>15 DEF TypeOK
<1> QED
  BY <1>1, <1>2, <1>15, <1>16 DEF ControlInv

\* Neither does an update that the unit takes late, or in time.
LEMMA ClockUnitControl ==
    ASSUME ControlInv, ClockUnit
    PROVE  ControlInv'
<1>1. /\ UNCHANGED <<call, answer, step, sd, backend, pc, mode, wide>>
      /\ UNCHANGED <<granted, requested, refused>>
      /\ backend = "DwMmc" /\ dw.updating
      /\ dw' = [DwMmc!Taken(dw) EXCEPT !.updating = FALSE]
  BY DEF ClockUnit, DwMmc!UnitTakes
<1>2. TypeOK /\ CallInv /\ PathInv /\ DwMmcInv /\ SetInv
  BY <1>1 DEF ControlInv
<1>3. /\ dw' \in DwMmc!Registers /\ dw'.ref = dw.ref /\ dw'.ddr = dw.ddr
      /\ dw'.ena = dw.ena /\ dw'.div = dw.div /\ ~dw'.updating
      /\ dw'.unit.ena = dw.ena /\ dw'.unit.div = dw.div
  BY <1>1, <1>2, TakenWrite DEF TypeOK
<1>4. ~Running
  BY <1>1 DEF Running
<1>5. TypeOK'
  BY <1>1, <1>2, <1>3 DEF TypeOK, ChannelTypeOK, Sdhci!Registers
<1>6. CallInv'
  BY <1>1, <1>2 DEF CallInv
<1>7. PathInv'
  BY <1>1, <1>2, <1>4 DEF PathInv
<1>8. DwMmcInv'
  <2>1. Target' = Target
    BY <1>1 DEF Target
  <2> QED
    BY <1>1, <1>2, <1>3, <2>1 DEF DwMmcInv, Divisible
<1>9. SetInv'
  BY <1>1, <1>2, <1>4 DEF SetInv, IsSet
<1> QED
  BY <1>1, <1>5, <1>6, <1>7, <1>8, <1>9 DEF ControlInv

\* No step of the system breaks the invariant.
LEMMA ControlSteps == ControlInv /\ [Next]_vars => ControlInv'
<1> SUFFICES ASSUME ControlInv, [Next]_vars PROVE ControlInv'
  OBVIOUS
<1>1. CASE PowerUp \/ CallInit \/ TakeAnswer
  BY <1>1, CallerControl
<1>2. CASE Controller
  <2>1. CASE backend = "Sdhci" /\ Sdhci!Step
    BY <1>2, <2>1, SdhciControl
  <2>2. CASE backend = "DwMmc" /\ DwMmc!Step
    BY <1>2, <2>2, DwMmcControl
  <2>3. CASE Transmit
    BY <1>2, <2>3, TransmitControl
  <2> QED
    BY <1>2, <2>1, <2>2, <2>3 DEF Controller
<1>3. CASE ClockUnit
  BY <1>3, ClockUnitControl
<1>4. CASE UNCHANGED vars
  BY <1>4
     DEF vars, ControlInv, TypeOK, ChannelTypeOK, CallInv, PathInv, SdhciInv, DwMmcInv, SetInv,
         IsSet, Running, Clocked, Sdhci!Clocked, DwMmc!Clocked, Sdhci!Registers,
         DwMmc!Registers, Divisible, Target, Timing
<1> QED
  BY <1>1, <1>2, <1>3, <1>4 DEF Next

-----------------------------------------------------------------------------
(* The theorems.                                                           *)

\* The calls, the registers of the two controllers and what is noted of the
\* answers keep their types, and the call in progress, its step and the clock
\* registers fit together.
THEOREM ControlInvariant == Spec => []ControlInv
<1>1. Init => ControlInv
  BY InitControl
<1>2. ControlInv /\ [Next]_vars => ControlInv'
  BY ControlSteps
<1> QED
  BY <1>1, <1>2, PTL DEF Spec

\* The type invariant of the calls and of both controllers' registers.
THEOREM TypeCorrect == Spec => []TypeOK
<1>1. ControlInv => TypeOK
  BY DEF ControlInv
<1> QED
  BY <1>1, ControlInvariant, PTL

\* The clock on the card's pin never runs faster than the speed it is set for,
\* with every base clock that the capabilities register can hold and with every
\* reference that eight bits divide down to 400 kHz.
THEOREM NeverTooFastHolds ==
    ASSUME \A r \in RefHz : r <= 510 * Hz["Identification"]
    PROVE  Spec => []NeverTooFast
<1>1. ControlInv => NeverTooFast
  <2> SUFFICES ASSUME ControlInv, Clocked
               PROVE  \E s \in IF backend = "Sdhci" THEN {granted} ELSE requested :
                         Rate <= Hz[s]
    BY DEF NeverTooFast
  <2>1. backend \in {"Sdhci", "DwMmc"} /\ dw \in DwMmc!Registers
    BY BackendsAssumption DEF ControlInv, TypeOK
  <2>2. CASE backend = "Sdhci"
    <3>1. Divided(sd.ref, sd.clk.div) <= Hz[granted]
      BY <2>2 DEF ControlInv, SdhciInv, Clocked, Sdhci!Clocked
    <3>2. Rate = Divided(sd.ref, sd.clk.div)
      BY <2>2 DEF Rate, Sdhci!Rate, Divided, CeilDiv, Sdhci!Divided, Sdhci!CeilDiv
    <3> QED
      BY <2>2, <3>1, <3>2
  <2>3. CASE backend = "DwMmc"
    <3>1. Divisible
      BY <2>1 DEF Divisible, DwMmc!Registers
    <3>2. \E s \in requested : Divided(dw.ref, dw.unit.div) <= Hz[s]
      BY <2>3, <3>1 DEF ControlInv, DwMmcInv, Clocked, DwMmc!Clocked
    <3>3. Rate = Divided(dw.ref, dw.unit.div)
      BY <2>3 DEF Rate, DwMmc!Rate, Divided, CeilDiv, DwMmc!Divided, DwMmc!CeilDiv
    <3> QED
      BY <2>3, <3>2, <3>3
  <2> QED
    BY <2>1, <2>2, <2>3
<1> QED
  BY <1>1, ControlInvariant, PTL

\* After a set_clock that succeeded the card has a clock of at least half the
\* speed and the timing of the speed, whatever has been called since.
THEOREM GrantedMeansSetHolds == Spec => []GrantedMeansSet
<1>1. ControlInv => GrantedMeansSet
  <2> SUFFICES ASSUME ControlInv, pc \notin {"Down", "Dead"},
                      call.op \notin {"clock", "bring_up"}, ~refused
               PROVE  /\ Clocked
                      /\ IF backend = "Sdhci"
                         THEN /\ 2 * Sdhci!Rate > Hz[granted] \/ sd.clk.div = 0
                              /\ sd.highSpeed = (granted \notin {"Identification", "Default"})
                         ELSE /\ 2 * DwMmc!Rate > Hz[granted] \/ dw.unit.div = 0
                              /\ dw.ddr = (granted = "Ddr50")
    BY DEF GrantedMeansSet, Rate
  <2>1. IsSet
    BY DEF ControlInv, SetInv
  <2>2. Sdhci!Rate = Divided(sd.ref, sd.clk.div)
    BY DEF Sdhci!Rate, Divided, CeilDiv, Sdhci!Divided, Sdhci!CeilDiv
  <2>3. DwMmc!Rate = Divided(dw.ref, dw.unit.div)
    BY DEF DwMmc!Rate, Divided, CeilDiv, DwMmc!Divided, DwMmc!CeilDiv
  <2> QED
    BY <2>1, <2>2, <2>3 DEF IsSet, Enough, Running
<1> QED
  BY <1>1, ControlInvariant, PTL

\* The frequency of the card's clock changes only while the clock is stopped,
\* even by an update that the driver no longer waits for.
THEOREM NoGlitchHolds == Spec => NoGlitch
<1> DEFINE Steady == (Clocked /\ Clocked') => Rate' = Rate
<1>1. ASSUME ControlInv, [Next]_vars PROVE Steady
  <2>1. /\ Clocked <=> IF backend = "Sdhci" THEN sd.clk.internal /\ sd.clk.enable
                      ELSE dw.unit.ena
        /\ Rate = IF backend = "Sdhci" THEN Divided(sd.ref, sd.clk.div)
                  ELSE Divided(dw.ref, dw.unit.div)
    BY DEF Clocked, Sdhci!Clocked, DwMmc!Clocked, Rate, Sdhci!Rate, DwMmc!Rate, Divided,
           CeilDiv, Sdhci!Divided, Sdhci!CeilDiv, DwMmc!Divided, DwMmc!CeilDiv
  <2>2. /\ Clocked' <=> IF backend' = "Sdhci" THEN sd'.clk.internal /\ sd'.clk.enable
                       ELSE dw'.unit.ena
        /\ Rate' = IF backend' = "Sdhci" THEN Divided(sd'.ref, sd'.clk.div)
                   ELSE Divided(dw'.ref, dw'.unit.div)
    BY DEF Clocked, Sdhci!Clocked, DwMmc!Clocked, Rate, Sdhci!Rate, DwMmc!Rate, Divided,
           CeilDiv, Sdhci!Divided, Sdhci!CeilDiv, DwMmc!Divided, DwMmc!CeilDiv
  <2>3. CASE UNCHANGED <<sd, dw, backend>>
    BY <2>1, <2>2, <2>3
  <2>4. ASSUME backend = "Sdhci", Sdhci!Step, Controller PROVE Steady
    <3>1. backend' = backend
      BY <2>4 DEF Controller
    <3>2. SdhciEffect
      BY <1>1, <2>4, SdhciEffects
    <3>3. \/ UNCHANGED <<sd.ref, sd.clk.div>>
          \/ ~sd.clk.enable
          \/ ~sd'.clk.enable
      BY <3>2
         DEF SdhciEffect, Undisturbed, Programmed, Called, Unhelped, Refused, LetOut,
             SameClock, SameSource
    <3> QED
      BY <2>1, <2>2, <2>4, <3>1, <3>3
  <2>5. ASSUME backend = "DwMmc", DwMmc!Step, Controller PROVE Steady
    <3>1. backend' = backend
      BY <2>5 DEF Controller
    <3>2. DwMmcEffect
      BY <1>1, <2>5, DwMmcEffects
    <3>3. dw'.ref = dw.ref /\ (dw'.unit = dw.unit \/ ~dw'.unit.ena)
      BY <3>2
         DEF DwMmcEffect, Finished, ResetFails, Gated, Divides, LetsOut, Grants, Kept, Written
    <3> QED
      BY <2>1, <2>2, <2>5, <3>1, <3>3
  <2>6. ASSUME ClockUnit PROVE Steady
    <3>1. /\ backend = "DwMmc" /\ backend' = backend
          /\ dw' = [DwMmc!Taken(dw) EXCEPT !.updating = FALSE]
      BY <2>6 DEF ClockUnit, DwMmc!UnitTakes
    <3>2. /\ dw \in DwMmc!Registers
          /\ dw.ena => dw.unit.div = dw.div
      BY <1>1, <3>1 DEF ControlInv, TypeOK, DwMmcInv
    <3>3. dw'.ref = dw.ref /\ dw'.unit.ena = dw.ena /\ dw'.unit.div = dw.div
      BY <3>1, <3>2, TakenWrite
    <3> QED
      BY <2>1, <2>2, <3>1, <3>2, <3>3
  <2>7. Transmit /\ Controller => UNCHANGED <<sd, dw, backend>>
    BY DEF Transmit, Controller
  <2>8. PowerUp \/ CallInit \/ TakeAnswer \/ UNCHANGED vars => UNCHANGED <<sd, dw, backend>>
    BY DEF PowerUp, CallInit, TakeAnswer, vars
  <2> QED
    BY <1>1, <2>3, <2>4, <2>5, <2>6, <2>7, <2>8 DEF Next, Controller
<1> QED
  BY <1>1, ControlInvariant, PTL DEF Spec, NoGlitch

\* The voltage is changed only while the clock runs: its switch never starts a
\* clock that a failed set_clock left stopped.
THEOREM NoRevivalHolds == Spec => NoRevival
<1>1. ASSUME ControlInv, Asked("voltage") PROVE Clocked
  <2>1. call.op = "voltage" /\ TypeOK /\ CallInv /\ PathInv
    BY <1>1 DEF Asked, ControlInv
  <2>2. pc \in Lit
    BY <2>1, CallKnown DEF Fitting
  <2> QED
    BY <2>1, <2>2 DEF PathInv, Running
<1>2. ASSUME ControlInv, [Next]_vars
      PROVE  [(Asked("voltage") /\ ~Clocked) => ~Clocked']_vars
  BY <1>1, <1>2
<1> QED
  BY <1>2, ControlInvariant, PTL DEF Spec, NoRevival
=============================================================================
