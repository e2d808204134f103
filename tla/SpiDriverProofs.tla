-------------------------- MODULE SpiDriverProofs --------------------------
(***************************************************************************)
(* Proofs about SpiDriver, for every set of cards, of addresses and of     *)
(* faults, every size of card and block, and every bound.                  *)
(***************************************************************************)
EXTENDS SpiDriver, TLAPS

-----------------------------------------------------------------------------
(* What holds at every step.                                               *)

InitPcs == {"Cmd0", "Cmd8", "Cmd55", "Acmd41", "Cmd58", "Cmd9", "Cmd10", "Cmd16"}

\* A step belongs to the call it is a step of.
CallInv ==
    /\ pc = "Idle" <=> result # "running"
    /\ result = "none" => op.kind = "init"
    /\ pc \in InitPcs => op.kind = "init" /\ ~trusted
    /\ pc = "Cmd6" => op.kind = "switch"
    /\ pc = "ReadCommand" => op.kind \in ReadKinds
    /\ pc = "ReadData" => op.kind \in ReadKinds \cup {"switch"}
    /\ pc = "Cmd12" => op.kind = "readBlocks"
    /\ pc \in {"WriteCommand", "WriteData", "Busy"} => op.kind \in WriteKinds
    /\ pc = "StopTran" => op.kind = "writeBlocks"

\* How far a call has come, where it matters: at every step, the blocks moved.
MovedInv ==
    /\ op.kind \in {"readBlock", "writeBlock", "switch"} => op.count = 1
    /\ op.kind = "init" => op.count = 0
    /\ op.kind \in WriteKinds => op.count = Len(op.data)
    /\ pc \in {"ReadCommand", "WriteCommand", "Cmd6"} => moved = <<>>
    /\ pc \in {"ReadData", "WriteData"} => Len(moved) < op.count
    /\ pc \in {"Cmd12", "StopTran"} => Len(moved) = op.count
    /\ pc = "Busy" => Len(moved) > 0

\* The states in which an init can find the card it has reset.
ResetInv ==
    /\ pc \in {"Cmd8", "Cmd55", "Acmd41", "Cmd58", "Cmd9"} =>
          dev.state \in {"idle", "tran", "busy", "rcv"}
    /\ pc = "Cmd10" => dev.state = "tran"
    /\ pc = "Cmd16" => dev.state \in {"tran", "status"}

\* What a card can be doing while no call has failed since init.
Expectable ==
    CASE pc = "Idle" -> IF IsBlockCall THEN {"tran"} ELSE {"tran", "status"}
      [] pc = "ReadData" -> {"tran", IF op.kind = "switch" THEN "status" ELSE "data"}
      [] pc = "Cmd12" -> {"tran", "data"}
      [] pc = "WriteData" -> {"tran", "rcv"}
      [] pc = "Busy" -> {"busy", IF op.kind \in Multi THEN "rcv" ELSE "tran"}
      [] pc = "StopTran" -> {"tran", "rcv"}
      [] OTHER -> {"tran", "status"}

\* A stream of several blocks is open only in a data phase.
Closes(d) == d.multi => d.state \in {"data", "rcv", "busy"}
MultiInv == Closes(dev)

Open == dev.state \in {"data", "rcv", "busy"}

\* The card is where the call needs it: open for just this call and at the block
\* that is moved next.
InPlace ==
    /\ dev.state \in Expectable
    /\ pc = "Idle" => result = "ok" /\ (IsBlockCall => cs = Released)
    /\ Open => (dev.multi <=> op.kind \in Multi)
    /\ Open /\ drv.highCapacity = card.ccs => dev.block = op.first + Len(moved)

\* As long as no call has failed the card is in its place.
TrustInv == trusted => InPlace

SpiInv == TypeOK /\ CallInv /\ MovedInv /\ ResetInv /\ MultiInv /\ TrustInv
-----------------------------------------------------------------------------
(* The card.                                                               *)

\* What integer division is.
LEMMA Division ==
    ASSUME NEW a \in Nat, NEW b \in Nat \ {0}
    PROVE  /\ a \div b \in Nat
           /\ b * (a \div b) <= a /\ a < b * (a \div b) + b
OBVIOUS

\* A card finds some block number at every address.
LEMMA SelectedType == ASSUME NEW wire \in Nat PROVE Selected(wire) \in Nat
BY Division, SizesAssumption DEF Selected

\* A byte address that was made of a block address leads back to it.
LEMMA ByteAddress == ASSUME NEW addr \in Nat PROVE (addr * BlockLen) \div BlockLen = addr
<1> DEFINE a == addr * BlockLen
           q == a \div BlockLen
<1>0. BlockLen \in Nat \ {0}
  BY SizesAssumption
<1>1. a \in Nat
  BY <1>0
<1>2. q \in Nat /\ BlockLen * q <= a /\ a < BlockLen * q + BlockLen
  BY <1>0, <1>1, Division
<1> HIDE DEF q
<1>3. ASSUME q >= addr + 1 PROVE FALSE
  <2>1. BlockLen * q >= BlockLen * (addr + 1)
    BY <1>0, <1>2, <1>3
  <2> QED
    BY <1>0, <1>2, <2>1
<1>4. ASSUME q + 1 <= addr PROVE FALSE
  <2>1. BlockLen * (q + 1) <= BlockLen * addr
    BY <1>0, <1>2, <1>4
  <2> QED
    BY <1>0, <1>2, <2>1
<1> QED
  BY <1>2, <1>3, <1>4 DEF q

\* A driver that addresses the card the way this card wants it gets the block
\* it asks for.
LEMMA Addressing ==
    ASSUME TypeOK
    PROVE  /\ BlockAddrOf(op.first) \in Nat
           /\ Selected(BlockAddrOf(op.first)) \in Nat
           /\ drv.highCapacity = card.ccs => Selected(BlockAddrOf(op.first)) = op.first
<1>1. op.first \in Nat /\ drv.highCapacity \in BOOLEAN /\ card.ccs \in BOOLEAN
  BY CardsAssumption DEF TypeOK, Operation, Driver, CardType
<1>2. BlockAddrOf(op.first) \in Nat
  BY <1>1, SizesAssumption DEF BlockAddrOf
<1> QED
  BY <1>1, <1>2, SelectedType, ByteAddress DEF BlockAddrOf, Selected

\* What the card becomes: well-formed, and a stream of several blocks is open
\* only in the states of a data phase.
LEMMA Becomes ==
    ASSUME TypeOK
    PROVE  /\ \A s \in CardStates :
                 /\ Do(s) \in Device
                 /\ Do(s).state = s /\ ~Do(s).multi
           /\ \A s \in CardStates :
                 /\ [Do(s) EXCEPT !.highSpeed = FALSE] \in Device
                 /\ [Do(s) EXCEPT !.highSpeed = FALSE].state = s
                 /\ ~[Do(s) EXCEPT !.highSpeed = FALSE].multi
           /\ \A s \in CardStates :
                 /\ [Do(s) EXCEPT !.highSpeed = card.highSpeed] \in Device
                 /\ [Do(s) EXCEPT !.highSpeed = card.highSpeed].state = s
                 /\ ~[Do(s) EXCEPT !.highSpeed = card.highSpeed].multi
           /\ \A s \in CardStates :
                 /\ Start(s) \in Device
                 /\ Start(s).state = s /\ Start(s).multi = (op.kind \in Multi)
                 /\ Start(s).block = Selected(BlockAddrOf(op.first))
<1> card.highSpeed \in BOOLEAN /\ dev \in Device
  BY CardsAssumption DEF TypeOK, CardType
<1>1. \A s \in CardStates : Do(s) \in Device /\ Do(s).state = s /\ ~Do(s).multi
  BY DEF Do, Device
<1>2. \A s \in CardStates, b \in BOOLEAN :
         /\ [Do(s) EXCEPT !.highSpeed = b] \in Device
         /\ [Do(s) EXCEPT !.highSpeed = b].state = s
         /\ ~[Do(s) EXCEPT !.highSpeed = b].multi
  <2> SUFFICES ASSUME NEW s \in CardStates, NEW b \in BOOLEAN
               PROVE  LET d == [Do(s) EXCEPT !.highSpeed = b]
                      IN  d \in Device /\ d.state = s /\ ~d.multi
    OBVIOUS
  <2> DEFINE e == Do(s)
  <2>1. e \in Device /\ e.state = s /\ ~e.multi
    BY <1>1
  <2> HIDE DEF e
  <2>2. LET d == [e EXCEPT !.highSpeed = b] IN d \in Device /\ d.state = s /\ ~d.multi
    BY <2>1 DEF Device
  <2> QED
    BY <2>2 DEF e
<1>3. \A s \in CardStates :
         /\ Start(s) \in Device
         /\ Start(s).state = s /\ Start(s).multi = (op.kind \in Multi)
         /\ Start(s).block = Selected(BlockAddrOf(op.first))
  <2> DEFINE block == Selected(BlockAddrOf(op.first))
             multi == op.kind \in Multi
  <2>1. block \in Nat /\ multi \in BOOLEAN
    BY Addressing
  <2> HIDE DEF block, multi
  <2>2. \A s \in CardStates :
           LET d == [dev EXCEPT !.state = s, !.multi = multi, !.block = block]
           IN  d \in Device /\ d.state = s /\ d.multi = multi /\ d.block = block
    BY <2>1 DEF Device
  <2> QED
    BY <2>2 DEF Start, block, multi
<1> QED
  BY <1>1, <1>2, <1>3

\* How the card goes on with what it is doing.
LEMMA GoesOn ==
    ASSUME TypeOK
    PROVE  /\ Drained \in Device /\ AfterBlock \in Device /\ AfterBusy \in Device
           /\ dev.multi => /\ Drained = dev
                           /\ AfterBlock.state = dev.state /\ AfterBlock.multi
                           /\ AfterBlock.block = dev.block + 1
                           /\ AfterBusy.state = "rcv" /\ AfterBusy.multi
                           /\ AfterBusy.block = dev.block
           /\ ~dev.multi => /\ Drained.state = "tran" /\ ~Drained.multi
                            /\ AfterBlock.state = "tran" /\ ~AfterBlock.multi
                            /\ AfterBusy.state = "tran" /\ ~AfterBusy.multi
<1>1. dev \in Device /\ "tran" \in CardStates
  BY DEF TypeOK, CardStates
<1>2. Do("tran") \in Device /\ Do("tran").state = "tran" /\ ~Do("tran").multi
  BY <1>1, Becomes
<1>3. LET d == [dev EXCEPT !.block = dev.block + 1]
      IN  d \in Device /\ d.state = dev.state /\ d.multi = dev.multi /\ d.block = dev.block + 1
  BY <1>1 DEF Device
<1>4. LET d == [dev EXCEPT !.state = "rcv"]
      IN  d \in Device /\ d.state = "rcv" /\ d.multi = dev.multi /\ d.block = dev.block
  BY <1>1 DEF Device, CardStates
<1> QED
  BY <1>1, <1>2, <1>3, <1>4 DEF Drained, AfterBlock, AfterBusy

-----------------------------------------------------------------------------
(* The steps of the driver.                                                *)

(* The three parts of TypeOK: control, the wire with the card, and data.   *)
ControlTyped == pc \in PcSet /\ result \in {"none", "running", "ok", "err"} /\ trusted \in BOOLEAN
WireTyped == cs \in BOOLEAN /\ wired \in BOOLEAN /\ (~wired => cs) /\ dev \in Device
DataTyped ==
    /\ op \in Operation
    /\ moved \in Seq(Delivered) /\ Len(moved) <= op.count
    /\ polls \in 0 .. InitPolls
    /\ calls \in Nat
    /\ drv \in Driver
    /\ card \in Cards
    /\ store \in [Blocks -> Data]

\* The parts make the whole.
LEMMA TypeFromParts == ControlTyped' /\ WireTyped' /\ DataTyped' => TypeOK'
BY DEF TypeOK, ControlTyped, WireTyped, DataTyped

\* However a call goes on, control keeps its type.
LEMMA Controls ==
    ASSUME TypeOK
    PROVE  /\ \A p \in PcSet : Goto(p) => ControlTyped'
           /\ Fail => ControlTyped'
           /\ Finish => ControlTyped'
BY DEF TypeOK, ControlTyped, Goto, Fail, Finish, PcSet

\* Nothing the driver does opens a stream outside of a data phase.
LEMMA StaysClosed ==
    ASSUME TypeOK, MultiInv
    PROVE  /\ Closes(dev) /\ Closes(Drained) /\ Closes(AfterBlock) /\ Closes(AfterBusy)
           /\ \A s \in CardStates :
                 /\ Closes(Do(s)) /\ Closes([Do(s) EXCEPT !.highSpeed = FALSE])
                 /\ Closes([Do(s) EXCEPT !.highSpeed = card.highSpeed])
           /\ Closes(Start("data")) /\ Closes(Start("rcv"))
<1>1. Closes(Start("data")) /\ Closes(Start("rcv"))
  BY Becomes DEF Closes, CardStates
<1>2. Closes(Drained) /\ Closes(AfterBlock) /\ Closes(AfterBusy)
  BY GoesOn DEF Closes, MultiInv, TypeOK, Device
<1>3. \A s \in CardStates : Closes(Do(s)) /\ Closes([Do(s) EXCEPT !.highSpeed = FALSE])
                            /\ Closes([Do(s) EXCEPT !.highSpeed = card.highSpeed])
  <2> SUFFICES ASSUME NEW s \in CardStates
               PROVE  Closes(Do(s)) /\ Closes([Do(s) EXCEPT !.highSpeed = FALSE])
                      /\ Closes([Do(s) EXCEPT !.highSpeed = card.highSpeed])
    OBVIOUS
  <2> DEFINE d == Do(s)
             e == [Do(s) EXCEPT !.highSpeed = FALSE]
             f == [Do(s) EXCEPT !.highSpeed = card.highSpeed]
  <2>1. ~d.multi /\ ~e.multi /\ ~f.multi
    BY Becomes
  <2> HIDE DEF d, e, f
  <2>2. Closes(d) /\ Closes(e) /\ Closes(f)
    BY <2>1 DEF Closes
  <2> QED
    BY <2>2 DEF d, e, f
<1> QED
  BY <1>1, <1>2, <1>3 DEF MultiInv

\* The reset of init.  A card that was too busy to hear it stays as it was.
LEMMA Cmd0Keeps == SpiInv /\ Cmd0 => SpiInv'
<1> SUFFICES ASSUME SpiInv, Cmd0 PROVE SpiInv'
  OBVIOUS
<1>0. TypeOK /\ CallInv /\ MovedInv /\ ResetInv /\ MultiInv /\ TrustInv
  BY DEF SpiInv
<1>c. op' = op /\ moved' = moved /\ pc = "Cmd0" /\ wired' = wired /\ card' = card
  BY DEF Cmd0
<1>o. Goto("Cmd8") \/ Fail
  BY DEF Cmd0
<1>1. ControlTyped'
  BY <1>0, <1>o, Controls DEF PcSet
<1>2. WireTyped'
  BY <1>0, Becomes DEF TypeOK, WireTyped, Released, CardStates, Cmd0
<1>3. DataTyped'
  BY <1>0 DEF TypeOK, DataTyped, Driver, Cmd0
<1>4. CallInv'
  BY <1>0, <1>c, <1>o DEF CallInv, InitPcs, Goto, Fail
<1>5. MovedInv'
  BY <1>0, <1>c, <1>o DEF MovedInv, Goto, Fail
<1>6. ResetInv'
  <2> DEFINE reset == [Do("idle") EXCEPT !.highSpeed = FALSE]
  <2>1. reset.state = "idle"
    BY <1>0, Becomes DEF CardStates
  <2> HIDE DEF reset
  <2>2. dev' = reset \/ dev' = dev
    BY DEF Cmd0, reset
  <2>3. Goto("Cmd8") => dev' = reset \/ dev.state = "busy" \/ Listening
    BY DEF Cmd0, reset, Goto, Fail
  <2> QED
    BY <1>o, <2>1, <2>2, <2>3 DEF ResetInv, Listening, Goto, Fail
<1>7. MultiInv'
  <2>1. Closes(dev')
    BY <1>0, StaysClosed DEF CardStates, Cmd0
  <2> QED
    BY <2>1 DEF MultiInv, Closes
<1>8. TrustInv'
  BY <1>0, <1>c, <1>o DEF TrustInv, CallInv, InitPcs, Goto, Fail
<1> QED
  BY <1>1, <1>2, <1>3, <1>4, <1>5, <1>6, <1>7, <1>8, TypeFromParts DEF SpiInv

\* The interface condition of init, with and without an answer.
LEMMA Cmd8Keeps == SpiInv /\ Cmd8 => SpiInv'
<1> SUFFICES ASSUME SpiInv, Cmd8 PROVE SpiInv'
  OBVIOUS
<1>0. TypeOK /\ CallInv /\ MovedInv /\ ResetInv /\ MultiInv /\ TrustInv
  BY DEF SpiInv
<1>c. op' = op /\ moved' = moved /\ pc = "Cmd8" /\ wired' = wired /\ card' = card
  BY DEF Cmd8
<1>o. Goto("Cmd55") \/ Fail
  BY DEF Cmd8
<1>1. ControlTyped'
  BY <1>0, <1>o, Controls DEF PcSet
<1>2. WireTyped'
  BY <1>0, GoesOn DEF TypeOK, WireTyped, Released, Cmd8
<1>3. DataTyped'
  BY <1>0 DEF TypeOK, DataTyped, Driver, Cmd8
<1>4. CallInv'
  BY <1>0, <1>c, <1>o DEF CallInv, InitPcs, Goto, Fail
<1>5. MovedInv'
  BY <1>0, <1>c, <1>o DEF MovedInv, Goto, Fail
<1>6. ResetInv'
  BY <1>0 DEF ResetInv, Sending, Cmd8, Goto, Fail
<1>7. MultiInv'
  <2>1. Closes(dev')
    BY <1>0, StaysClosed DEF CardStates, Cmd8
  <2> QED
    BY <2>1 DEF MultiInv, Closes
<1>8. TrustInv'
  BY <1>0, <1>c, <1>o DEF TrustInv, CallInv, InitPcs, Goto, Fail
<1> QED
  BY <1>1, <1>2, <1>3, <1>4, <1>5, <1>6, <1>7, <1>8, TypeFromParts DEF SpiInv

\* The prefix of ACMD41.
LEMMA Cmd55Keeps == SpiInv /\ Cmd55 => SpiInv'
<1> SUFFICES ASSUME SpiInv, Cmd55 PROVE SpiInv'
  OBVIOUS
<1>0. TypeOK /\ CallInv /\ MovedInv /\ ResetInv /\ MultiInv /\ TrustInv
  BY DEF SpiInv
<1>c. op' = op /\ moved' = moved /\ pc = "Cmd55" /\ wired' = wired /\ card' = card
  BY DEF Cmd55
<1>o. Goto("Acmd41") \/ Fail
  BY DEF Cmd55, Command
<1>1. ControlTyped'
  BY <1>0, <1>o, Controls DEF PcSet
<1>2. WireTyped'
  BY <1>0, GoesOn DEF TypeOK, WireTyped, Released, Cmd55, Command
<1>3. DataTyped'
  BY <1>0 DEF TypeOK, DataTyped, Cmd55
<1>4. CallInv'
  BY <1>0, <1>c, <1>o DEF CallInv, InitPcs, Goto, Fail
<1>5. MovedInv'
  BY <1>0, <1>c, <1>o DEF MovedInv, Goto, Fail
<1>6. ResetInv'
  BY <1>0, GoesOn DEF ResetInv, Cmd55, Goto, Fail, Command
<1>7. MultiInv'
  <2>1. Closes(dev')
    BY <1>0, StaysClosed DEF CardStates, Cmd55, Command
  <2> QED
    BY <2>1 DEF MultiInv, Closes
<1>8. TrustInv'
  BY <1>0, <1>c, <1>o DEF TrustInv, CallInv, InitPcs, Goto, Fail
<1> QED
  BY <1>1, <1>2, <1>3, <1>4, <1>5, <1>6, <1>7, <1>8, TypeFromParts DEF SpiInv

\* A turn of the loop that waits for the card.
LEMMA Acmd41Keeps == SpiInv /\ Acmd41 => SpiInv'
<1> SUFFICES ASSUME SpiInv, Acmd41 PROVE SpiInv'
  OBVIOUS
<1>0. TypeOK /\ CallInv /\ MovedInv /\ ResetInv /\ MultiInv /\ TrustInv
  BY DEF SpiInv
<1>c. op' = op /\ moved' = moved /\ pc = "Acmd41" /\ wired' = wired /\ card' = card
  BY DEF Acmd41
<1>o. Goto("Cmd55") \/ Goto("Cmd58") \/ Fail
  BY DEF Acmd41, Command, Poll
<1>1. ControlTyped'
  BY <1>0, <1>o, Controls DEF PcSet
<1>2. WireTyped'
  BY <1>0, Becomes, GoesOn DEF TypeOK, WireTyped, Released, CardStates, Acmd41, Command
<1>3. DataTyped'
  <2>1. polls' = polls \/ (polls < InitPolls /\ polls' = polls + 1)
    BY <1>0, BoundsAssumption DEF Acmd41, Command, Poll, TypeOK
  <2>2. polls' \in 0 .. InitPolls
    BY <1>0, <2>1, BoundsAssumption DEF TypeOK
  <2> QED
    BY <1>0, <2>2 DEF TypeOK, DataTyped, Acmd41
<1>4. CallInv'
  BY <1>0, <1>c, <1>o DEF CallInv, InitPcs, Goto, Fail
<1>5. MovedInv'
  BY <1>0, <1>c, <1>o DEF MovedInv, Goto, Fail
<1>6. ResetInv'
  BY <1>0, Becomes, GoesOn DEF ResetInv, CardStates, Acmd41, Goto, Fail, Command, Poll
<1>7. MultiInv'
  <2>1. Closes(dev')
    BY <1>0, StaysClosed DEF CardStates, Acmd41, Command
  <2> QED
    BY <2>1 DEF MultiInv, Closes
<1>8. TrustInv'
  BY <1>0, <1>c, <1>o DEF TrustInv, CallInv, InitPcs, Goto, Fail
<1> QED
  BY <1>1, <1>2, <1>3, <1>4, <1>5, <1>6, <1>7, <1>8, TypeFromParts DEF SpiInv

\* The OCR, and the addressing mode that init makes of it.
LEMMA Cmd58Keeps == SpiInv /\ Cmd58 => SpiInv'
<1> SUFFICES ASSUME SpiInv, Cmd58 PROVE SpiInv'
  OBVIOUS
<1>0. TypeOK /\ CallInv /\ MovedInv /\ ResetInv /\ MultiInv /\ TrustInv
  BY DEF SpiInv
<1>c. op' = op /\ moved' = moved /\ pc = "Cmd58" /\ wired' = wired /\ card' = card
  BY DEF Cmd58
<1>o. Goto("Cmd9") \/ Fail
  BY DEF Cmd58, Command, OcrCcs
<1>1. ControlTyped'
  BY <1>0, <1>o, Controls DEF PcSet
<1>2. WireTyped'
  BY <1>0, GoesOn DEF TypeOK, WireTyped, Released, Cmd58, Command
<1>3. DataTyped'
  BY <1>0 DEF TypeOK, DataTyped, Driver, Cmd58, Command
<1>4. CallInv'
  BY <1>0, <1>c, <1>o DEF CallInv, InitPcs, Goto, Fail
<1>5. MovedInv'
  BY <1>0, <1>c, <1>o DEF MovedInv, Goto, Fail
<1>6. ResetInv'
  BY <1>0, GoesOn DEF ResetInv, Cmd58, Goto, Fail, Command
<1>7. MultiInv'
  <2>1. Closes(dev')
    BY <1>0, StaysClosed DEF Cmd58, Command
  <2> QED
    BY <2>1 DEF MultiInv, Closes
<1>8. TrustInv'
  BY <1>0, <1>c, <1>o DEF TrustInv, CallInv, InitPcs, Goto, Fail
<1> QED
  BY <1>1, <1>2, <1>3, <1>4, <1>5, <1>6, <1>7, <1>8, TypeFromParts DEF SpiInv

\* The CSD.  When init has read it, the card is in the transfer state.
LEMMA Cmd9Keeps == SpiInv /\ Cmd9 => SpiInv'
<1> SUFFICES ASSUME SpiInv, Cmd9 PROVE SpiInv'
  OBVIOUS
<1>0. TypeOK /\ CallInv /\ MovedInv /\ ResetInv /\ MultiInv /\ TrustInv
  BY DEF SpiInv
<1>c. op' = op /\ moved' = moved /\ pc = "Cmd9" /\ wired' = wired /\ card' = card
  BY DEF Cmd9
<1>o. Goto("Cmd10") \/ Fail
  BY DEF Cmd9, Register
<1>1. ControlTyped'
  BY <1>0, <1>o, Controls DEF PcSet
<1>2. WireTyped'
  BY <1>0, Becomes, GoesOn DEF TypeOK, WireTyped, Released, CardStates, Cmd9, Register
<1>3. DataTyped'
  BY <1>0 DEF TypeOK, DataTyped, Cmd9
<1>4. CallInv'
  BY <1>0, <1>c, <1>o DEF CallInv, InitPcs, Goto, Fail
<1>5. MovedInv'
  BY <1>0, <1>c, <1>o DEF MovedInv, Goto, Fail
<1>6. ResetInv'
  BY <1>0 DEF ResetInv, Sending, Cmd9, Fail, Register
<1>7. MultiInv'
  <2>1. Closes(dev')
    BY <1>0, StaysClosed DEF CardStates, Cmd9, Register
  <2> QED
    BY <2>1 DEF MultiInv, Closes
<1>8. TrustInv'
  BY <1>0, <1>c, <1>o DEF TrustInv, CallInv, InitPcs, Goto, Fail
<1> QED
  BY <1>1, <1>2, <1>3, <1>4, <1>5, <1>6, <1>7, <1>8, TypeFromParts DEF SpiInv

\* The CID, whose errors are swallowed: the card may be left sending it.
LEMMA Cmd10Keeps == SpiInv /\ Cmd10 => SpiInv'
<1> SUFFICES ASSUME SpiInv, Cmd10 PROVE SpiInv'
  OBVIOUS
<1>0. TypeOK /\ CallInv /\ MovedInv /\ ResetInv /\ MultiInv /\ TrustInv
  BY DEF SpiInv
<1>c. op' = op /\ moved' = moved /\ pc = "Cmd10" /\ wired' = wired /\ card' = card
  BY DEF Cmd10
<1>o. Goto("Cmd16") \/ Finish
  BY DEF Cmd10, Register
<1>1. ControlTyped'
  BY <1>0, <1>o, Controls DEF PcSet
<1>2. WireTyped'
  BY <1>0, Becomes, GoesOn DEF TypeOK, WireTyped, Released, CardStates, Cmd10, Register
<1>3. DataTyped'
  BY <1>0 DEF TypeOK, DataTyped, Cmd10
<1>4. CallInv'
  BY <1>0, <1>c, <1>o DEF CallInv, InitPcs, Goto, Finish
<1>5. MovedInv'
  BY <1>0, <1>c, <1>o DEF MovedInv, Goto, Finish
<1>6. ResetInv'
  BY <1>0, Becomes, GoesOn DEF ResetInv, CardStates, Cmd10, Goto, Finish, Register
<1>7. MultiInv'
  <2>1. Closes(dev')
    BY <1>0, StaysClosed DEF CardStates, Cmd10, Register
  <2> QED
    BY <2>1 DEF MultiInv, Closes
<1>8. TrustInv'
  <2>1. dev.state = "tran"
    BY <1>0, <1>c DEF ResetInv
  <2>2. dev'.state \in {"tran", "status"}
    BY <1>0, <2>1, Becomes, GoesOn DEF Cmd10, Register, CardStates
  <2> QED
    BY <1>0, <1>c, <1>o, <2>2
      DEF TrustInv, InPlace, CallInv, InitPcs, Expectable, IsBlockCall, ReadKinds,
        WriteKinds, Open, Goto, Finish
<1> QED
  BY <1>1, <1>2, <1>3, <1>4, <1>5, <1>6, <1>7, <1>8, TypeFromParts DEF SpiInv

\* The block length.  A card that was sending the CID takes it for noise and stops.
LEMMA Cmd16Keeps == SpiInv /\ Cmd16 => SpiInv'
<1> SUFFICES ASSUME SpiInv, Cmd16 PROVE SpiInv'
  OBVIOUS
<1>0. TypeOK /\ CallInv /\ MovedInv /\ ResetInv /\ MultiInv /\ TrustInv
  BY DEF SpiInv
<1>c. op' = op /\ moved' = moved /\ pc = "Cmd16" /\ wired' = wired /\ card' = card
  BY DEF Cmd16
<1>o. Finish \/ Fail
  BY DEF Cmd16, Command
<1>1. ControlTyped'
  BY <1>0, <1>o, Controls DEF PcSet
<1>2. WireTyped'
  BY <1>0, GoesOn DEF TypeOK, WireTyped, Released, Cmd16, Command
<1>3. DataTyped'
  BY <1>0 DEF TypeOK, DataTyped, Cmd16
<1>4. CallInv'
  BY <1>o DEF CallInv, InitPcs, Fail, Finish
<1>5. MovedInv'
  BY <1>0, <1>c, <1>o DEF MovedInv, Fail, Finish
<1>6. ResetInv'
  BY <1>0, GoesOn DEF ResetInv, Listening, MultiInv, Closes, Cmd16, Fail, Command
<1>7. MultiInv'
  <2>1. Closes(dev')
    BY <1>0, StaysClosed DEF CardStates, Cmd16, Command
  <2> QED
    BY <2>1 DEF MultiInv, Closes
<1>8. TrustInv'
  <2>1. dev.state \in {"tran", "status"}
    BY <1>0, <1>c DEF ResetInv
  <2>2. dev'.state \in {"tran", "status"}
    BY <1>0, <2>1, GoesOn DEF Cmd16, Command
  <2> QED
    BY <1>0, <1>c, <1>o, <2>2
      DEF TrustInv, InPlace, CallInv, InitPcs, Expectable, IsBlockCall, ReadKinds,
        WriteKinds, Open, Fail, Finish
<1> QED
  BY <1>1, <1>2, <1>3, <1>4, <1>5, <1>6, <1>7, <1>8, TypeFromParts DEF SpiInv

\* A read opens a stream at the block that was asked for, or the card refuses.
LEMMA ReadCommandKeeps == SpiInv /\ ReadCommand => SpiInv'
<1> SUFFICES ASSUME SpiInv, ReadCommand PROVE SpiInv'
  OBVIOUS
<1>0. TypeOK /\ CallInv /\ MovedInv /\ ResetInv /\ MultiInv /\ TrustInv
  BY DEF SpiInv
<1>c. op' = op /\ moved' = moved /\ pc = "ReadCommand" /\ wired' = wired /\ card' = card
  BY DEF ReadCommand
<1>o. \/ op.count = 0 /\ Goto("Cmd12")
      \/ op.count # 0 /\ Goto("ReadData")
      \/ Fail
  BY DEF ReadCommand, Command
<1>1. ControlTyped'
  BY <1>0, <1>o, Controls DEF PcSet
<1>2. WireTyped'
  BY <1>0, Becomes, GoesOn DEF TypeOK, WireTyped, CardStates, ReadCommand, Command
<1>3. DataTyped'
  BY <1>0 DEF TypeOK, DataTyped, ReadCommand
<1>4. CallInv'
  BY <1>0, <1>c, <1>o DEF CallInv, MovedInv, InitPcs, ReadKinds, Goto, Fail
<1>5. MovedInv'
  BY <1>0, <1>c, <1>o DEF MovedInv, TypeOK, Operation, Goto, Fail
<1>6. ResetInv'
  BY DEF ResetInv, ReadCommand, Goto, Fail, Command
<1>7. MultiInv'
  <2>1. Closes(dev')
    BY <1>0, StaysClosed DEF CardStates, ReadCommand, Command
  <2> QED
    BY <2>1 DEF MultiInv, Closes
<1>8. TrustInv'
  <2> SUFFICES ASSUME trusted' PROVE InPlace'
    BY DEF TrustInv
  <2>1. trusted /\ ~Fail
    BY <1>o DEF Goto, Fail
  <2>2. dev.state \in {"tran", "status"} /\ (dev.state = "status" => ~dev.multi)
    BY <1>0, <1>c, <2>1 DEF TrustInv, InPlace, Expectable, MultiInv, Closes
  <2>3. dev' = Start("data") \/ dev'.state = "tran"
    BY <1>0, <2>1, <2>2, GoesOn DEF ReadCommand, Command, Listening
  <2>4. /\ Open' => /\ dev'.multi <=> (op.kind \in Multi)
                  /\ dev'.block = Selected(BlockAddrOf(op.first))
        /\ dev'.state \in {"tran", "data"}
    BY <1>0, <2>3, Becomes DEF Open, CardStates
  <2>5. Len(moved) = 0 /\ op.first \in Nat
    BY <1>0, <1>c DEF MovedInv, TypeOK, Operation
  <2>6. drv' = drv /\ card' = card
    BY DEF ReadCommand
  <2> QED
    BY <1>0, <1>c, <1>o, <2>1, <2>4, <2>5, <2>6, Addressing
      DEF InPlace, Expectable, CallInv, Goto, ReadKinds
<1> QED
  BY <1>1, <1>2, <1>3, <1>4, <1>5, <1>6, <1>7, <1>8, TypeFromParts DEF SpiInv

\* A block that arrives is the one the call is waiting for.
LEMMA ContentType ==
    ASSUME SpiInv, Readable
    PROVE  Content \in Delivered
<1>1. TypeOK
  BY DEF SpiInv
<1>2. CASE op.kind = "switch"
  BY <1>2 DEF Content, Delivered
<1>3. CASE op.kind # "switch"
  <2>1. dev.block \in Blocks
    BY <1>3 DEF Readable, Expected
  <2> QED
    BY <1>1, <2>1 DEF Content, Delivered, TypeOK
<1> QED
  BY <1>2, <1>3

\* With it the call has its last block, or goes on.
LEMMA Accepts ==
    ASSUME SpiInv, pc = "ReadData", NEW content \in Delivered, Accept(content)
    PROVE  /\ moved' = Append(moved, content)
           /\ moved' \in Seq(Delivered) /\ Len(moved') = Len(moved) + 1
           /\ cs' = Released
           /\ \/ op.kind \notin Multi /\ Len(moved') = op.count /\ Finish
              \/ op.kind \in Multi /\ Len(moved') = op.count /\ Goto("Cmd12")
              \/ op.kind \in Multi /\ Len(moved') < op.count /\ Goto("ReadData")
<1>1. op.count \in Nat /\ moved \in Seq(Delivered) /\ Len(moved) \in Nat /\ Len(moved) < op.count
  BY DEF SpiInv, TypeOK, Operation, MovedInv
<1>2. op.kind \notin Multi => op.count = 1
  BY DEF SpiInv, MovedInv, CallInv, ReadKinds, Multi
<1>3. moved' = Append(moved, content)
  BY DEF Accept
<1>4. moved' \in Seq(Delivered) /\ Len(moved') = Len(moved) + 1
  BY <1>1, <1>3
<1> QED
  BY <1>1, <1>2, <1>3, <1>4 DEF Accept

\* A block is read, or the register of a switch: the stream goes on or ends.
LEMMA ReadDataKeeps == SpiInv /\ ReadData => SpiInv'
<1> SUFFICES ASSUME SpiInv, ReadData PROVE SpiInv'
  OBVIOUS
<1>0. TypeOK /\ CallInv /\ MovedInv /\ ResetInv /\ MultiInv /\ TrustInv
  BY DEF SpiInv
<1>c. op' = op /\ pc = "ReadData" /\ wired' = wired /\ card' = card /\ drv' = drv
  BY DEF ReadData
<1>m. op.count \in Nat /\ moved \in Seq(Delivered) /\ Len(moved) \in Nat /\ Len(moved) < op.count
  BY <1>0, <1>c DEF TypeOK, Operation, MovedInv
<1>o. \/ /\ moved' \in Seq(Delivered) /\ Len(moved') = Len(moved) + 1
         /\ cs' = Released
         /\ \/ op.kind \notin Multi /\ Finish
            \/ op.kind \in Multi /\ Len(moved') = op.count /\ Goto("Cmd12")
            \/ op.kind \in Multi /\ Len(moved') < op.count /\ Goto("ReadData")
      \/ Fail /\ moved' = moved /\ cs' = cs
  <2>1. Garbage \in Delivered
    BY DEF Delivered
  <2> QED
    BY <1>c, <2>1, ContentType, Accepts DEF ReadData
<1>1. ControlTyped'
  BY <1>0, <1>o, Controls DEF PcSet
<1>2. WireTyped'
  <2>1. dev' \in Device
    BY <1>0, GoesOn DEF ReadData, TypeOK
  <2> QED
    BY <1>0, <1>c, <1>o, <2>1 DEF TypeOK, WireTyped, Released
<1>3. DataTyped'
  <2>1. polls' = polls /\ calls' = calls /\ store' = store
    BY DEF ReadData
  <2> QED
    BY <1>0, <1>c, <1>m, <1>o, <2>1 DEF TypeOK, DataTyped
<1>4. CallInv'
  BY <1>0, <1>c, <1>o DEF CallInv, InitPcs, ReadKinds, Multi, Goto, Fail, Finish
<1>5. MovedInv'
  BY <1>0, <1>c, <1>o DEF MovedInv, Goto, Fail, Finish
<1>6. ResetInv'
  BY <1>o DEF ResetInv, Goto, Fail, Finish
<1>7. MultiInv'
  <2>1. Closes(dev')
    BY <1>0, StaysClosed DEF ReadData
  <2> QED
    BY <2>1 DEF MultiInv, Closes
<1>8. TrustInv'
  <2> SUFFICES ASSUME trusted' PROVE InPlace'
    BY DEF TrustInv
  <2>1. trusted /\ ~Fail
    BY <1>0, <1>c, <1>o DEF CallInv, ReadKinds, Goto, Finish, Fail
  <2>2. InPlace /\ dev.state \in {"tran", IF op.kind = "switch" THEN "status" ELSE "data"}
    BY <1>0, <1>c, <2>1 DEF TrustInv, InPlace, Expectable
  <2>3. Sending /\ dev' = AfterBlock
    BY <2>1 DEF ReadData, Readable, Expected, Sending
  <2>4. dev.multi <=> (op.kind \in Multi)
    BY <1>0, <2>2, <2>3 DEF InPlace, Open, Sending, MultiInv, Closes, Multi
  <2>5. CASE op.kind \in Multi
    <3>1. dev'.state = "data" /\ dev'.multi /\ dev'.block = dev.block + 1
      BY <1>0, <2>2, <2>3, <2>4, <2>5, GoesOn DEF Sending, Multi
    <3>2. drv.highCapacity = card.ccs => dev.block = op.first + Len(moved)
      BY <2>2, <2>3, <2>5 DEF InPlace, Open, Sending, Multi
    <3>3. op.first \in Nat
      BY <1>0 DEF TypeOK, Operation
    <3>4. Len(moved') = Len(moved) + 1 /\ (Goto("Cmd12") \/ Goto("ReadData"))
      BY <1>o, <2>1, <2>5
    <3>5. dev'.state \in Expectable' /\ pc' # "Idle"
      BY <1>c, <2>5, <3>1, <3>4 DEF Expectable, Goto, Multi
    <3> QED
      BY <1>c, <2>5, <3>1, <3>2, <3>3, <3>4, <3>5 DEF InPlace
  <2>6. CASE op.kind \notin Multi
    <3>1. dev'.state = "tran"
      BY <1>0, <2>3, <2>4, <2>6, GoesOn
    <3> QED
      BY <1>c, <1>o, <2>1, <2>6, <3>1 DEF InPlace, Expectable, Open, Finish, Released
  <2> QED
    BY <2>5, <2>6
<1> QED
  BY <1>1, <1>2, <1>3, <1>4, <1>5, <1>6, <1>7, <1>8, TypeFromParts DEF SpiInv

\* The stop of a read: the card listens again.
LEMMA Cmd12Keeps == SpiInv /\ Cmd12 => SpiInv'
<1> SUFFICES ASSUME SpiInv, Cmd12 PROVE SpiInv'
  OBVIOUS
<1>0. TypeOK /\ CallInv /\ MovedInv /\ ResetInv /\ MultiInv /\ TrustInv
  BY DEF SpiInv
<1>c. op' = op /\ moved' = moved /\ pc = "Cmd12" /\ wired' = wired /\ card' = card
  BY DEF Cmd12
<1>o. Finish \/ Fail
  BY DEF Cmd12, Command
<1>1. ControlTyped'
  BY <1>0, <1>o, Controls DEF PcSet
<1>2. WireTyped'
  BY <1>0, Becomes DEF TypeOK, WireTyped, Released, CardStates, Cmd12, Command
<1>3. DataTyped'
  BY <1>0 DEF TypeOK, DataTyped, Cmd12
<1>4. CallInv'
  BY <1>o DEF CallInv, InitPcs, Fail, Finish
<1>5. MovedInv'
  BY <1>0, <1>c, <1>o DEF MovedInv, Fail, Finish
<1>6. ResetInv'
  BY DEF ResetInv, Cmd12, Fail, Finish, Command
<1>7. MultiInv'
  <2>1. Closes(dev')
    BY <1>0, StaysClosed DEF CardStates, Cmd12, Command
  <2> QED
    BY <2>1 DEF MultiInv, Closes
<1>8. TrustInv'
  <2> SUFFICES ASSUME trusted' PROVE InPlace'
    BY DEF TrustInv
  <2>1. trusted /\ ~Fail
    BY <1>0, <1>c, <1>o DEF CallInv, Finish, Fail
  <2>2. InPlace /\ dev.state \in {"tran", "data"}
    BY <1>0, <1>c, <2>1 DEF TrustInv, InPlace, Expectable
  <2>3. CASE Sending
    <3>1. dev' = Do("tran") /\ cs' = Released
      BY <2>1, <2>3 DEF Cmd12
    <3> QED
      BY <1>0, <1>c, <1>o, <2>1, <3>1, Becomes
        DEF InPlace, Expectable, Open, Finish, Released, CardStates
  <2>4. CASE ~Sending
    <3>1. dev' = dev /\ cs' = Released /\ dev.state = "tran"
      BY <2>1, <2>2, <2>4 DEF Cmd12, Command, Listening, Released
    <3> QED
      BY <1>c, <1>o, <2>1, <3>1 DEF InPlace, Expectable, Open, Finish, Released
  <2> QED
    BY <2>3, <2>4
<1> QED
  BY <1>1, <1>2, <1>3, <1>4, <1>5, <1>6, <1>7, <1>8, TypeFromParts DEF SpiInv

\* A write opens a stream at the block that was asked for, or the card refuses.
LEMMA WriteCommandKeeps == SpiInv /\ WriteCommand => SpiInv'
<1> SUFFICES ASSUME SpiInv, WriteCommand PROVE SpiInv'
  OBVIOUS
<1>0. TypeOK /\ CallInv /\ MovedInv /\ ResetInv /\ MultiInv /\ TrustInv
  BY DEF SpiInv
<1>c. op' = op /\ moved' = moved /\ pc = "WriteCommand" /\ wired' = wired /\ card' = card
  BY DEF WriteCommand
<1>o. \/ op.count = 0 /\ Goto("StopTran")
      \/ op.count # 0 /\ Goto("WriteData")
      \/ Fail
  BY DEF WriteCommand, Command
<1>1. ControlTyped'
  BY <1>0, <1>o, Controls DEF PcSet
<1>2. WireTyped'
  BY <1>0, Becomes, GoesOn
    DEF TypeOK, WireTyped, Released, CardStates, WriteCommand, Command
<1>3. DataTyped'
  BY <1>0 DEF TypeOK, DataTyped, WriteCommand
<1>4. CallInv'
  BY <1>0, <1>c, <1>o DEF CallInv, MovedInv, InitPcs, WriteKinds, Goto, Fail
<1>5. MovedInv'
  BY <1>0, <1>c, <1>o DEF CallInv, MovedInv, Goto, Fail
<1>6. ResetInv'
  BY DEF ResetInv, WriteCommand, Goto, Fail, Command
<1>7. MultiInv'
  <2>1. Closes(dev')
    BY <1>0, StaysClosed DEF CardStates, WriteCommand, Command
  <2> QED
    BY <2>1 DEF MultiInv, Closes
<1>8. TrustInv'
  <2> SUFFICES ASSUME trusted' PROVE InPlace'
    BY DEF TrustInv
  <2>1. trusted /\ ~Fail
    BY <1>o DEF Goto, Fail
  <2>2. dev.state \in {"tran", "status"} /\ (dev.state = "status" => ~dev.multi)
    BY <1>0, <1>c, <2>1 DEF TrustInv, InPlace, Expectable, MultiInv, Closes
  <2>3. dev' = Start("rcv") \/ dev'.state = "tran"
    BY <1>0, <2>1, <2>2, GoesOn DEF WriteCommand, Command, Listening
  <2>4. /\ Open' => /\ dev'.multi <=> (op.kind \in Multi)
                  /\ dev'.block = Selected(BlockAddrOf(op.first))
        /\ dev'.state \in {"tran", "rcv"}
    BY <1>0, <2>3, Becomes DEF Open, CardStates
  <2>5. Len(moved) = 0 /\ op.first \in Nat
    BY <1>0, <1>c DEF MovedInv, TypeOK, Operation
  <2>6. drv' = drv /\ card' = card
    BY DEF WriteCommand
  <2> QED
    BY <1>0, <1>c, <1>o, <2>1, <2>4, <2>5, <2>6, Addressing DEF InPlace, Expectable, Goto
<1> QED
  BY <1>1, <1>2, <1>3, <1>4, <1>5, <1>6, <1>7, <1>8, TypeFromParts DEF SpiInv

\* A block is written, or lost.
LEMMA WriteDataKeeps == SpiInv /\ WriteData => SpiInv'
<1> SUFFICES ASSUME SpiInv, WriteData PROVE SpiInv'
  OBVIOUS
<1>0. TypeOK /\ CallInv /\ MovedInv /\ ResetInv /\ MultiInv /\ TrustInv
  BY DEF SpiInv
<1>c. op' = op /\ pc = "WriteData" /\ wired' = wired /\ card' = card /\ drv' = drv /\ cs' = cs
  BY DEF WriteData
<1>m. op.count \in Nat /\ moved \in Seq(Delivered) /\ Len(moved) \in Nat /\ Len(moved) < op.count
  BY <1>0, <1>c DEF TypeOK, Operation, MovedInv
<1>s. Sent \in Data /\ Sent \in Delivered
  <2>1. op.data \in Seq(Data) /\ op.count = Len(op.data)
    BY <1>0, <1>c DEF TypeOK, Operation, MovedInv, CallInv
  <2>2. Len(moved) + 1 \in 1 .. Len(op.data)
    BY <1>m, <2>1
  <2>3. op.data[Len(moved) + 1] \in Data
    BY <2>1, <2>2
  <2> QED
    BY <2>3 DEF Sent, Delivered
<1> DEFINE written == [dev EXCEPT !.state = "busy", !.block = @ + 1]
           pushed == Append(moved, Sent)
<1>w. /\ written \in Device /\ written.state = "busy" /\ written.multi = dev.multi
      /\ written.block = dev.block + 1
  <2> DEFINE busy == [dev EXCEPT !.state = "busy"]
  <2>1. /\ busy \in Device /\ busy.state = "busy" /\ busy.multi = dev.multi
        /\ busy.block = dev.block
    BY <1>0 DEF TypeOK, Device, CardStates
  <2> HIDE DEF busy
  <2>2. LET d == [busy EXCEPT !.block = busy.block + 1]
        IN  d \in Device /\ d.state = "busy" /\ d.multi = dev.multi /\ d.block = dev.block + 1
    BY <2>1 DEF Device
  <2>3. written = [busy EXCEPT !.block = busy.block + 1]
    BY <2>1 DEF busy
  <2> QED
    BY <2>2, <2>3
<1>p. pushed \in Seq(Delivered) /\ Len(pushed) = Len(moved) + 1
  BY <1>m, <1>s
<1> HIDE DEF written, pushed
<1>o. \/ /\ dev.state = "rcv" /\ dev.block \in Blocks /\ dev' = written
         /\ store' = [store EXCEPT ![dev.block] = Sent]
         /\ moved' = pushed /\ (Goto("Busy") \/ Fail)
      \/ dev' \in {dev, Do("tran")} /\ store' = store /\ moved' = moved /\ Fail
      \/ Sending /\ dev' = Drained /\ store' = store /\ moved' = pushed /\ Goto("Busy")
  BY DEF WriteData, written, pushed
<1>1. ControlTyped'
  BY <1>0, <1>o, Controls DEF PcSet
<1>2. WireTyped'
  <2>1. dev' \in Device
    BY <1>0, <1>o, <1>w, Becomes, GoesOn DEF TypeOK, CardStates
  <2> QED
    BY <1>0, <1>c, <2>1 DEF TypeOK, WireTyped
<1>3. DataTyped'
  <2>1. polls' = polls /\ calls' = calls
    BY DEF WriteData
  <2>2. store' \in [Blocks -> Data]
    BY <1>0, <1>o, <1>s DEF TypeOK
  <2>3. moved' \in Seq(Delivered) /\ Len(moved') <= op.count
    BY <1>m, <1>o, <1>p
  <2> QED
    BY <1>0, <1>c, <2>1, <2>2, <2>3 DEF TypeOK, DataTyped
<1>4. CallInv'
  BY <1>0, <1>c, <1>o DEF CallInv, InitPcs, Goto, Fail
<1>5. MovedInv'
  BY <1>0, <1>c, <1>o, <1>p DEF MovedInv, Goto, Fail
<1>6. ResetInv'
  BY <1>o DEF ResetInv, Goto, Fail
<1>7. MultiInv'
  <2>1. Closes(written)
    BY <1>w DEF Closes
  <2>2. Closes(dev')
    BY <1>0, <1>o, <2>1, StaysClosed DEF CardStates
  <2> QED
    BY <2>2 DEF MultiInv, Closes
<1>8. TrustInv'
  <2> SUFFICES ASSUME trusted' PROVE InPlace'
    BY DEF TrustInv
  <2>1. trusted /\ ~Fail
    BY <1>o DEF Goto, Fail
  <2>2. InPlace /\ dev.state \in {"tran", "rcv"}
    BY <1>0, <1>c, <2>1 DEF TrustInv, InPlace, Expectable
  <2>3. dev.state = "rcv" /\ dev' = written /\ moved' = pushed /\ Goto("Busy")
    BY <1>o, <2>1, <2>2 DEF Sending
  <2>4. op.first \in Nat
    BY <1>0 DEF TypeOK, Operation
  <2>5. /\ pc' = "Busy" /\ dev'.state = "busy" /\ (dev'.multi <=> dev.multi)
        /\ dev'.block = dev.block + 1 /\ Len(moved') = Len(moved) + 1
    BY <1>p, <1>w, <2>3 DEF Goto
  <2>6. Expectable' = {"busy", IF op.kind \in Multi THEN "rcv" ELSE "tran"}
    BY <1>c, <2>5 DEF Expectable
  <2>7. (dev.multi <=> op.kind \in Multi) /\ (dev'.multi <=> op'.kind \in Multi)
    BY <1>c, <2>2, <2>3, <2>5 DEF InPlace, Open
  <2>8. drv.highCapacity = card.ccs => dev'.block = op.first + Len(moved')
    BY <1>m, <2>2, <2>3, <2>4, <2>5 DEF InPlace, Open
  <2> QED
    BY <1>c, <2>5, <2>6, <2>7, <2>8 DEF InPlace
<1> QED
  BY <1>1, <1>2, <1>3, <1>4, <1>5, <1>6, <1>7, <1>8, TypeFromParts DEF SpiInv

\* The wait after a block.
LEMMA BusyKeeps == SpiInv /\ Busy => SpiInv'
<1> SUFFICES ASSUME SpiInv, Busy PROVE SpiInv'
  OBVIOUS
<1>0. TypeOK /\ CallInv /\ MovedInv /\ ResetInv /\ MultiInv /\ TrustInv
  BY DEF SpiInv
<1>c. op' = op /\ moved' = moved /\ pc = "Busy" /\ wired' = wired /\ card' = card
  BY DEF Busy
<1>o. \/ op.kind = "writeBlock" /\ Finish
      \/ op.kind # "writeBlock" /\ Len(moved) = op.count /\ Goto("StopTran")
      \/ op.kind # "writeBlock" /\ Len(moved) # op.count /\ Goto("WriteData")
      \/ Fail
  BY DEF Busy
<1>1. ControlTyped'
  BY <1>0, <1>o, Controls DEF PcSet
<1>2. WireTyped'
  BY <1>0, GoesOn DEF TypeOK, WireTyped, Released, Busy
<1>3. DataTyped'
  BY <1>0 DEF TypeOK, DataTyped, Driver, Busy
<1>4. CallInv'
  BY <1>0, <1>c, <1>o DEF CallInv, InitPcs, WriteKinds, Goto, Fail, Finish
<1>5. MovedInv'
  BY <1>0, <1>c, <1>o DEF CallInv, MovedInv, TypeOK, Goto, Fail, Finish
<1>6. ResetInv'
  BY DEF ResetInv, Busy, Goto, Fail, Finish
<1>7. MultiInv'
  <2>1. Closes(dev')
    BY <1>0, StaysClosed DEF CardStates, Busy
  <2> QED
    BY <2>1 DEF MultiInv, Closes
<1>8. TrustInv'
  <2> SUFFICES ASSUME trusted' PROVE InPlace'
    BY DEF TrustInv
  <2>1. trusted /\ ~Fail
    BY <1>o DEF Goto, Finish, Fail
  <2>2. InPlace /\ dev.state \in {"busy", "tran", "rcv"}
    BY <1>0, <1>c, <2>1 DEF TrustInv, InPlace, Expectable
  <2>3. op.kind = "writeBlock" \/ op.kind = "writeBlocks"
    BY <1>0, <1>c DEF CallInv, WriteKinds
  <2>4. dev' = (IF dev.state = "busy" THEN AfterBusy ELSE dev) /\ drv' = drv
    BY <2>1 DEF Busy
  <2>5. CASE op.kind = "writeBlock"
    <3>1. dev'.state = "tran"
      BY <1>0, <1>c, <2>2, <2>4, <2>5, GoesOn DEF InPlace, Expectable, Open, Multi
    <3>2. Finish /\ cs' = Released
      BY <2>1, <2>5 DEF Busy
    <3> QED
      BY <1>c, <3>1, <3>2 DEF InPlace, Expectable, Open, Finish, Released
  <2>6. CASE op.kind = "writeBlocks"
    <3>1. dev'.state = "rcv" /\ dev'.multi /\ dev'.block = dev.block
      BY <1>0, <1>c, <2>2, <2>4, <2>6, GoesOn DEF InPlace, Expectable, Open, Multi
    <3>2. dev.block = dev.block /\ (drv.highCapacity = card.ccs => dev.block = op.first + Len(moved))
      BY <1>c, <2>2, <2>6 DEF InPlace, Expectable, Open, Multi
    <3> QED
      BY <1>c, <1>o, <2>1, <2>4, <2>6, <3>1, <3>2 DEF InPlace, Expectable, Goto, Multi
  <2> QED
    BY <2>3, <2>5, <2>6
<1> QED
  BY <1>1, <1>2, <1>3, <1>4, <1>5, <1>6, <1>7, <1>8, TypeFromParts DEF SpiInv

\* The stop token of a write: the card listens again.
LEMMA StopTranKeeps == SpiInv /\ StopTran => SpiInv'
<1> SUFFICES ASSUME SpiInv, StopTran PROVE SpiInv'
  OBVIOUS
<1>0. TypeOK /\ CallInv /\ MovedInv /\ ResetInv /\ MultiInv /\ TrustInv
  BY DEF SpiInv
<1>c. op' = op /\ moved' = moved /\ pc = "StopTran" /\ wired' = wired /\ card' = card
  BY DEF StopTran
<1>o. Finish \/ Fail
  BY DEF StopTran
<1>1. ControlTyped'
  BY <1>0, <1>o, Controls DEF PcSet
<1>2. WireTyped'
  BY <1>0, Becomes DEF TypeOK, WireTyped, Released, CardStates, StopTran
<1>3. DataTyped'
  BY <1>0 DEF TypeOK, DataTyped, Driver, StopTran
<1>4. CallInv'
  BY <1>o DEF CallInv, InitPcs, Fail, Finish
<1>5. MovedInv'
  BY <1>0, <1>c, <1>o DEF MovedInv, Fail, Finish
<1>6. ResetInv'
  BY DEF ResetInv, StopTran, Fail, Finish
<1>7. MultiInv'
  <2>1. Closes(dev')
    BY <1>0, StaysClosed DEF CardStates, StopTran
  <2> QED
    BY <2>1 DEF MultiInv, Closes
<1>8. TrustInv'
  <2> SUFFICES ASSUME trusted' PROVE InPlace'
    BY DEF TrustInv
  <2>1. trusted /\ ~Fail
    BY <1>0, <1>c, <1>o DEF CallInv, Finish, Fail
  <2>2. InPlace /\ dev.state \in {"tran", "rcv"}
    BY <1>0, <1>c, <2>1 DEF TrustInv, InPlace, Expectable
  <2>3. dev'.state = "tran" /\ cs' = Released
    BY <1>0, <2>1, <2>2, Becomes DEF StopTran, CardStates
  <2> QED
    BY <1>c, <1>o, <2>1, <2>3 DEF InPlace, Expectable, Open, Finish, Released
<1> QED
  BY <1>1, <1>2, <1>3, <1>4, <1>5, <1>6, <1>7, <1>8, TypeFromParts DEF SpiInv

\* A switch makes the card send its status, or the card refuses.
LEMMA Cmd6Keeps == SpiInv /\ Cmd6 => SpiInv'
<1> SUFFICES ASSUME SpiInv, Cmd6 PROVE SpiInv'
  OBVIOUS
<1>0. TypeOK /\ CallInv /\ MovedInv /\ ResetInv /\ MultiInv /\ TrustInv
  BY DEF SpiInv
<1>c. op' = op /\ moved' = moved /\ pc = "Cmd6" /\ wired' = wired /\ card' = card
  BY DEF Cmd6
<1>o. Goto("ReadData") \/ Fail
  BY DEF Cmd6, Command
<1>1. ControlTyped'
  BY <1>0, <1>o, Controls DEF PcSet
<1>2. WireTyped'
  BY <1>0, Becomes, GoesOn DEF TypeOK, WireTyped, CardStates, Cmd6, Command
<1>3. DataTyped'
  BY <1>0 DEF TypeOK, DataTyped, Cmd6
<1>4. CallInv'
  BY <1>0, <1>c, <1>o DEF CallInv, InitPcs, Goto, Fail
<1>5. MovedInv'
  BY <1>0, <1>c, <1>o DEF CallInv, MovedInv, Goto, Fail
<1>6. ResetInv'
  BY DEF ResetInv, Cmd6, Goto, Fail, Command
<1>7. MultiInv'
  <2>1. Closes(dev')
    BY <1>0, StaysClosed DEF CardStates, Cmd6, Command
  <2> QED
    BY <2>1 DEF MultiInv, Closes
<1>8. TrustInv'
  <2> SUFFICES ASSUME trusted' PROVE InPlace'
    BY DEF TrustInv
  <2>1. trusted /\ ~Fail
    BY <1>o DEF Goto, Fail
  <2>2. dev.state \in {"tran", "status"} /\ (dev.state = "status" => ~dev.multi)
    BY <1>0, <1>c, <2>1 DEF TrustInv, InPlace, Expectable, MultiInv, Closes
  <2>3. dev' = [Do("status") EXCEPT !.highSpeed = card.highSpeed] \/ dev'.state = "tran"
    BY <1>0, <2>1, <2>2, GoesOn DEF Cmd6, Command, Listening
  <2>4. dev'.state \in {"tran", "status"}
    BY <1>0, <2>3, Becomes DEF CardStates
  <2> QED
    BY <1>0, <1>c, <1>o, <2>1, <2>4 DEF InPlace, Expectable, CallInv, Goto, Open
<1> QED
  BY <1>1, <1>2, <1>3, <1>4, <1>5, <1>6, <1>7, <1>8, TypeFromParts DEF SpiInv

-----------------------------------------------------------------------------
(* The callers, and the card on its own.                                   *)

\* A call begins with nothing moved, and with the step of its kind.
LEMMA Begins ==
    ASSUME NEW kind \in Kinds, NEW first \in Nat, NEW count \in Nat, NEW data \in Seq(Data),
           NEW next \in PcSet,
           SpiInv, Call(kind, first, count, data, next),
           polls' \in 0 .. InitPolls, trusted' \in BOOLEAN, trusted' => trusted,
           \/ kind = "init" /\ count = 0 /\ next = "Cmd0" /\ ~trusted'
           \/ kind = "readBlock" /\ count = 1 /\ next = "ReadCommand"
           \/ kind = "readBlocks" /\ next = "ReadCommand"
           \/ kind = "writeBlock" /\ count = 1 /\ count = Len(data) /\ next = "WriteCommand"
           \/ kind = "writeBlocks" /\ count = Len(data) /\ next = "WriteCommand"
           \/ kind = "switch" /\ count = 1 /\ next = "Cmd6"
    PROVE  SpiInv'
<1>0. TypeOK /\ CallInv /\ MovedInv /\ ResetInv /\ MultiInv /\ TrustInv
  BY DEF SpiInv
<1>c. /\ op' = [kind |-> kind, first |-> first, count |-> count, data |-> data]
      /\ pc = "Idle" /\ pc' = next /\ result' = "running" /\ moved' = <<>>
      /\ calls' = calls + 1 /\ drv' = drv /\ cs' = cs /\ wired' = wired /\ card' = card
      /\ dev' = dev /\ store' = store
  BY DEF Call
<1>k. op'.kind = kind /\ op'.first = first /\ op'.count = count /\ op'.data = data
  BY <1>c
<1>1. ControlTyped'
  BY <1>c DEF ControlTyped
<1>2. WireTyped'
  BY <1>0, <1>c DEF TypeOK, WireTyped
<1>3. DataTyped'
  <2>1. op' \in Operation
    BY <1>c DEF Operation
  <2>2. moved' \in Seq(Delivered) /\ Len(moved') <= op'.count
    BY <1>c, <1>k
  <2>3. calls' \in Nat
    BY <1>0, <1>c DEF TypeOK
  <2> QED
    BY <1>0, <1>c, <2>1 DEF TypeOK, DataTyped
<1>4. CallInv'
  BY <1>c DEF CallInv, InitPcs, ReadKinds, WriteKinds
<1>5. MovedInv'
  BY <1>c, <1>k DEF MovedInv, WriteKinds
<1>6. ResetInv'
  BY <1>c DEF ResetInv
<1>7. MultiInv'
  BY <1>0, <1>c DEF MultiInv, Closes
<1>8. TrustInv'
  BY <1>0, <1>c DEF TrustInv, InPlace, Expectable, Open
<1> QED
  BY <1>1, <1>2, <1>3, <1>4, <1>5, <1>6, <1>7, <1>8, TypeFromParts DEF SpiInv

\* init may be called at any time, also in the middle of a stream.
LEMMA CallInitKeeps == SpiInv /\ CallInit => SpiInv'
<1> SUFFICES ASSUME SpiInv, CallInit PROVE SpiInv'
  OBVIOUS
<1>1. "init" \in Kinds /\ "Cmd0" \in PcSet /\ <<>> \in Seq(Data) /\ 0 \in 0 .. InitPolls
  BY BoundsAssumption DEF Kinds, PcSet
<1> QED
  BY <1>1, Begins DEF CallInit

\* A block call, or a switch, of any range.
LEMMA BlockCallKeeps == SpiInv /\ BlockCall => SpiInv'
<1> SUFFICES ASSUME SpiInv, BlockCall PROVE SpiInv'
  OBVIOUS
<1>1. polls' \in 0 .. InitPolls /\ trusted' = trusted /\ trusted' \in BOOLEAN
  BY DEF BlockCall, SpiInv, TypeOK
<1>2. /\ ReadKinds \cup WriteKinds \cup {"switch"} \subseteq Kinds
      /\ {"ReadCommand", "WriteCommand", "Cmd6"} \subseteq PcSet /\ <<>> \in Seq(Data)
      /\ Addrs \subseteq Nat /\ 0 .. MaxCount \subseteq Nat
  BY CallsAssumption, BoundsAssumption DEF Kinds, PcSet
<1>3. ASSUME NEW a \in Addrs, Call("readBlock", a, 1, <<>>, "ReadCommand") PROVE SpiInv'
  BY <1>1, <1>2, <1>3, Begins DEF ReadKinds
<1>4. ASSUME NEW a \in Addrs, NEW d \in Data, Call("writeBlock", a, 1, <<d>>, "WriteCommand")
      PROVE  SpiInv'
  <2>1. <<d>> \in Seq(Data) /\ Len(<<d>>) = 1
    OBVIOUS
  <2> QED
    BY <1>1, <1>2, <1>4, <2>1, Begins DEF WriteKinds
<1>5. ASSUME NEW a \in Addrs, NEW n \in 0 .. MaxCount,
             Call("readBlocks", a, n, <<>>, "ReadCommand")
      PROVE  SpiInv'
  BY <1>1, <1>2, <1>5, Begins DEF ReadKinds
<1>6. ASSUME NEW a \in Addrs, NEW n \in 0 .. MaxCount, NEW data \in [1 .. n -> Data],
             Call("writeBlocks", a, n, data, "WriteCommand")
      PROVE  SpiInv'
  <2>1. data \in Seq(Data) /\ Len(data) = n
    BY <1>2
  <2> QED
    BY <1>1, <1>2, <1>6, <2>1, Begins DEF WriteKinds
<1>7. CASE Call("switch", 0, 1, <<>>, "Cmd6")
  BY <1>1, <1>2, <1>7, Begins
<1> QED
  BY <1>3, <1>4, <1>5, <1>6, <1>7 DEF BlockCall

\* A new card is not trusted before init.
LEMMA SwapCardKeeps == SpiInv /\ SwapCard => SpiInv'
<1> SUFFICES ASSUME SpiInv, SwapCard PROVE SpiInv'
  OBVIOUS
<1>0. TypeOK /\ CallInv /\ MovedInv /\ ResetInv /\ MultiInv /\ TrustInv
  BY DEF SpiInv
<1>1. TypeOK'
  <2>1. dev' \in Device
    BY DEF SwapCard, Device, CardStates
  <2>2. store' \in [Blocks -> Data] /\ card' \in Cards /\ calls' \in Nat
    BY <1>0, ContentsAssumption DEF SwapCard, TypeOK
  <2>3. /\ pc' = pc /\ op' = op /\ result' = result /\ moved' = moved /\ polls' = polls
        /\ drv' = drv /\ cs' = cs /\ wired' = wired /\ trusted' = FALSE
    BY DEF SwapCard
  <2> QED
    BY <1>0, <2>1, <2>2, <2>3 DEF TypeOK
<1>2. CallInv' /\ MovedInv' /\ ResetInv' /\ TrustInv'
  BY <1>0 DEF SwapCard, CallInv, MovedInv, ResetInv, TrustInv
<1>3. MultiInv'
  BY DEF SwapCard, MultiInv, Closes
<1> QED
  BY <1>1, <1>2, <1>3 DEF SpiInv

\* The option changes nothing else.
LEMMA SetVerifyKeeps == SpiInv /\ (\E on \in BOOLEAN : SetVerifyDataCrc(on)) => SpiInv'
<1> SUFFICES ASSUME SpiInv, NEW on \in BOOLEAN, SetVerifyDataCrc(on) PROVE SpiInv'
  OBVIOUS
<1>0. TypeOK /\ CallInv /\ MovedInv /\ ResetInv /\ MultiInv /\ TrustInv
  BY DEF SpiInv
<1>1. drv' \in Driver /\ drv'.highCapacity = drv.highCapacity
  BY <1>0 DEF SetVerifyDataCrc, TypeOK, Driver
<1>2. /\ pc' = pc /\ op' = op /\ result' = result /\ moved' = moved /\ polls' = polls
      /\ calls' = calls /\ trusted' = trusted /\ cs' = cs /\ wired' = wired /\ card' = card
      /\ dev' = dev /\ store' = store
  BY DEF SetVerifyDataCrc
<1>3. TypeOK'
  BY <1>0, <1>1, <1>2 DEF TypeOK
<1>4. CallInv' /\ MovedInv' /\ ResetInv' /\ MultiInv'
  BY <1>0, <1>2 DEF CallInv, MovedInv, ResetInv, MultiInv
<1>5. TrustInv'
  BY <1>0, <1>1, <1>2 DEF TrustInv, InPlace, Expectable, Open, IsBlockCall, Released
<1> QED
  BY <1>3, <1>4, <1>5 DEF SpiInv

\* Whenever the card's busy period ends, it ends where the call needs it.
LEMMA BusyEndsKeeps == SpiInv /\ BusyEnds => SpiInv'
<1> SUFFICES ASSUME SpiInv, BusyEnds PROVE SpiInv'
  OBVIOUS
<1>0. TypeOK /\ CallInv /\ MovedInv /\ ResetInv /\ MultiInv /\ TrustInv
  BY DEF SpiInv
<1>1. dev.state = "busy" /\ dev' = AfterBusy
  BY DEF BusyEnds
<1>2. /\ pc' = pc /\ op' = op /\ result' = result /\ moved' = moved /\ polls' = polls
      /\ calls' = calls /\ trusted' = trusted /\ cs' = cs /\ wired' = wired /\ card' = card
      /\ drv' = drv /\ store' = store
  BY DEF BusyEnds
<1>3. /\ dev' \in Device /\ dev'.state \in {"tran", "rcv"}
      /\ dev.multi => dev'.state = "rcv" /\ dev'.multi /\ dev'.block = dev.block
      /\ ~dev.multi => dev'.state = "tran"
  <2>1. dev.multi \in BOOLEAN
    BY <1>0 DEF TypeOK, Device
  <2> QED
    BY <1>0, <1>1, <2>1, GoesOn
<1>4. TypeOK'
  BY <1>0, <1>2, <1>3 DEF TypeOK
<1>5. CallInv' /\ MovedInv'
  BY <1>0, <1>2 DEF CallInv, MovedInv
<1>6. ResetInv'
  BY <1>0, <1>1, <1>2, <1>3 DEF ResetInv
<1>7. MultiInv'
  <2>1. Closes(AfterBusy)
    BY <1>0, StaysClosed
  <2> QED
    BY <1>1, <2>1 DEF MultiInv, Closes
<1>8. TrustInv'
  <2> SUFFICES ASSUME trusted' PROVE InPlace'
    BY DEF TrustInv
  <2>1. InPlace /\ pc = "Busy"
    BY <1>0, <1>1, <1>2 DEF TrustInv, InPlace, Expectable
  <2>2. Open /\ (dev.multi <=> op.kind \in Multi)
    BY <1>1, <2>1 DEF InPlace, Open
  <2> QED
    BY <1>2, <1>3, <2>1, <2>2 DEF InPlace, Expectable, Open
<1> QED
  BY <1>4, <1>5, <1>6, <1>7, <1>8 DEF SpiInv

-----------------------------------------------------------------------------
(* The theorems.                                                           *)

\* At first the card has not been reset.
LEMMA InitEstablishes == Init => SpiInv
<1> SUFFICES ASSUME Init PROVE SpiInv
  OBVIOUS
<1>1. TypeOK
  <2>1. op \in Operation /\ moved \in Seq(Delivered) /\ Len(moved) = 0 /\ op.count = 0
    BY DEF Init, Operation, Kinds
  <2>2. drv \in Driver /\ dev \in Device
    BY DEF Init, Driver, Device, CardStates
  <2>3. wired \in BOOLEAN /\ cs \in BOOLEAN /\ (~wired => cs)
    BY FaultsAssumption DEF Init
  <2>4. store \in [Blocks -> Data] /\ polls \in 0 .. InitPolls
    BY ContentsAssumption, BoundsAssumption DEF Init
  <2>5. /\ pc \in PcSet /\ result \in {"none", "running", "ok", "err"}
        /\ trusted \in BOOLEAN /\ calls \in Nat /\ card \in Cards
    BY DEF Init, PcSet
  <2> QED
    BY <2>1, <2>2, <2>3, <2>4, <2>5 DEF TypeOK
<1>2. CallInv /\ MovedInv /\ ResetInv
  BY DEF Init, CallInv, MovedInv, ResetInv
<1>3. MultiInv /\ TrustInv
  BY DEF Init, MultiInv, Closes, TrustInv
<1> QED
  BY <1>1, <1>2, <1>3 DEF SpiInv

\* Every step keeps the invariant.
LEMMA NextKeeps == SpiInv /\ [Next]_vars => SpiInv'
<1> SUFFICES ASSUME SpiInv, [Next]_vars PROVE SpiInv'
  OBVIOUS
<1>1. CASE DriverStep
  BY <1>1, Cmd0Keeps, Cmd8Keeps, Cmd55Keeps, Acmd41Keeps, Cmd58Keeps, Cmd9Keeps, Cmd10Keeps,
     Cmd16Keeps, ReadCommandKeeps, ReadDataKeeps, Cmd12Keeps, WriteCommandKeeps,
     WriteDataKeeps, BusyKeeps, StopTranKeeps, Cmd6Keeps DEF DriverStep
<1>2. CASE User
  BY <1>2, CallInitKeeps, BlockCallKeeps, SwapCardKeeps, SetVerifyKeeps DEF User
<1>3. CASE BusyEnds
  BY <1>3, BusyEndsKeeps
<1>4. CASE UNCHANGED vars
  BY <1>4
    DEF vars, SpiInv, TypeOK, CallInv, MovedInv, ResetInv, MultiInv, TrustInv, InPlace,
      Expectable, Open, IsBlockCall, Released
<1> QED
  BY <1>1, <1>2, <1>3, <1>4 DEF Next

\* Step, call and card fit together: whatever failed and whatever the card took
\* for a command, init ends with a card that listens, and after it every call
\* that fails nowhere meets the card in the state it needs.
THEOREM Inductive == Spec => []SpiInv
<1> QED
  BY InitEstablishes, NextKeeps, PTL DEF Spec

\* The type invariant of the driver, the wire and the card.
THEOREM TypeCorrect == Spec => []TypeOK
<1>1. SpiInv => TypeOK
  BY DEF SpiInv
<1> QED
  BY <1>1, Inductive, PTL

\* A block call that succeeds, no call having failed since init, leaves the card
\* listening and chip select released, for calls of any length on any card.
THEOREM CardReady == Spec => []LeavesCardReady
<1>1. SpiInv => LeavesCardReady
  BY DEF SpiInv, CallInv, TrustInv, InPlace, Expectable, LeavesCardReady
<1> QED
  BY <1>1, Inductive, PTL

-----------------------------------------------------------------------------
(* The block calls implement BlockDevice.                                  *)

\* The view of BlockDevice.
SeenCall == [op |-> IF op.kind \in ReadKinds THEN "read" ELSE "write",
             first |-> op.first, count |-> op.count, data |-> op.data]
SeenMoved == IF IsBlockCall THEN moved ELSE <<>>
SeenReply == IF IsBlockCall THEN result ELSE "none"

\* Between the block calls nothing happens that BlockDevice speaks of.
LEMMA OtherStep ==
    ASSUME SeenReply # "running", SeenReply' \in {SeenReply, "none"},
           SeenMoved' \in {SeenMoved, <<>>}, store' # store => ~InStep'
    PROVE  Abstract!Next
BY DEF Abstract!Next, Abstract!Other, SeenReply, SeenMoved

\* A step of a call that is not a block call.
LEMMA SilentStep ==
    ASSUME ~IsBlockCall, op' = op, store' = store
    PROVE  Abstract!Next
<1>1. ~IsBlockCall'
  BY DEF IsBlockCall
<1> QED
  BY <1>1, OtherStep DEF SeenReply, SeenMoved

\* How a block call goes on is an outcome.
LEMMA OutcomeStep ==
    ASSUME IsBlockCall, op' = op, drv' = drv, card' = card, result = "running",
           \/ \E p \in PcSet : Goto(p)
           \/ Finish /\ Len(moved') = op.count
           \/ Fail
    PROVE  Abstract!Outcome /\ IsBlockCall' /\ (InStep' => InStep)
<1>1. IsBlockCall' /\ op.kind # "init"
  BY DEF IsBlockCall, ReadKinds, WriteKinds
<1>2. InStep' => InStep
  BY <1>1 DEF InStep, Goto, Finish, Fail
<1>3. SeenCall' = SeenCall
  BY DEF SeenCall
<1>4. \/ result' = "running"
      \/ result' = "ok" /\ Len(moved') = op.count
      \/ result' = "err" /\ ~InStep'
  BY DEF Goto, Finish, Fail, InStep
<1>5. SeenCall.count = op.count
  BY DEF SeenCall
<1> QED
  BY <1>1, <1>2, <1>4 DEF Abstract!Outcome, Abstract!Complete

\* A step of a block call that moves nothing.
LEMMA ReturnStep ==
    ASSUME IsBlockCall, op' = op, drv' = drv, card' = card, result = "running",
           \/ \E p \in PcSet : Goto(p)
           \/ Finish /\ Len(moved) = op.count
           \/ Fail,
           moved' = moved, store' = store
    PROVE  Abstract!Next
<1>1. Abstract!Outcome /\ IsBlockCall'
  BY OutcomeStep
<1>2. SeenReply = "running" /\ SeenMoved' = SeenMoved
  BY <1>1 DEF SeenReply, SeenMoved
<1> QED
  BY <1>1 DEF Abstract!Next, Abstract!Return

\* A step of a block call out of step.
LEMMA UnpromisedStep ==
    ASSUME IsBlockCall, op' = op, drv' = drv, card' = card, result = "running",
           (\E p \in PcSet : Goto(p)) \/ Finish \/ Fail,
           ~InStep, store' \in [Blocks -> Data]
    PROVE  Abstract!Next
<1>1. op.kind # "init"
  BY DEF IsBlockCall, ReadKinds, WriteKinds
<1>2. ~InStep'
  BY <1>1 DEF InStep, Goto, Finish, Fail
<1>3. SeenReply = "running" /\ SeenCall' = SeenCall
  BY DEF SeenReply, SeenCall
<1> QED
  BY <1>2 DEF Abstract!Next, Abstract!OutOfStep

\* The block of the call's next place is read.
LEMMA DeliverStep ==
    ASSUME IsBlockCall, op' = op, drv' = drv, card' = card, result = "running",
           \/ \E p \in PcSet : Goto(p)
           \/ Finish /\ Len(moved') = op.count
           \/ Fail,
           op.kind \in ReadKinds, Len(moved) # op.count,
           op.first + Len(moved) \in Blocks,
           moved' = Append(moved, store[op.first + Len(moved)]), store' = store
    PROVE  Abstract!Next
<1>1. Abstract!Outcome /\ IsBlockCall'
  BY OutcomeStep
<1>2. SeenReply = "running" /\ SeenMoved = moved /\ SeenMoved' = moved'
  BY <1>1 DEF SeenReply, SeenMoved
<1>3. SeenCall.op = "read" /\ SeenCall.count = op.count /\ SeenCall.first = op.first
  BY DEF SeenCall
<1>4. Abstract!Deliver
  BY <1>1 DEF Abstract!Deliver, Abstract!Complete, Abstract!Place
<1> QED
  BY <1>4 DEF Abstract!Next

\* The next block of the call's data is written to its place.
LEMMA StoreStep ==
    ASSUME IsBlockCall, op' = op, drv' = drv, card' = card, result = "running",
           \/ \E p \in PcSet : Goto(p)
           \/ Finish /\ Len(moved') = op.count
           \/ Fail,
           op.kind \in WriteKinds, Len(moved) # op.count,
           op.first + Len(moved) \in Blocks,
           moved' = Append(moved, Sent),
           store' = [store EXCEPT ![op.first + Len(moved)] = Sent]
    PROVE  Abstract!Next
<1>1. Abstract!Outcome /\ IsBlockCall'
  BY OutcomeStep
<1>2. SeenReply = "running" /\ SeenMoved = moved /\ SeenMoved' = moved'
  BY <1>1 DEF SeenReply, SeenMoved
<1>3. /\ SeenCall.op = "write" /\ SeenCall.count = op.count /\ SeenCall.first = op.first
      /\ SeenCall.data = op.data
  BY DEF SeenCall, ReadKinds, WriteKinds
<1>4. Abstract!Store
  BY <1>1, <1>3 DEF Abstract!Store, Abstract!Complete, Abstract!Place, SeenCall, Sent
<1> QED
  BY <1>4 DEF Abstract!Next

\* Every step is one of BlockDevice, or does not change what it sees.
LEMMA StepImplements == SpiInv /\ SpiInv' /\ [Next]_vars => [Abstract!Next]_(Abstract!vars)
<1> SUFFICES ASSUME SpiInv, SpiInv', [Next]_vars
             PROVE  Abstract!Next \/ UNCHANGED Abstract!vars
  BY Zenon
<1>0. TypeOK /\ CallInv /\ MovedInv /\ TrustInv /\ store' \in [Blocks -> Data]
  BY DEF SpiInv, TypeOK
<1>1. CASE Cmd0 \/ Cmd8 \/ Cmd55 \/ Acmd41 \/ Cmd58 \/ Cmd9 \/ Cmd10 \/ Cmd16 \/ Cmd6
  <2>1. op' = op /\ store' = store /\ pc \in InitPcs \cup {"Cmd6"}
    BY <1>1 DEF Cmd0, Cmd8, Cmd55, Acmd41, Cmd58, Cmd9, Cmd10, Cmd16, Cmd6, InitPcs
  <2>2. ~IsBlockCall
    BY <1>0, <2>1 DEF CallInv, IsBlockCall, ReadKinds, WriteKinds
  <2> QED
    BY <2>1, <2>2, SilentStep
<1>2. CASE ReadCommand
  <2>1. op' = op /\ moved' = moved /\ drv' = drv /\ card' = card /\ store' = store
    BY <1>2 DEF ReadCommand
  <2>2. IsBlockCall /\ result = "running"
    BY <1>0, <1>2 DEF CallInv, IsBlockCall, ReadCommand
  <2>3. (\E p \in PcSet : Goto(p)) \/ Fail
    BY <1>2 DEF ReadCommand, Command, PcSet
  <2> QED
    BY <2>1, <2>2, <2>3, ReturnStep
<1>3. CASE WriteCommand
  <2>1. op' = op /\ moved' = moved /\ drv' = drv /\ card' = card /\ store' = store
    BY <1>3 DEF WriteCommand
  <2>2. IsBlockCall /\ result = "running"
    BY <1>0, <1>3 DEF CallInv, IsBlockCall, WriteCommand
  <2>3. (\E p \in PcSet : Goto(p)) \/ Fail
    BY <1>3 DEF WriteCommand, Command, PcSet
  <2> QED
    BY <2>1, <2>2, <2>3, ReturnStep
<1>4. CASE Cmd12
  <2>1. op' = op /\ moved' = moved /\ drv' = drv /\ card' = card /\ store' = store
    BY <1>4 DEF Cmd12
  <2>2. IsBlockCall /\ result = "running" /\ Len(moved) = op.count
    BY <1>0, <1>4 DEF CallInv, MovedInv, IsBlockCall, ReadKinds, Cmd12
  <2>3. Finish \/ Fail
    BY <1>4 DEF Cmd12, Command
  <2> QED
    BY <2>1, <2>2, <2>3, ReturnStep
<1>5. CASE StopTran
  <2>1. op' = op /\ moved' = moved /\ drv' = drv /\ card' = card /\ store' = store
    BY <1>5 DEF StopTran
  <2>2. IsBlockCall /\ result = "running" /\ Len(moved) = op.count
    BY <1>0, <1>5 DEF CallInv, MovedInv, IsBlockCall, WriteKinds, StopTran
  <2>3. Finish \/ Fail
    BY <1>5 DEF StopTran
  <2> QED
    BY <2>1, <2>2, <2>3, ReturnStep
<1>6. CASE Busy
  <2>1. op' = op /\ moved' = moved /\ drv' = drv /\ card' = card /\ store' = store
    BY <1>6 DEF Busy
  <2>2. IsBlockCall /\ result = "running"
    BY <1>0, <1>6 DEF CallInv, IsBlockCall, Busy
  <2>3. op.kind = "writeBlock" => Len(moved) = op.count
    BY <1>0, <1>6 DEF TypeOK, MovedInv, Busy
  <2>4. (op.kind = "writeBlock" /\ Finish) \/ (\E p \in PcSet : Goto(p)) \/ Fail
    BY <1>6 DEF Busy, PcSet
  <2> QED
    BY <2>1, <2>2, <2>3, <2>4, ReturnStep
<1>7. CASE ReadData
  <2>1. op' = op /\ drv' = drv /\ card' = card /\ store' = store /\ pc = "ReadData"
    BY <1>7 DEF ReadData
  <2>2. CASE op.kind = "switch"
    <3>1. ~IsBlockCall
      BY <2>2 DEF IsBlockCall, ReadKinds, WriteKinds
    <3> QED
      BY <2>1, <3>1, SilentStep
  <2>3. CASE op.kind \in ReadKinds
    <3>1. IsBlockCall /\ result = "running"
      BY <1>0, <2>1, <2>3 DEF CallInv, IsBlockCall
    <3>2. CASE Fail /\ moved' = moved
      BY <2>1, <3>1, <3>2, ReturnStep
    <3>3. ASSUME NEW content \in Delivered, Accept(content)
          PROVE  /\ moved' = Append(moved, content) /\ Len(moved) # op.count
                 /\ (\E p \in PcSet : Goto(p)) \/ (Finish /\ Len(moved') = op.count)
      <4>1. Len(moved) < op.count /\ op.count \in Nat /\ Len(moved) \in Nat
        BY <1>0, <2>1 DEF MovedInv, TypeOK, Operation
      <4> QED
        BY <2>1, <3>3, <4>1, Accepts DEF PcSet
    <3>4. CASE Readable /\ Accept(Content) /\ InStep
      <4>1. Content \in Delivered /\ dev.state = "data" /\ dev.block \in Blocks
        BY <3>4, <2>3, ContentType DEF Readable, Expected, ReadKinds
      <4>2. dev.block = op.first + Len(moved) /\ Content = store[dev.block]
        BY <1>0, <2>3, <3>4, <4>1 DEF InStep, TrustInv, InPlace, Open, Content, ReadKinds
      <4> QED
        BY <2>1, <2>3, <3>1, <3>3, <3>4, <4>1, <4>2, DeliverStep
    <3>5. CASE ~InStep /\ \E content \in Delivered : Accept(content)
      <4>1. (\E p \in PcSet : Goto(p)) \/ Finish
        BY <3>3, <3>5
      <4> QED
        BY <1>0, <2>1, <3>1, <3>5, <4>1, UnpromisedStep
    <3>6. \/ Fail /\ moved' = moved
          \/ Readable /\ Accept(Content)
          \/ ~drv.verify /\ Accept(Garbage)
      BY <1>7 DEF ReadData
    <3>7. Garbage \in Delivered /\ (Readable => Content \in Delivered) /\ (InStep => drv.verify)
      BY ContentType DEF Delivered, InStep
    <3> QED
      BY <3>2, <3>4, <3>5, <3>6, <3>7
  <2> QED
    BY <1>0, <2>1, <2>2, <2>3 DEF CallInv
<1>8. CASE WriteData
  <2>1. op' = op /\ drv' = drv /\ card' = card /\ pc = "WriteData"
    BY <1>8 DEF WriteData
  <2>2. IsBlockCall /\ result = "running" /\ op.kind \in WriteKinds
    BY <1>0, <2>1 DEF CallInv, IsBlockCall
  <2>3. Len(moved) # op.count
    BY <1>0, <2>1 DEF MovedInv, TypeOK, Operation
  <2>4. \/ /\ dev.state = "rcv" /\ dev.block \in Blocks
           /\ store' = [store EXCEPT ![dev.block] = Sent]
           /\ moved' = Append(moved, Sent) /\ (Goto("Busy") \/ Fail)
        \/ store' = store /\ moved' = moved /\ Fail
        \/ Sending /\ store' = store /\ Goto("Busy")
    BY <1>8 DEF WriteData
  <2>5. (\E p \in PcSet : Goto(p)) \/ Fail
    BY <2>4 DEF PcSet
  <2>6. CASE ~InStep
    BY <1>0, <2>1, <2>2, <2>5, <2>6, UnpromisedStep
  <2>7. CASE InStep
    <3>1. InPlace /\ dev.state \in {"tran", "rcv"}
      BY <1>0, <2>1, <2>7 DEF InStep, TrustInv, InPlace, Expectable
    <3>2. dev.state = "rcv" => dev.block = op.first + Len(moved)
      BY <2>7, <3>1 DEF InStep, InPlace, Open
    <3>3. CASE dev.state = "rcv" /\ dev.block \in Blocks /\ moved' = Append(moved, Sent)
               /\ store' = [store EXCEPT ![dev.block] = Sent]
      BY <2>1, <2>2, <2>3, <2>5, <3>2, <3>3, StoreStep
    <3>4. CASE store' = store /\ moved' = moved /\ Fail
      BY <2>1, <2>2, <3>4, ReturnStep
    <3> QED
      BY <2>4, <3>1, <3>3, <3>4 DEF Sending
  <2> QED
    BY <2>6, <2>7
<1>9. CASE CallInit \/ BlockCall
  <2>1. pc = "Idle" /\ result' = "running" /\ moved' = <<>> /\ store' = store
    BY <1>9 DEF CallInit, BlockCall, Call
  <2>2. SeenReply # "running" /\ SeenMoved' = <<>>
    BY <1>0, <2>1 DEF CallInv, SeenReply, SeenMoved
  <2>3. CASE IsBlockCall'
    <3>1. SeenReply' = "running"
      BY <2>1, <2>3 DEF SeenReply
    <3> QED
      BY <2>1, <2>2, <3>1 DEF Abstract!Next, Abstract!Begin, SeenReply
  <2>4. CASE ~IsBlockCall'
    <3>1. SeenReply' = "none"
      BY <2>4 DEF SeenReply
    <3> QED
      BY <2>1, <2>2, <3>1, OtherStep
  <2> QED
    BY <2>3, <2>4
<1>10. CASE SwapCard \/ \E on \in BOOLEAN : SetVerifyDataCrc(on)
  <2>1. pc = "Idle" /\ op' = op /\ result' = result /\ moved' = moved
    BY <1>10 DEF SwapCard, SetVerifyDataCrc
  <2>2. store' # store => ~InStep'
    BY <1>10 DEF SwapCard, SetVerifyDataCrc, InStep
  <2>3. SeenReply # "running" /\ SeenReply' = SeenReply /\ SeenMoved' = SeenMoved
    BY <1>0, <2>1 DEF CallInv, SeenReply, SeenMoved, IsBlockCall
  <2> QED
    BY <2>2, <2>3, OtherStep
<1>11. CASE BusyEnds \/ UNCHANGED vars
  <2>1. /\ op' = op /\ result' = result /\ moved' = moved /\ store' = store
        /\ trusted' = trusted /\ drv' = drv /\ card' = card
    BY <1>11 DEF BusyEnds, vars
  <2> QED
    BY <2>1 DEF Abstract!vars, IsBlockCall, InStep
<1> QED
  BY <1>1, <1>2, <1>3, <1>4, <1>5, <1>6, <1>7, <1>8, <1>9, <1>10, <1>11
    DEF Next, DriverStep, User

\* While driver and card are in step a block read delivers what is stored, a
\* write stores all of it, in order and nowhere else, and a call that fails has
\* moved a prefix: for every card, block, length of a call and fault.
THEOREM BlocksImplemented == Spec => ImplementsBlockDevice
<1>1. Init => Abstract!Init
  BY DEF Init, Abstract!Init, InStep
<1> QED
  BY <1>1, StepImplements, Inductive, PTL DEF Spec, ImplementsBlockDevice, Abstract!Spec
=============================================================================
