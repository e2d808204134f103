-------------------------- MODULE BlockCallsProofs --------------------------
(***************************************************************************)
(* What the proofs about SdhciTransfer and DwMmcTransfer have in common:   *)
(* addresses and sequences, what the card makes of commands, and the steps *)
(* of BlockDevice as a caller sees them.                                   *)
(***************************************************************************)
EXTENDS BlockCalls, TLAPS

BlockKinds == ReadKinds \cup WriteKinds

-----------------------------------------------------------------------------
(* Arithmetic, addresses and sequences.                                    *)

\* What integer division is.
LEMMA Division ==
    ASSUME NEW a \in Nat, NEW b \in Nat \ {0}
    PROVE  /\ a \div b \in Nat
           /\ b * (a \div b) <= a /\ a < b * (a \div b) + b
OBVIOUS

\* A byte address that was made of a block address leads back to it.
LEMMA ByteAddress == ASSUME NEW addr \in Nat PROVE (addr * BlockLen) \div BlockLen = addr
<1> DEFINE a == addr * BlockLen
           q == a \div BlockLen
<1>0. BlockLen \in Nat \ {0}
  BY SizesAssumption
<1>1. a \in Nat
  BY <1>0
<1>2. q \in Nat /\ BlockLen * q <= a /\ a < BlockLen * q + BlockLen
  BY <1>0, <1>1, Division
<1> HIDE DEF q
<1>3. ASSUME q >= addr + 1 PROVE FALSE
  <2>1. BlockLen * q >= BlockLen * (addr + 1)
    BY <1>0, <1>2, <1>3
  <2> QED
    BY <1>0, <1>2, <2>1
<1>4. ASSUME q + 1 <= addr PROVE FALSE
  <2>1. BlockLen * (q + 1) <= BlockLen * addr
    BY <1>0, <1>2, <1>4
  <2> QED
    BY <1>0, <1>2, <2>1
<1> QED
  BY <1>2, <1>3, <1>4 DEF q

\* The card finds the block a call names, whichever way it is addressed.
LEMMA Addressing == ASSUME NEW addr \in Nat PROVE Selected(BlockAddrOf(addr)) = addr
BY ByteAddress DEF Selected, BlockAddrOf

\* A block put at a place of a sequence, or behind its end.
LEMMA PutInSequence ==
    ASSUME NEW S, NEW s \in Seq(S), NEW v \in S, NEW p \in Nat, p > 0, p <= Len(s) + 1
    PROVE  LET t == IF p <= Len(s) THEN [s EXCEPT ![p] = v] ELSE Append(s, v)
           IN  /\ t \in Seq(S) /\ Len(s) <= Len(t) /\ p <= Len(t)
               /\ Len(t) = Len(s) \/ Len(t) = p
               /\ t[p] = v /\ \A i \in 1 .. Len(s) : i # p => t[i] = s[i]
<1>1. Len(s) \in Nat
  OBVIOUS
<1>2. CASE p <= Len(s)
  <2> DEFINE t == [s EXCEPT ![p] = v]
  <2>1. t \in Seq(S) /\ Len(t) = Len(s)
    BY <1>1, <1>2
  <2>2. t[p] = v /\ \A i \in 1 .. Len(s) : i # p => t[i] = s[i]
    BY <1>1, <1>2
  <2> HIDE DEF t
  <2>3. t \in Seq(S) /\ Len(s) <= Len(t) /\ p <= Len(t) /\ Len(t) = Len(s)
    BY <1>1, <1>2, <2>1
  <2> QED
    BY <1>2, <2>2, <2>3 DEF t
<1>3. CASE p = Len(s) + 1
  <2> DEFINE t == Append(s, v)
  <2>1. t \in Seq(S) /\ Len(t) = Len(s) + 1
    OBVIOUS
  <2>2. t[p] = v /\ \A i \in 1 .. Len(s) : t[i] = s[i]
    BY <1>1, <1>3
  <2>3. ~(p <= Len(s))
    BY <1>1, <1>3
  <2> HIDE DEF t
  <2>4. t \in Seq(S) /\ Len(s) <= Len(t) /\ p <= Len(t) /\ Len(t) = p
    BY <1>1, <1>3, <2>1
  <2> QED
    BY <2>2, <2>3, <2>4 DEF t
<1> QED
  BY <1>1, <1>2, <1>3

-----------------------------------------------------------------------------
(* The card.                                                               *)

\* The blocks of the running command, and where they begin.
LEMMA Counts ==
    ASSUME CallsTypeOK
    PROVE  Count \in Nat /\ Start \in Nat /\ op.first \in Nat /\ op.count \in Nat
BY DEF CallsTypeOK, Operation, Count, Start

\* A card that does something else is well-formed.
LEMMA Becomes ==
    ASSUME CallsTypeOK
    PROVE  \A s \in CardStates : Do(s) \in Device /\ Do(s).state = s
<1>1. dev \in Device /\ <<>> \in Seq(Nat)
  BY DEF CallsTypeOK
<1> SUFFICES ASSUME NEW s \in CardStates PROVE Do(s) \in Device /\ Do(s).state = s
  OBVIOUS
<1> DEFINE e == [dev EXCEPT !.state = s]
<1>2. e \in Device /\ e.state = s
  BY <1>1 DEF Device
<1> HIDE DEF e
<1>3. LET d == [e EXCEPT !.seq = <<>>] IN d \in Device /\ d.state = s
  BY <1>1, <1>2 DEF Device
<1> QED
  BY <1>3 DEF e, Do

\* An open stream: at a block, with or without more to come.
Opened(s, multi, block) == [Do(s) EXCEPT !.multi = multi, !.block = block]

\* It is well-formed, and what it says.
LEMMA Opens ==
    ASSUME CallsTypeOK
    PROVE  \A s \in CardStates, m \in BOOLEAN, b \in Nat :
              /\ Opened(s, m, b) \in Device
              /\ Opened(s, m, b).state = s /\ Opened(s, m, b).block = b
              /\ Opened(s, m, b).multi = m
<1> SUFFICES ASSUME NEW s \in CardStates, NEW m \in BOOLEAN, NEW b \in Nat
             PROVE  /\ Opened(s, m, b) \in Device
                    /\ Opened(s, m, b).state = s /\ Opened(s, m, b).block = b
                    /\ Opened(s, m, b).multi = m
  OBVIOUS
<1> DEFINE e == Do(s)
           f == [e EXCEPT !.multi = m]
           d == [f EXCEPT !.block = b]
<1>1. e \in Device /\ e.state = s
  BY Becomes
<1> HIDE DEF e
<1>2. f \in Device /\ f.state = s /\ f.multi = m
  BY <1>1 DEF Device
<1> HIDE DEF f
<1>3. d \in Device /\ d.state = s /\ d.block = b /\ d.multi = m
  BY <1>2 DEF Device
<1>4. d = Opened(s, m, b)
  BY DEF Opened, e, f
<1> QED
  BY <1>3, <1>4

\* The next block of a stream.
LEMMA NextBlock ==
    ASSUME CallsTypeOK
    PROVE  LET d == [dev EXCEPT !.block = @ + 1]
           IN  /\ d \in Device /\ d.state = dev.state /\ d.block = dev.block + 1
               /\ d.multi = dev.multi /\ d.seq = dev.seq
<1>1. dev \in Device /\ dev.block + 1 \in Nat
  BY DEF CallsTypeOK, Device
<1> DEFINE b == dev.block + 1
<1> HIDE DEF b
<1>2. [dev EXCEPT !.block = b] \in Device /\ [dev EXCEPT !.block = b].block = b
  BY <1>1 DEF Device, b
<1>3. /\ [dev EXCEPT !.block = b].state = dev.state /\ [dev EXCEPT !.block = b].seq = dev.seq
      /\ [dev EXCEPT !.block = b].multi = dev.multi
  BY <1>1 DEF Device
<1> QED
  BY <1>2, <1>3 DEF b

\* A data command: the card refuses an address that it does not have, and opens a
\* stream at any other.
LEMMA ObeyedData ==
    ASSUME CallsTypeOK
    PROVE  LET d == Obeyed(TransferCommand)
           IN  /\ d \in Device
               /\ op.kind \in ReadKinds => d.state \in {"data", "tran"}
               /\ op.kind \in WriteKinds => d.state \in {"rcv", "tran"}
               /\ op.kind \notin BlockKinds => d.state = "status"
               /\ d.state \in {"data", "rcv"} => d.block = Start /\ (d.multi <=> Count > 1)
               /\ d.state = "status" => ~d.multi
<1> DEFINE c == TransferCommand
           multi == c.count > 1
           d == Obeyed(c)
           goes(state) == Opened(state, multi, c.block)
<1>1. Start \in Nat /\ Count \in Nat
  BY Counts
<1>2. /\ c.block = Start /\ c.count = Count
      /\ c.index = IF op.kind \in ReadKinds THEN "read"
                   ELSE IF op.kind \in WriteKinds THEN "write" ELSE "switch"
  <2>1. c.block = Selected(BlockAddrOf(Start)) /\ c.count = Count
    BY DEF TransferCommand, Command
  <2>2. c.index = CASE op.kind \in ReadKinds -> "read" [] op.kind \in WriteKinds -> "write"
                    [] OTHER -> "switch"
    BY DEF TransferCommand, Command
  <2>3. op.kind \in ReadKinds => op.kind \notin WriteKinds
    BY DEF ReadKinds, WriteKinds
  <2> QED
    BY <1>1, <2>1, <2>2, <2>3, Addressing
<1>3. multi \in BOOLEAN /\ (multi <=> Count > 1)
  BY <1>2
<1> HIDE DEF c, multi
<1>4. \A s \in CardStates :
         /\ goes(s) \in Device /\ goes(s).state = s /\ goes(s).block = Start
         /\ goes(s).multi = multi
  BY <1>1, <1>2, <1>3, Opens
<1>9. "data" \in CardStates /\ "rcv" \in CardStates
  BY DEF CardStates
<1> HIDE DEF goes
<1>5. Do("tran") \in Device /\ Do("tran").state = "tran"
  BY Becomes DEF CardStates
<1>6. CASE op.kind \in ReadKinds
  <2>1. d = IF c.block \in Blocks THEN goes("data") ELSE Do("tran")
    BY <1>2, <1>6 DEF Obeyed, Opened, multi, goes
  <2> QED
    BY <1>2, <1>3, <1>4, <1>9, <1>5, <1>6, <2>1 DEF ReadKinds, WriteKinds, BlockKinds, c
<1>7. CASE op.kind \in WriteKinds
  <2>1. d = IF c.block \in Blocks THEN goes("rcv") ELSE Do("tran")
    BY <1>2, <1>7 DEF Obeyed, Opened, multi, goes, ReadKinds, WriteKinds
  <2> QED
    BY <1>2, <1>3, <1>4, <1>9, <1>5, <1>7, <2>1 DEF ReadKinds, WriteKinds, BlockKinds, c
<1>8. CASE op.kind \notin BlockKinds
  <2>1. d = [Do("status") EXCEPT !.multi = FALSE]
    BY <1>2, <1>8 DEF Obeyed, BlockKinds
  <2> DEFINE e == Do("status")
  <2>2. e \in Device /\ e.state = "status"
    BY Becomes DEF CardStates
  <2> HIDE DEF e
  <2>3. LET f == [e EXCEPT !.multi = FALSE] IN f \in Device /\ f.state = "status" /\ ~f.multi
    BY <2>2 DEF Device
  <2> QED
    BY <1>8, <2>1, <2>3 DEF BlockKinds, e, c
<1> QED
  BY <1>6, <1>7, <1>8 DEF BlockKinds

\* A block that was lost leaves a well-formed card.
LEMMA Loses == CallsTypeOK => BlockLost \in Device
<1> SUFFICES ASSUME CallsTypeOK PROVE BlockLost \in Device
  OBVIOUS
<1>1. Do("tran") \in Device /\ [dev EXCEPT !.block = @ + 1] \in Device /\ dev \in Device
  BY Becomes, NextBlock DEF CardStates, CallsTypeOK
<1> QED
  BY <1>1 DEF BlockLost

\* The list of the blocks to erase, as it is or longer or empty, is well-formed.
LEMMA Names ==
    ASSUME CallsTypeOK, NEW block \in Nat
    PROVE  Named(<<>>, block) \in Device /\ Named(dev.seq, block) \in Device
<1>1. dev \in Device /\ dev.seq \in Seq(Nat)
  BY DEF CallsTypeOK, Device
<1>2. /\ <<>> \in Seq(Nat) /\ Append(<<>>, block) \in Seq(Nat)
      /\ Append(dev.seq, block) \in Seq(Nat)
  BY <1>1
<1>3. \A q \in Seq(Nat) : [dev EXCEPT !.seq = q] \in Device
  BY <1>1 DEF Device
<1> QED
  BY <1>2, <1>3 DEF Named

\* Whatever the card makes of a command without data, it is well-formed.
LEMMA ObeyedPlain ==
    ASSUME CallsTypeOK, NEW index \in PlainIndex, NEW addr \in Nat
    PROVE  /\ Obeyed(Command(index, addr)) \in Device
           /\ StoreAfter(Command(index, addr)) \in [Blocks -> Data]
<1> DEFINE c == Command(index, addr)
<1>1. c.index = index /\ c.block = addr
  BY Addressing DEF Command
<1> HIDE DEF c
<1>2. /\ Do("tran") \in Device /\ Do("prg") \in Device /\ dev \in Device
      /\ Named(<<>>, addr) \in Device /\ Named(dev.seq, addr) \in Device
  BY Becomes, Names DEF CardStates, CallsTypeOK
<1>3. Obeyed(c) \in {Do("tran"), Do("prg"), dev, Named(<<>>, addr), Named(dev.seq, addr)}
  <2>1. CASE index = "stop"
    BY <1>1, <2>1 DEF Obeyed
  <2>2. CASE index = "status"
    BY <1>1, <2>2 DEF Obeyed
  <2>3. CASE index = "eraseStart"
    BY <1>1, <2>3 DEF Obeyed
  <2>4. CASE index = "eraseEnd"
    BY <1>1, <2>4 DEF Obeyed
  <2>5. CASE index = "erase"
    BY <1>1, <2>5 DEF Obeyed
  <2> QED
    BY <2>1, <2>2, <2>3, <2>4, <2>5 DEF PlainIndex
<1>4. StoreAfter(c) \in [Blocks -> Data]
  BY ContentsAssumption DEF StoreAfter, CallsTypeOK
<1> QED
  BY <1>2, <1>3, <1>4 DEF c

\* A legal command without data leaves the card waiting, or busy, or as it was.
LEMMA PlainLeaves ==
    ASSUME CallsTypeOK, NEW index \in PlainIndex, NEW addr \in Nat, Legal(Command(index, addr))
    PROVE  \/ Obeyed(Command(index, addr)).state \in {"tran", "prg"}
           \/ Obeyed(Command(index, addr)) = dev
<1> DEFINE c == Command(index, addr)
<1>1. c.index = index
  BY DEF Command
<1> HIDE DEF c
<1>2. Do("tran").state = "tran" /\ Do("prg").state = "prg"
  BY Becomes DEF CardStates
<1>3. \A q, b : Named(q, b).state = dev.state
  BY DEF Named, CallsTypeOK, Device
<1>4. Legal(c)
  BY DEF c
<1>5. CASE index = "stop"
  BY <1>1, <1>2, <1>5 DEF Obeyed, c
<1>6. CASE index = "status"
  BY <1>1, <1>6 DEF Obeyed, c
<1>7. CASE index \in {"eraseStart", "eraseEnd", "erase"}
  <2>1. dev.state = "tran"
    BY <1>1, <1>4, <1>7 DEF Legal
  <2>2. \/ \E q, b : Obeyed(c) = Named(q, b)
        \/ Obeyed(c) \in {Do("tran"), Do("prg")}
    <3>1. CASE index = "eraseStart"
      BY <1>1, <3>1 DEF Obeyed
    <3>2. CASE index = "eraseEnd"
      BY <1>1, <3>2 DEF Obeyed
    <3>3. CASE index = "erase"
      BY <1>1, <3>3 DEF Obeyed
    <3> QED
      BY <1>7, <3>1, <3>2, <3>3
  <2> QED
    BY <1>2, <1>3, <2>1, <2>2 DEF c
<1> QED
  BY <1>5, <1>6, <1>7 DEF PlainIndex

\* A card that does something else has forgotten its range.
LEMMA Forgets == \A s \in CardStates : CallsTypeOK => Do(s).seq = <<>>
BY DEF CallsTypeOK, Device, Do

-----------------------------------------------------------------------------
(* The callers.                                                            *)

\* A call that begins has moved nothing.
CallBegins ==
    /\ pc = "Idle" /\ result' = "running" /\ moved' = <<>> /\ base' = 0 /\ at' = 0
    /\ calls' = calls + 1 /\ UNCHANGED <<setup, host, dev, store>>
    /\ op' \in Operation
    /\ pc' \in {"Attempt", "Cmd13", "Cmd32"}
    /\ pc' = "Attempt" => op'.kind \in BlockKinds \cup {"switch"}
    /\ pc' = "Cmd13" => op'.kind = "status"
    /\ pc' = "Cmd32" => op'.kind = "erase"
    /\ op'.kind \in {"readBlock", "writeBlock", "switch"} => op'.count = 1
    /\ op'.kind = "erase" => op'.count > 0
    /\ op'.kind \in WriteKinds => op'.count = Len(op'.data) /\ op'.count > 0

\* A call with these arguments does.
LEMMA Beginning ==
    ASSUME NEW kind \in Kinds, NEW first \in Nat, NEW count \in Nat,
           NEW data \in Seq(Data), NEW next \in {"Attempt", "Cmd32", "Cmd13"},
           Call(kind, first, count, data, next),
           next = "Attempt" => kind \in BlockKinds \cup {"switch"},
           next = "Cmd13" => kind = "status",
           next = "Cmd32" => kind = "erase",
           kind \in {"readBlock", "writeBlock", "switch"} => count = 1,
           kind = "erase" => count > 0,
           kind \in WriteKinds => count = Len(data) /\ count > 0
    PROVE  CallBegins
<1>1. /\ op' = [kind |-> kind, first |-> first, count |-> count, data |-> data]
      /\ pc = "Idle" /\ pc' = next /\ result' = "running" /\ moved' = <<>> /\ base' = 0
      /\ at' = 0 /\ calls' = calls + 1 /\ UNCHANGED <<setup, host, dev, store>>
  BY DEF Call
<1>2. op' \in Operation /\ op'.kind = kind /\ op'.count = count /\ op'.data = data
  BY <1>1 DEF Operation
<1> QED
  BY <1>1, <1>2 DEF CallBegins

\* Every way of beginning one.
LEMMA CallsBegin == CallRead \/ CallWrite \/ CallDma \/ CallErase \/ CallOther => CallBegins
<1> SUFFICES ASSUME CallRead \/ CallWrite \/ CallDma \/ CallErase \/ CallOther
             PROVE  CallBegins
  OBVIOUS
<1>1. Addrs \subseteq Nat /\ <<>> \in Seq(Data) /\ MaxCount \in Nat
  BY CallsAssumption, CallBoundsAssumption
<1>2. \A data \in Payloads : data \in Seq(Data) /\ Len(data) \in Nat /\ Len(data) > 0
  <2> TAKE data \in Payloads
  <2>1. data \in Seq(Data) /\ data # <<>>
    BY CallsAssumption
  <2> QED
    BY <2>1
<1>3. CASE CallRead
  <2>1. PICK a \in Addrs, n \in 0 .. MaxCount :
           \/ n = 1 /\ Call("readBlock", a, n, <<>>, "Attempt")
           \/ Call("readBlocks", a, n, <<>>, "Attempt")
           \/ n > 0 /\ Call("readBlocksInto", a, n, <<>>, "Attempt")
    BY <1>3 DEF CallRead
  <2>2. a \in Nat /\ n \in Nat
    BY <1>1
  <2>3. {"readBlock", "readBlocks", "readBlocksInto"} \subseteq Kinds \cap ReadKinds
    BY DEF Kinds, ReadKinds
  <2> QED
    BY <1>1, <2>1, <2>2, <2>3, Beginning DEF BlockKinds, ReadKinds, WriteKinds
<1>4. CASE CallWrite
  <2>1. PICK a \in Addrs, data \in Payloads :
           Call(IF Len(data) = 1 THEN "writeBlock" ELSE "writeBlocks", a, Len(data), data,
                "Attempt")
    BY <1>4 DEF CallWrite
  <2>2. a \in Nat /\ data \in Seq(Data) /\ Len(data) \in Nat /\ Len(data) > 0
    BY <1>1, <1>2
  <2>3. {"writeBlock", "writeBlocks"} \subseteq Kinds \cap WriteKinds
    BY DEF Kinds, WriteKinds
  <2>4. CASE Len(data) = 1
    <3>1. Call("writeBlock", a, Len(data), data, "Attempt")
      BY <2>1, <2>4
    <3> QED
      BY <2>2, <2>3, <2>4, <3>1, Beginning DEF BlockKinds, ReadKinds, WriteKinds
  <2>5. CASE Len(data) # 1
    <3>1. Call("writeBlocks", a, Len(data), data, "Attempt")
      BY <2>1, <2>5
    <3> QED
      BY <2>2, <2>3, <2>5, <3>1, Beginning DEF BlockKinds, ReadKinds, WriteKinds
  <2> QED
    BY <2>4, <2>5
<1>5. CASE CallDma
  <2>1. PICK a \in Addrs :
           \/ \E n \in 1 .. MaxCount : Call("dmaRead", a, n, <<>>, "Attempt")
           \/ \E data \in Payloads : Call("dmaWrite", a, Len(data), data, "Attempt")
    BY <1>5 DEF CallDma
  <2>2. a \in Nat /\ {"dmaRead", "dmaWrite"} \subseteq Kinds \cap BlockKinds
    BY <1>1 DEF Kinds, BlockKinds, ReadKinds, WriteKinds
  <2>3. ASSUME NEW n \in 1 .. MaxCount, Call("dmaRead", a, n, <<>>, "Attempt")
        PROVE  CallBegins
    <3>1. n \in Nat
      BY <1>1
    <3> QED
      BY <1>1, <2>2, <2>3, <3>1, Beginning DEF WriteKinds
  <2>4. ASSUME NEW data \in Payloads, Call("dmaWrite", a, Len(data), data, "Attempt")
        PROVE  CallBegins
    BY <1>2, <2>2, <2>4, Beginning DEF WriteKinds
  <2> QED
    BY <2>1, <2>3, <2>4
<1>6. CASE CallErase
  <2>1. PICK a, b \in Addrs : a <= b /\ Call("erase", a, b - a + 1, <<>>, "Cmd32")
    BY <1>6 DEF CallErase
  <2>2. a \in Nat /\ b - a + 1 \in Nat /\ b - a + 1 > 0
    BY <1>1, <2>1
  <2> DEFINE n == b - a + 1
  <2> HIDE DEF n
  <2>3. n \in Nat /\ n > 0 /\ Call("erase", a, n, <<>>, "Cmd32")
    BY <2>1, <2>2 DEF n
  <2> QED
    BY <1>1, <2>2, <2>3, Beginning DEF Kinds, WriteKinds
<1>7. CASE CallOther
  <2>1. CASE Call("status", 0, 0, <<>>, "Cmd13")
    BY <1>1, <2>1, Beginning DEF Kinds, WriteKinds
  <2>2. CASE Call("switch", 0, 1, <<>>, "Attempt")
    BY <1>1, <2>2, Beginning DEF Kinds, WriteKinds
  <2> QED
    BY <1>7, <2>1, <2>2 DEF CallOther
<1> QED
  BY <1>3, <1>4, <1>5, <1>6, <1>7

-----------------------------------------------------------------------------
(* The steps of BlockDevice.                                               *)

\* The view of BlockDevice.
SeenCall == [op |-> IF op.kind \in ReadKinds THEN "read"
                    ELSE IF op.kind \in WriteKinds THEN "write" ELSE "erase",
             first |-> op.first, count |-> op.count, data |-> op.data]
SeenMoved == IF op.kind = "switch" THEN <<>> ELSE moved
SeenReply == IF IsBlockCall THEN result ELSE "none"

\* Before the first call nothing is promised.
LEMMA InitialStep == CallsInit => Abstract!Init
BY DEF CallsInit, Abstract!Init, IsBlockCall, InStep

\* Between the block calls nothing happens that BlockDevice speaks of.
LEMMA OtherStep ==
    ASSUME SeenReply # "running", SeenReply' \in {SeenReply, "none"},
           SeenMoved' \in {SeenMoved, <<>>}, store' # store => ~InStep'
    PROVE  Abstract!Next
BY DEF Abstract!Next, Abstract!Other, SeenReply, SeenMoved, InStep, IsBlockCall

\* A step of a call that is not a block call.
LEMMA SilentStep ==
    ASSUME ~IsBlockCall, op' = op, op.kind = "switch" \/ moved' = moved,
           store' # store => ~InStep'
    PROVE  Abstract!Next
<1>1. ~IsBlockCall' /\ SeenReply = "none" /\ SeenReply' = "none"
  BY DEF IsBlockCall, SeenReply
<1>2. SeenMoved' = SeenMoved
  BY DEF SeenMoved
<1> QED
  BY <1>1, <1>2, OtherStep

\* A step of the hardware, or one that leaves what BlockDevice sees.
LEMMA UnseenStep ==
    ASSUME op' = op, result' = result, moved' = moved, inStep' = inStep, store' = store
    PROVE  UNCHANGED Abstract!vars
BY DEF Abstract!vars, IsBlockCall, InStep

\* How a block call goes on is an outcome.
LEMMA OutcomeStep ==
    ASSUME IsBlockCall, op' = op, inStep' => inStep, result = "running",
           \/ result' = "running"
           \/ result' = "ok" /\ (Len(moved') = op.count \/ op.kind = "erase")
           \/ result' = "err"
    PROVE  Abstract!Outcome /\ IsBlockCall'
<1>1. IsBlockCall' /\ op.kind # "switch" /\ SeenCall' = SeenCall
  BY DEF IsBlockCall, SeenCall
<1>2. InStep' => InStep
  BY DEF InStep
<1>3. result' = "err" => ~InStep'
  BY DEF InStep
<1>4. SeenMoved' = moved' /\ SeenReply' = result'
  BY <1>1 DEF SeenMoved, SeenReply
<1>5. SeenCall.count = op.count /\ (op.kind = "erase" => SeenCall.op = "erase")
  BY DEF SeenCall, ReadKinds, WriteKinds
<1> QED
  BY <1>1, <1>2, <1>3, <1>4, <1>5
  DEF Abstract!Outcome, Abstract!Complete, SeenCall, SeenMoved, SeenReply, InStep,
      IsBlockCall

\* A step of a block call that moves nothing.
LEMMA ReturnStep ==
    ASSUME IsBlockCall, op' = op, inStep' => inStep, result = "running",
           \/ result' = "running"
           \/ result' = "ok" /\ (Len(moved') = op.count \/ op.kind = "erase")
           \/ result' = "err",
           moved' = moved, store' = store
    PROVE  Abstract!Next
<1>1. Abstract!Outcome /\ IsBlockCall'
  BY OutcomeStep
<1>2. SeenReply = "running" /\ SeenMoved' = SeenMoved
  BY DEF SeenReply, SeenMoved
<1> QED
  BY <1>1, <1>2 DEF Abstract!Next, Abstract!Return, SeenReply, SeenMoved, IsBlockCall

\* A step of a block call out of step.
LEMMA UnpromisedStep ==
    ASSUME IsBlockCall, op' = op, inStep' => inStep, result = "running", ~InStep,
           store' \in [Blocks -> Data]
    PROVE  Abstract!Next
<1>1. ~inStep /\ ~InStep'
  BY DEF InStep
<1>2. SeenReply = "running" /\ SeenCall' = SeenCall
  BY DEF SeenReply, SeenCall
<1> QED
  BY <1>1, <1>2
  DEF Abstract!Next, Abstract!OutOfStep, SeenReply, SeenCall, IsBlockCall, InStep

\* The block of the call's next place is read.
LEMMA DeliverStep ==
    ASSUME IsBlockCall, op' = op, inStep' = inStep, result = "running", result' = result,
           op.kind \in ReadKinds, Len(moved) # op.count,
           op.first + Len(moved) \in Blocks,
           moved' = Append(moved, store[op.first + Len(moved)]), store' = store
    PROVE  Abstract!Next
<1>1. Abstract!Outcome /\ IsBlockCall'
  BY OutcomeStep
<1>2. SeenReply = "running" /\ SeenMoved = moved /\ SeenMoved' = moved'
  BY DEF SeenReply, SeenMoved, IsBlockCall
<1>3. SeenCall.op = "read" /\ SeenCall.count = op.count /\ SeenCall.first = op.first
  BY DEF SeenCall
<1>4. Abstract!Deliver
  BY <1>1, <1>2, <1>3
  DEF Abstract!Deliver, Abstract!Complete, Abstract!Place, SeenReply, SeenMoved, SeenCall,
      IsBlockCall
<1> QED
  BY <1>4 DEF Abstract!Next

\* The next block of the call's data is written to its place.
LEMMA StoreStep ==
    ASSUME IsBlockCall, op' = op, inStep' = inStep, result = "running", result' = result,
           op.kind \in WriteKinds, Len(moved) # op.count,
           op.first + Len(moved) \in Blocks,
           moved' = Append(moved, op.data[Len(moved) + 1]),
           store' = [store EXCEPT ![op.first + Len(moved)] = op.data[Len(moved) + 1]]
    PROVE  Abstract!Next
<1>1. Abstract!Outcome /\ IsBlockCall'
  BY OutcomeStep
<1>2. SeenReply = "running" /\ SeenMoved = moved /\ SeenMoved' = moved'
  BY DEF SeenReply, SeenMoved, IsBlockCall
<1>3. /\ SeenCall.op = "write" /\ SeenCall.count = op.count /\ SeenCall.first = op.first
      /\ SeenCall.data = op.data
  BY DEF SeenCall, ReadKinds, WriteKinds
<1>4. Abstract!Store
  BY <1>1, <1>2, <1>3
  DEF Abstract!Store, Abstract!Complete, Abstract!Place, SeenReply, SeenMoved, SeenCall,
      IsBlockCall
<1> QED
  BY <1>4 DEF Abstract!Next

\* The range of an erase is erased.
LEMMA EraseStep ==
    ASSUME IsBlockCall, op' = op, inStep' = inStep, result = "running",
           op.kind = "erase", result' \in {"running", "ok", "err"}, moved' = moved,
           store' = [b \in Blocks |-> IF b \in op.first .. op.first + op.count - 1
                                     THEN Erased ELSE store[b]]
    PROVE  Abstract!Next
<1>1. Abstract!Outcome /\ IsBlockCall'
  BY OutcomeStep
<1>2. SeenReply = "running" /\ SeenMoved' = SeenMoved
  BY DEF SeenReply, SeenMoved
<1>3. SeenCall.op = "erase" /\ SeenCall.count = op.count /\ SeenCall.first = op.first
  BY DEF SeenCall, ReadKinds, WriteKinds
<1>4. Abstract!Erase
  BY <1>1, <1>2, <1>3
  DEF Abstract!Erase, SeenReply, SeenMoved, SeenCall, IsBlockCall
<1> QED
  BY <1>4 DEF Abstract!Next
=============================================================================
