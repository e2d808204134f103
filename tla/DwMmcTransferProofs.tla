------------------------ MODULE DwMmcTransferProofs ------------------------
(***************************************************************************)
(* Proofs about DwMmcTransfer, for every set of cards, of addresses and of *)
(* faults, and every size of card, block and FIFO.                         *)
(***************************************************************************)
EXTENDS DwMmcTransfer, BlockCallsProofs, TLAPS

-----------------------------------------------------------------------------
(* What holds at every step.                                               *)

\* The steps of a transfer: before its command, with the engine, and by the CPU.
DmaPcs == {"DmaIssue", "DmaCommand", "DmaWait"}
PioPcs == {"PioIssue", "PioCommand", "PioRead", "PioWrite"}
TransferPcs == {"Attempt", "DmaArm"} \cup DmaPcs \cup PioPcs

\* The steps of an erase.
ErasePcs == {"Cmd32", "Await32", "Cmd33", "Await33", "Cmd38", "Await38"}

\* A step belongs to the call it is a step of.
CallInv ==
    /\ pc = "Idle" <=> result # "running"
    /\ pc \in TransferPcs => op.kind \in BlockKinds \cup {"switch"}
    /\ pc \in {"DmaArm"} \cup DmaPcs => op.kind \in BlockKinds
    /\ pc \in PioPcs => op.kind \notin DmaKinds
    /\ pc \in TransferPcs \ {"Attempt"} => op.count > 0
    /\ pc = "PioWrite" => op.kind \in WriteKinds
    /\ pc = "PioRead" => op.kind \notin WriteKinds
    /\ pc \in {"Cmd12", "Await12"} =>
          op.kind \in BlockKinds \ {"readBlocks"} /\ op.count > 1
    /\ pc \in {"Cmd13", "Await13"} => op.kind = "status"
    /\ pc \in ErasePcs => op.kind = "erase"
    /\ host.dma <=> pc \in DmaPcs

\* How many blocks a call has.
CountInv ==
    /\ op.kind \in {"readBlock", "writeBlock", "switch"} => op.count = 1
    /\ op.kind = "erase" => op.count > 0
    /\ op.kind \in WriteKinds => op.count = Len(op.data) /\ op.count > 0
    /\ base > 0 => op.kind = "readBlocks" /\ base < op.count

DwInv == TypeOK /\ CallInv /\ CountInv

-----------------------------------------------------------------------------
(* What holds while a call is in step.                                     *)

Writing == op.kind \in WriteKinds
Waits == host.queued # <<>>

AwaitPcs ==
    {"DmaCommand", "PioCommand", "Await12", "Await13", "Await32", "Await33", "Await38"}

\* The command that the driver waits for.
Awaited ==
    CASE pc \in {"DmaCommand", "PioCommand"} -> TransferCommand
      [] pc = "Await12" -> Command("stop", 0)
      [] pc = "Await13" -> Command("status", 0)
      [] pc = "Await32" -> Command("eraseStart", op.first)
      [] pc = "Await33" -> Command("eraseEnd", op.first + op.count - 1)
      [] OTHER -> Command("erase", 0)

\* Only that command waits in the controller.
QueueInv ==
    /\ ~host.gated
    /\ Waits => pc \in AwaitPcs /\ host.queued = <<Awaited>> /\ ~host.error

\* Nothing moves but in a data phase, and what a given up write has left: a path
\* that has no words, or whose card waits for more or is busy.
InPhase == pc \in {"DmaCommand", "DmaWait", "PioCommand", "PioRead", "PioWrite"} /\ ~Waits
RestInv ==
    ~InPhase =>
        /\ host.fifo = <<>>
        /\ host.path # "idle" =>
              /\ pc \in {"PioIssue", "PioCommand"} /\ host.path = "write"
              /\ host.left > 0 \/ dev.state \in {"prg", "rcv"}
        /\ pc \in {"DmaIssue", "DmaCommand", "PioCommand"} => at = 0
        /\ pc \in {"DmaCommand", "PioCommand"} =>
              dev.state # "prg" /\ (host.over => dev.state = "rcv")

\* A data phase that reads: what the path has received the FIFO holds or the call
\* has taken.
ReadInv ==
    InPhase /\ ~Writing =>
        /\ host.path # "write"
        /\ ~host.error =>
              /\ at + Len(host.fifo) + host.left = Count
              /\ \A i \in 1 .. Len(host.fifo) :
                    op.kind \in ReadKinds =>
                       /\ Start + at + i - 1 \in Blocks
                       /\ host.fifo[i] = store[Start + at + i - 1]
              /\ base + at <= Len(moved)
              /\ host.path = "read" => ~host.over
              /\ host.path = "idle" => host.left = 0 /\ (host.dma => host.fifo = <<>>)
              /\ dev.state \in {"tran", IF op.kind = "switch" THEN "status" ELSE "data"}
              /\ dev.state = "data" => dev.block = Start + at + Len(host.fifo)
              /\ dev.state \in {"data", "status"} => (dev.multi <=> Count > 1)
              /\ host.left = 0 => dev.state = IF Count > 1 THEN "data" ELSE "tran"

\* One that writes: what the call has given up the FIFO holds or the card has.
Written == Count - host.left
WriteInv ==
    InPhase /\ Writing =>
        /\ host.path # "read"
        /\ host.path = "write" =>
              /\ ~host.over
              /\ host.left <= Count /\ at = Written + Len(host.fifo) /\ at <= Count
              /\ \A i \in 1 .. Len(host.fifo) : host.fifo[i] = op.data[Written + i]
              /\ Written <= Len(moved)
              /\ dev.state = "rcv" => dev.block = Start + Written /\ (dev.multi <=> Count > 1)
              /\ host.left > 0 => dev.state \in {"rcv", "tran"}
              /\ host.left = 0 => dev.state = IF Count > 1 THEN "rcv" ELSE "prg"
        /\ host.path = "idle" /\ ~host.error =>
              /\ at = Count /\ host.fifo = <<>> /\ Count <= Len(moved)
              /\ dev.state = IF Count > 1 THEN "rcv" ELSE "tran"

\* A call that has moved everything stops the card where it has to be stopped.
StopInv ==
    /\ pc = "Cmd12" \/ (pc = "Await12" /\ Waits) =>
          dev.state = "rcv" \/ (dev.state = "data" /\ dev.multi)
    /\ pc = "Await12" /\ ~Waits /\ ~host.error => dev.state \in {"tran", "prg"}
    /\ pc \in {"Cmd12", "Await12"} => Len(moved) = op.count
    /\ result = "ok" /\ op.kind \in BlockKinds \ DmaKinds /\ op.count > 0 =>
          dev.state \in {"tran", "prg"}

\* What earlier turns and attempts have moved is as it was.
KeptInv ==
    result = "running" =>
        /\ base <= Len(moved)
        /\ op.kind \in BlockKinds =>
              \A i \in 1 .. Len(moved) :
                 /\ moved[i] = store[op.first + i - 1]
                 /\ Writing => moved[i] = op.data[i]

\* The card has the range of the erase, or none.
RangeInv ==
    /\ \/ pc = "Cmd33"
       \/ pc = "Await33" /\ Waits
       \/ pc = "Await32" /\ ~Waits /\ ~host.error
       => dev.seq \in {<<>>, <<op.first>>}
    /\ /\ Len(dev.seq) = 2
       /\ \/ pc = "Cmd38"
          \/ pc = "Await38" /\ Waits
          \/ pc = "Await33" /\ ~Waits /\ ~host.error
       => dev.seq[1] = op.first /\ dev.seq[2] = op.first + op.count - 1

Agreed == QueueInv /\ RestInv /\ ReadInv /\ WriteInv /\ StopInv /\ KeptInv /\ RangeInv
StepInv == InStep => Agreed

-----------------------------------------------------------------------------
(* The controller.                                                         *)

\* The calls and the card are well-formed, whichever the controller.
LEMMA CallsTyped == TypeOK => CallsTypeOK
BY DEF TypeOK

\* A controller, field by field.
Built(path, left, fifo, dma, over, error, queued, gated) ==
    [path |-> path, left |-> left, fifo |-> fifo, dma |-> dma, over |-> over,
     error |-> error, queued |-> queued, gated |-> gated]

Paths == {"idle", "read", "write"}

\* The controller is made of its fields.
LEMMA HostFields ==
    ASSUME TypeOK
    PROVE  /\ host = Built(host.path, host.left, host.fifo, host.dma, host.over,
                           host.error, host.queued, host.gated)
           /\ host.path \in Paths /\ host.left \in Nat /\ host.fifo \in Seq(Fill)
           /\ Len(host.fifo) <= FifoDepth /\ Len(host.fifo) \in Nat
           /\ host.dma \in BOOLEAN /\ host.over \in BOOLEAN /\ host.error \in BOOLEAN
           /\ host.queued \in Seq(CommandType) /\ Len(host.queued) <= 1
           /\ host.gated \in BOOLEAN
BY DEF TypeOK, Host, Built, Paths

\* A step leaves a controller with these fields.
Formed ==
    /\ host = Built(host.path, host.left, host.fifo, host.dma, host.over, host.error,
                    host.queued, host.gated)
    /\ host.dma \in BOOLEAN /\ host.over \in BOOLEAN /\ host.error \in BOOLEAN
    /\ host.gated \in BOOLEAN
Now(path, left, fifo, dma, over, error, queued, gated) ==
    /\ Formed'
    /\ host'.path = path /\ host'.left = left /\ host'.fifo = fifo
    /\ host'.queued = queued
    /\ host'.dma <=> dma
    /\ host'.over <=> over
    /\ host'.error <=> error
    /\ host'.gated <=> gated

\* A controller built of these fields has them.
LEMMA NowBuilt ==
    ASSUME NEW p, NEW l, NEW f, NEW d \in BOOLEAN, NEW o \in BOOLEAN, NEW e \in BOOLEAN,
           NEW q, NEW g \in BOOLEAN, host' = Built(p, l, f, d, o, e, q, g)
    PROVE  Now(p, l, f, d, o, e, q, g)
BY DEF Now, Formed, Built

\* Well-formed fields make a well-formed controller.
HostTyped == host \in Host /\ Len(host.fifo) <= FifoDepth /\ Len(host.queued) <= 1

\* A controller with fields like that is well-formed.
LEMMA NewTyped ==
    ASSUME Formed', host'.path \in Paths, host'.left \in Nat, host'.fifo \in Seq(Fill),
           Len(host'.fifo) <= FifoDepth, host'.queued \in Seq(CommandType),
           Len(host'.queued) <= 1
    PROVE  HostTyped'
BY DEF HostTyped, Host, Formed, Built, Paths

\* What the driver makes of the controller.
LEMMA Driven ==
    ASSUME TypeOK
    PROVE  /\ host' = host =>
              Now(host.path, host.left, host.fifo, host.dma, host.over, host.error,
                  host.queued, host.gated)
           /\ host' = Cleared =>
              Now(host.path, host.left, host.fifo, host.dma, FALSE, FALSE, host.queued,
                  host.gated)
           /\ \A x : host' = [Cleared EXCEPT !.queued = x] =>
              Now(host.path, host.left, host.fifo, host.dma, FALSE, FALSE, x, host.gated)
           /\ \A x \in BOOLEAN : host' = [Cleared EXCEPT !.dma = x] =>
              Now(host.path, host.left, host.fifo, x, FALSE, FALSE, host.queued, host.gated)
           /\ \A x : host' = [host EXCEPT !.fifo = x] =>
              Now(host.path, host.left, x, host.dma, host.over, host.error, host.queued,
                  host.gated)
           /\ host' = [host EXCEPT !.over = FALSE] =>
              Now(host.path, host.left, host.fifo, host.dma, FALSE, host.error, host.queued,
                  host.gated)
           /\ host' = Recovered =>
              Now(IF host.path = "read" THEN "idle" ELSE host.path,
                  IF host.path = "read" THEN 0 ELSE host.left,
                  <<>>, FALSE, FALSE, FALSE, host.queued, host.gated)
<1> DEFINE p == host.path
           l == host.left
           f == host.fifo
           d == host.dma
           o == host.over
           e == host.error
           q == host.queued
           g == host.gated
           no == FALSE
           h == Built(p, l, f, d, o, e, q, g)
           still == [host EXCEPT !.over = no]
           empty == [Cleared EXCEPT !.fifo = <<>>]
           reset == [empty EXCEPT !.dma = no]
           idle == [reset EXCEPT !.path = "idle"]
<1>1. host = h
  BY HostFields
<1>0. /\ d \in BOOLEAN /\ o \in BOOLEAN /\ e \in BOOLEAN /\ g \in BOOLEAN /\ no \in BOOLEAN
  BY HostFields
<1> HIDE DEF p, l, f, d, o, e, q, g, no
<1>2. still = Built(p, l, f, d, no, e, q, g)
  BY <1>1 DEF Built
<1>3. Cleared = [still EXCEPT !.error = no]
  BY DEF Cleared, no
<1> HIDE DEF still
<1>4. Cleared = Built(p, l, f, d, no, no, q, g)
  BY <1>2, <1>3 DEF Built
<1>5. Recovered = IF p = "read" THEN [idle EXCEPT !.left = 0] ELSE reset
  BY DEF Recovered, p, no
<1>6. empty = Built(p, l, <<>>, d, no, no, q, g)
  BY <1>4 DEF Built
<1> HIDE DEF empty
<1>7. reset = Built(p, l, <<>>, no, no, no, q, g)
  BY <1>6 DEF Built
<1> HIDE DEF reset
<1>8. idle = Built("idle", l, <<>>, no, no, no, q, g)
  BY <1>7 DEF Built
<1> HIDE DEF idle
<1>9. [idle EXCEPT !.left = 0] =
      Built("idle", 0, <<>>, no, no, no, q, g)
  BY <1>8 DEF Built
<1>10. ASSUME NEW x
       PROVE  /\ [Cleared EXCEPT !.queued = x] = Built(p, l, f, d, no, no, x, g)
              /\ [Cleared EXCEPT !.dma = x] = Built(p, l, f, x, no, no, q, g)
              /\ [host EXCEPT !.fifo = x] = Built(p, l, x, d, o, e, q, g)
  BY <1>1, <1>4 DEF Built
<1>11. Recovered = Built(IF p = "read" THEN "idle" ELSE p, IF p = "read" THEN 0 ELSE l,
                         <<>>, no, no, no, q, g)
  BY <1>5, <1>7, <1>9
<1>12. host' = host => Now(p, l, f, d, o, e, q, g)
  BY <1>0, <1>1, NowBuilt
<1>13. host' = Cleared => Now(p, l, f, d, no, no, q, g)
  BY <1>0, <1>4, NowBuilt
<1>14. \A x : host' = [Cleared EXCEPT !.queued = x] => Now(p, l, f, d, no, no, x, g)
  BY <1>0, <1>10, NowBuilt
<1>15. \A x \in BOOLEAN :
          host' = [Cleared EXCEPT !.dma = x] => Now(p, l, f, x, no, no, q, g)
  BY <1>0, <1>10, NowBuilt
<1>16. \A x : host' = [host EXCEPT !.fifo = x] => Now(p, l, x, d, o, e, q, g)
  BY <1>0, <1>10, NowBuilt
<1>17. host' = still => Now(p, l, f, d, no, e, q, g)
  BY <1>0, <1>2, NowBuilt
<1>18. host' = Recovered =>
          Now(IF p = "read" THEN "idle" ELSE p, IF p = "read" THEN 0 ELSE l,
              <<>>, no, no, no, q, g)
  BY <1>0, <1>11, NowBuilt
<1> QED
  BY <1>12, <1>13, <1>14, <1>15, <1>16, <1>17, <1>18
  DEF no, still, p, l, f, d, o, e, q, g

\* What the hardware makes of it.
LEMMA Moving ==
    ASSUME TypeOK
    PROVE  /\ host' = Ended =>
              Now("idle", 0, host.fifo, host.dma, TRUE, host.error, host.queued, host.gated)
           /\ \A x : host' = [Ended EXCEPT !.error = TRUE, !.fifo = x] =>
              Now("idle", 0, x, host.dma, TRUE, TRUE, host.queued, host.gated)
           /\ \A x : host' = [host EXCEPT !.fifo = x, !.left = @ - 1] =>
              Now(host.path, host.left - 1, x, host.dma, host.over, host.error, host.queued,
                  host.gated)
           /\ \A x : host' = [host EXCEPT !.error = TRUE, !.fifo = x, !.left = @ - 1] =>
              Now(host.path, host.left - 1, x, host.dma, host.over, TRUE, host.queued,
                  host.gated)
           /\ host' = [host EXCEPT !.gated = TRUE] =>
              Now(host.path, host.left, host.fifo, host.dma, host.over, host.error,
                  host.queued, TRUE)
<1> DEFINE p == host.path
           l == host.left
           f == host.fifo
           d == host.dma
           o == host.over
           e == host.error
           q == host.queued
           g == host.gated
           yes == TRUE
           h == Built(p, l, f, d, o, e, q, g)
           idle == [host EXCEPT !.path = "idle"]
           none == [idle EXCEPT !.left = 0]
           bad == [host EXCEPT !.error = yes]
<1>1. host = h
  BY HostFields
<1>0. /\ d \in BOOLEAN /\ o \in BOOLEAN /\ e \in BOOLEAN /\ g \in BOOLEAN /\ yes \in BOOLEAN
  BY HostFields
<1> HIDE DEF p, l, f, d, o, e, q, g, yes
<1>2. idle = Built("idle", l, f, d, o, e, q, g)
  BY <1>1 DEF Built
<1>3. Ended = [none EXCEPT !.over = yes]
  BY DEF Ended, yes
<1> HIDE DEF idle
<1>4. none = Built("idle", 0, f, d, o, e, q, g)
  BY <1>2 DEF Built
<1> HIDE DEF none
<1>5. Ended = Built("idle", 0, f, d, yes, e, q, g)
  BY <1>3, <1>4 DEF Built
<1>6. ASSUME NEW x
      PROVE  [Ended EXCEPT !.error = yes, !.fifo = x] =
             Built("idle", 0, x, d, yes, yes, q, g)
  <2> DEFINE s == [Ended EXCEPT !.error = yes]
  <2>1. [Ended EXCEPT !.error = yes, !.fifo = x] = [s EXCEPT !.fifo = x]
    OBVIOUS
  <2>2. s = Built("idle", 0, f, d, yes, yes, q, g)
    BY <1>5 DEF Built
  <2> HIDE DEF s
  <2> QED
    BY <2>1, <2>2 DEF Built
<1>7. ASSUME NEW x
      PROVE  [host EXCEPT !.fifo = x, !.left = @ - 1] =
             Built(p, l - 1, x, d, o, e, q, g)
  <2> DEFINE s == [host EXCEPT !.fifo = x]
  <2>1. s = Built(p, l, x, d, o, e, q, g)
    BY <1>1 DEF Built
  <2>2. [host EXCEPT !.fifo = x, !.left = @ - 1] = [s EXCEPT !.left = @ - 1]
    OBVIOUS
  <2> HIDE DEF s
  <2>3. s.left = l
    BY <2>1 DEF Built
  <2>4. [s EXCEPT !.left = @ - 1] = [s EXCEPT !.left = l - 1]
    BY <2>3
  <2> QED
    BY <2>1, <2>2, <2>4 DEF Built
<1>8. ASSUME NEW x
      PROVE  [host EXCEPT !.error = yes, !.fifo = x, !.left = @ - 1] =
             Built(p, l - 1, x, d, o, yes, q, g)
  <2> DEFINE s == [bad EXCEPT !.fifo = x]
  <2>1. bad = Built(p, l, f, d, o, yes, q, g)
    BY <1>1 DEF Built
  <2>2. [host EXCEPT !.error = yes, !.fifo = x, !.left = @ - 1] = [s EXCEPT !.left = @ - 1]
    OBVIOUS
  <2> HIDE DEF bad
  <2>3. s = Built(p, l, x, d, o, yes, q, g)
    BY <2>1 DEF Built
  <2> HIDE DEF s
  <2>4. s.left = l
    BY <2>3 DEF Built
  <2>5. [s EXCEPT !.left = @ - 1] = [s EXCEPT !.left = l - 1]
    BY <2>4
  <2> QED
    BY <2>2, <2>3, <2>5 DEF Built
<1>9. [host EXCEPT !.gated = yes] =
      Built(p, l, f, d, o, e, q, yes)
  BY <1>1 DEF Built
<1>10. host' = Ended => Now("idle", 0, f, d, yes, e, q, g)
  BY <1>0, <1>5, NowBuilt
<1>11. ASSUME NEW x, host' = [Ended EXCEPT !.error = yes, !.fifo = x]
       PROVE  Now("idle", 0, x, d, yes, yes, q, g)
  <2>1. host' = Built("idle", 0, x, d, yes, yes, q, g)
    BY <1>11, <1>6
  <2> QED
    BY <1>0, <2>1, NowBuilt
<1>12. ASSUME NEW x, host' = [host EXCEPT !.fifo = x, !.left = @ - 1]
       PROVE  Now(p, l - 1, x, d, o, e, q, g)
  <2>1. host' = Built(p, l - 1, x, d, o, e, q, g)
    BY <1>12, <1>7
  <2> QED
    BY <1>0, <2>1, NowBuilt
<1>13. ASSUME NEW x, host' = [host EXCEPT !.error = yes, !.fifo = x, !.left = @ - 1]
       PROVE  Now(p, l - 1, x, d, o, yes, q, g)
  <2>1. host' = Built(p, l - 1, x, d, o, yes, q, g)
    BY <1>13, <1>8
  <2> QED
    BY <1>0, <2>1, NowBuilt
<1>14. host' = [host EXCEPT !.gated = yes] => Now(p, l, f, d, o, e, q, yes)
  BY <1>0, <1>9, NowBuilt
<1> QED
  BY <1>10, <1>11, <1>12, <1>13, <1>14 DEF yes, p, l, f, d, o, e, q, g

-----------------------------------------------------------------------------
(* What the types say.                                                     *)

(* The parts of TypeOK besides HostTyped.                                  *)
ControlTyped ==
    pc \in PcSet /\ result \in {"none", "running", "ok", "err"} /\ base \in Nat
CallTyped ==
    /\ op \in Operation /\ at \in Nat /\ calls \in Nat /\ inStep \in BOOLEAN
    /\ moved \in Seq(Data \cup {"switched"}) /\ Len(moved) <= op.count
    /\ setup \in [highCapacity : BOOLEAN, dma : BOOLEAN]
CardTyped == dev \in Device /\ store \in [Blocks -> Data]

\* The parts make the whole.
LEMMA TypeFromParts == ControlTyped' /\ CallTyped' /\ CardTyped' /\ HostTyped' => TypeOK'
BY DEF TypeOK, CallsTypeOK, ControlTyped, CallTyped, CardTyped, HostTyped

\* And it has its parts.
LEMMA Parts == TypeOK => ControlTyped /\ CallTyped /\ CardTyped /\ HostTyped
BY DEF TypeOK, CallsTypeOK, ControlTyped, CallTyped, CardTyped, HostTyped

\* What does not touch a part keeps its type.
LEMMA Kept ==
    ASSUME TypeOK
    PROVE  /\ UNCHANGED <<pc, result, base>> => ControlTyped'
           /\ UNCHANGED <<op, at, moved, calls, inStep, setup>> => CallTyped'
           /\ UNCHANGED <<dev, store>> => CardTyped'
           /\ host' = host => HostTyped'
BY Parts DEF ControlTyped, CallTyped, CardTyped, HostTyped

\* However a call goes on, control keeps its type.
LEMMA Controls ==
    ASSUME TypeOK
    PROVE  /\ \A p \in PcSet : Goto(p) => ControlTyped'
           /\ Fail => ControlTyped'
           /\ Finish => ControlTyped'
           /\ Retry => ControlTyped'
           /\ Transferred => ControlTyped'
<1>1. \A p \in PcSet : Goto(p) => ControlTyped'
  BY DEF TypeOK, CallsTypeOK, ControlTyped, Goto
<1>2. (Fail => ControlTyped') /\ (Finish => ControlTyped')
  BY DEF TypeOK, CallsTypeOK, ControlTyped, Fail, Finish, PcSet
<1>3. Retry => ControlTyped'
  BY <1>1, <1>2 DEF Retry, PcSet
<1>4. "Attempt" \in PcSet /\ "Cmd12" \in PcSet
  BY DEF PcSet
<1>5. base \in Nat /\ result \in {"none", "running", "ok", "err"}
  BY DEF TypeOK, CallsTypeOK
<1>6. Transferred => \/ pc' = "Attempt" /\ base' = base + 1 /\ result' = result
                     \/ Goto("Cmd12") \/ Finish
  BY DEF Transferred
<1>7. Transferred => ControlTyped'
  BY <1>1, <1>2, <1>4, <1>5, <1>6 DEF ControlTyped
<1> QED
  BY <1>1, <1>2, <1>3, <1>7

\* The commands of the driver are well-formed.
LEMMA Commands ==
    ASSUME TypeOK
    PROVE  /\ TransferCommand \in CommandType
           /\ TransferCommand.index = IF op.kind \in ReadKinds THEN "read"
                                      ELSE IF Writing THEN "write" ELSE "switch"
           /\ TransferCommand.block = Start /\ TransferCommand.count = Count
           /\ \A i \in PlainIndex, a \in Nat :
                 /\ Command(i, a) \in CommandType /\ Command(i, a).block = a
                 /\ Command(i, a).index = i /\ Command(i, a).count = Count
<1>1. Count \in Nat /\ Start \in Nat
  BY CallsTyped, Counts
<1>2. ASSUME NEW i \in DataIndex \cup PlainIndex, NEW a \in Nat
      PROVE  /\ Command(i, a) \in CommandType /\ Command(i, a).block = a
             /\ Command(i, a).index = i /\ Command(i, a).count = Count
  BY <1>1, <1>2, Addressing DEF Command, CommandType
<1>3. op.kind \in ReadKinds => op.kind \notin WriteKinds
  BY DEF ReadKinds, WriteKinds
<1>4. TransferCommand = Command(IF op.kind \in ReadKinds THEN "read"
                                ELSE IF Writing THEN "write" ELSE "switch", Start)
  BY <1>3 DEF TransferCommand, Writing
<1> QED
  BY <1>1, <1>2, <1>4 DEF DataIndex

\* Whatever command goes out, the card and what it stores stay well-formed.
LEMMA ObeyedTyped ==
    ASSUME CallsTypeOK, NEW cmd \in CommandType
    PROVE  Obeyed(cmd) \in Device /\ StoreAfter(cmd) \in [Blocks -> Data]
<1>1. cmd.block \in Nat /\ cmd.index \in DataIndex \cup PlainIndex
  BY DEF CommandType
<1> DEFINE multi == cmd.count > 1
<1>2. multi \in BOOLEAN
  OBVIOUS
<1> HIDE DEF multi
<1>3. /\ Do("tran") \in Device /\ Do("prg") \in Device /\ Do("status") \in Device
      /\ dev \in Device
      /\ Named(<<>>, cmd.block) \in Device /\ Named(dev.seq, cmd.block) \in Device
  BY <1>1, Becomes, Names DEF CardStates, CallsTypeOK
<1>4. Opened("data", multi, cmd.block) \in Device /\ Opened("rcv", multi, cmd.block) \in Device
  BY <1>1, <1>2, Opens DEF CardStates
<1>5. [Do("status") EXCEPT !.multi = FALSE] \in Device
  <2> DEFINE s == Do("status")
  <2>1. s \in Device
    BY <1>3
  <2> HIDE DEF s
  <2>2. [s EXCEPT !.multi = FALSE] \in Device
    BY <2>1 DEF Device
  <2> QED
    BY <2>2 DEF s
<1>6. CASE cmd.index = "read"
  <2>1. Obeyed(cmd) \in {Do("tran"), Opened("data", multi, cmd.block)}
    BY <1>6 DEF Obeyed, Opened, multi
  <2> QED
    BY <1>3, <1>4, <1>6, <2>1 DEF StoreAfter, CallsTypeOK
<1>7. CASE cmd.index = "write"
  <2>1. Obeyed(cmd) \in {Do("tran"), Opened("rcv", multi, cmd.block)}
    BY <1>7 DEF Obeyed, Opened, multi
  <2> QED
    BY <1>3, <1>4, <1>7, <2>1 DEF StoreAfter, CallsTypeOK
<1>8. CASE cmd.index = "switch"
  <2>1. Obeyed(cmd) = [Do("status") EXCEPT !.multi = FALSE]
    BY <1>8 DEF Obeyed
  <2> QED
    BY <1>5, <1>8, <2>1 DEF StoreAfter, CallsTypeOK
<1>9. CASE cmd.index \in PlainIndex
  <2>1. Obeyed(cmd) \in {Do("tran"), Do("prg"), dev, Named(<<>>, cmd.block),
                         Named(dev.seq, cmd.block)}
    <3>1. CASE cmd.index \in {"stop", "status"}
      BY <3>1 DEF Obeyed
    <3>2. CASE cmd.index \in {"eraseStart", "eraseEnd"}
      BY <3>2 DEF Obeyed
    <3>3. CASE cmd.index = "erase"
      BY <3>3 DEF Obeyed
    <3> QED
      BY <1>9, <3>1, <3>2, <3>3 DEF PlainIndex
  <2>2. StoreAfter(cmd) \in [Blocks -> Data]
    BY ContentsAssumption DEF StoreAfter, CallsTypeOK
  <2> QED
    BY <1>3, <2>1, <2>2
<1> QED
  BY <1>1, <1>6, <1>7, <1>8, <1>9 DEF DataIndex

\* A block at any place of a call is put into its buffer or behind it.
LEMMA PutTyped ==
    ASSUME CallsTypeOK, NEW n \in Nat, n > 0, base + n <= op.count,
           NEW v \in Data \cup {"switched"}, Moved(n, v)
    PROVE  moved' \in Seq(Data \cup {"switched"}) /\ Len(moved') <= op.count
<1> DEFINE place == base + n
<1>1. /\ place \in Nat /\ place > 0 /\ place <= op.count /\ op.count \in Nat
      /\ moved \in Seq(Data \cup {"switched"}) /\ Len(moved) <= op.count
      /\ Len(moved) \in Nat
  BY DEF CallsTypeOK, Operation
<1>2. moved' = IF place <= Len(moved) THEN [moved EXCEPT ![place] = v] ELSE Append(moved, v)
  BY DEF Moved
<1> HIDE DEF place
<1>3. CASE place <= Len(moved)
  <2>1. [moved EXCEPT ![place] = v] \in Seq(Data \cup {"switched"})
    BY <1>1, <1>3
  <2>2. Len([moved EXCEPT ![place] = v]) = Len(moved)
    BY <1>1, <1>3
  <2> QED
    BY <1>1, <1>2, <1>3, <2>1, <2>2
<1>4. CASE ~(place <= Len(moved))
  <2>1. /\ Append(moved, v) \in Seq(Data \cup {"switched"})
        /\ Len(Append(moved, v)) = Len(moved) + 1
    BY <1>1
  <2>2. Len(moved) + 1 <= op.count
    BY <1>1, <1>4
  <2> QED
    BY <1>2, <1>4, <2>1, <2>2
<1> QED
  BY <1>3, <1>4

\* The next block of a data phase is one of the call's.
LEMMA Within ==
    ASSUME DwInv, at < Count, op.count > 0
    PROVE  /\ base + (at + 1) <= op.count /\ at + 1 \in Nat /\ at + 1 > 0
           /\ Writing => base = 0 /\ Count = op.count /\ op.data[at + 1] \in Data
<1>1. Count \in Nat /\ at \in Nat /\ base \in Nat /\ op.count \in Nat
  BY CallsTyped, Counts DEF DwInv, TypeOK, CallsTypeOK
<1>2. CASE op.kind = "readBlocks"
  <2>1. at = 0 /\ op.kind \notin WriteKinds
    BY <1>1, <1>2 DEF Count, WriteKinds
  <2>2. base < op.count \/ base = 0
    BY <1>1 DEF DwInv, CountInv
  <2> QED
    BY <1>1, <2>1, <2>2 DEF Writing
<1>3. CASE op.kind # "readBlocks"
  <2>1. base = 0 /\ Count = op.count
    BY <1>1, <1>3 DEF DwInv, CountInv, Count
  <2>2. op.data \in Seq(Data) /\ (Writing => op.count = Len(op.data))
    BY DEF DwInv, TypeOK, CallsTypeOK, Operation, CountInv, Writing
  <2>3. Writing => op.data[at + 1] \in Data
    BY <1>1, <2>1, <2>2
  <2> QED
    BY <1>1, <2>1, <2>3
<1> QED
  BY <1>2, <1>3

-----------------------------------------------------------------------------
(* How a call goes on.                                                     *)

\* What a step of the driver does to control fits the call that it is a step of.
LEMMA Fails ==
    ASSUME DwInv, Fail \/ Finish, op' = op, ~host'.dma
    PROVE  ControlTyped' /\ CallInv' /\ CountInv'
<1>1. pc' = "Idle" /\ result' \in {"ok", "err"} /\ base' = base
  BY DEF Fail, Finish
<1>2. ControlTyped'
  BY Controls DEF DwInv
<1>3. CallInv'
  BY <1>1 DEF CallInv, TransferPcs, DmaPcs, PioPcs, ErasePcs
<1>4. CountInv'
  BY <1>1 DEF DwInv, CountInv
<1> QED
  BY <1>2, <1>3, <1>4

\* A call goes on at a step that fits it.
LEMMA Goes ==
    ASSUME DwInv, NEW p \in PcSet \ {"Idle"}, Goto(p), op' = op, result = "running",
           p \in TransferPcs => op.kind \in BlockKinds \cup {"switch"},
           p \in {"DmaArm"} \cup DmaPcs => op.kind \in BlockKinds,
           p \in PioPcs => op.kind \notin DmaKinds,
           p \in TransferPcs \ {"Attempt"} => op.count > 0,
           p = "PioWrite" => op.kind \in WriteKinds,
           p = "PioRead" => op.kind \notin WriteKinds,
           p \in {"Cmd12", "Await12"} =>
              op.kind \in BlockKinds \ {"readBlocks"} /\ op.count > 1,
           p \in {"Cmd13", "Await13"} => op.kind = "status",
           p \in ErasePcs => op.kind = "erase",
           host'.dma <=> p \in DmaPcs
    PROVE  ControlTyped' /\ CallInv' /\ CountInv'
<1>1. pc' = p /\ result' = result /\ base' = base
  BY DEF Goto
<1>2. ControlTyped'
  BY Controls DEF DwInv
<1>3. CallInv'
  BY <1>1 DEF CallInv
<1>4. CountInv'
  BY <1>1 DEF DwInv, CountInv
<1> QED
  BY <1>2, <1>3, <1>4

\* After a failed attempt with the engine the CPU tries, or the call ends.
LEMMA Retries ==
    ASSUME DwInv, Retry, pc \in {"Attempt", "DmaArm"} \cup DmaPcs, op.count > 0, op' = op,
           ~host'.dma
    PROVE  ControlTyped' /\ CallInv' /\ CountInv'
<1>1. result = "running" /\ op.kind \in BlockKinds \cup {"switch"}
  BY DEF DwInv, CallInv, TransferPcs, DmaPcs
<1>2. CASE op.kind \in DmaKinds
  BY <1>2, Fails DEF Retry
<1>3. CASE op.kind \notin DmaKinds
  <2>1. Goto("PioIssue")
    BY <1>3 DEF Retry
  <2> QED
    BY <1>1, <1>3, <2>1, Goes DEF TransferPcs, DmaPcs, PioPcs, ErasePcs, PcSet
<1> QED
  BY <1>2, <1>3

\* A data phase that is complete is followed by the next turn, the stop of the call
\* or its end.
LEMMA Completes ==
    ASSUME DwInv, Transferred \/ (DmaDone /\ pc = "DmaWait"),
           pc \in {"DmaWait", "PioRead", "PioWrite"}, op' = op, ~host'.dma
    PROVE  ControlTyped' /\ CallInv' /\ CountInv'
<1>1. result = "running" /\ op.count > 0 /\ op.kind \in BlockKinds \cup {"switch"}
  BY DEF DwInv, CallInv, TransferPcs, DmaPcs, PioPcs
<1>2. CASE /\ op.kind = "readBlocks" /\ base + 1 < op.count
           /\ pc' = "Attempt" /\ base' = base + 1 /\ result' = result
  <2>1. ControlTyped'
    BY <1>2 DEF ControlTyped, DwInv, TypeOK, CallsTypeOK, PcSet
  <2>2. CallInv'
    BY <1>1, <1>2
    DEF CallInv, TransferPcs, DmaPcs, PioPcs, ErasePcs, BlockKinds, ReadKinds
  <2>3. CountInv'
    BY <1>2 DEF DwInv, CountInv, WriteKinds
  <2> QED
    BY <2>1, <2>2, <2>3
<1>3. CASE Goto("Cmd12") /\ op.kind \in BlockKinds \ {"readBlocks"} /\ op.count > 1
  BY <1>1, <1>3, Goes DEF TransferPcs, DmaPcs, PioPcs, ErasePcs, PcSet
<1>4. CASE Finish
  BY <1>4, Fails
<1>5. {"readBlocksInto", "writeBlocks"} \cup DmaKinds \subseteq BlockKinds \ {"readBlocks"}
  BY DEF BlockKinds, ReadKinds, WriteKinds, DmaKinds
<1> QED
  BY <1>2, <1>3, <1>4, <1>5 DEF Transferred, DmaDone

-----------------------------------------------------------------------------
(* The steps of the driver keep what holds at every step.                  *)

\* What the driver makes of the controller is well-formed.
LEMMA DrivenTyped ==
    ASSUME TypeOK
    PROVE  /\ host' = Cleared => HostTyped' /\ host'.dma = host.dma
           /\ \A c \in CommandType :
                 host' = [Cleared EXCEPT !.queued = <<c>>] => HostTyped' /\ host'.dma = host.dma
           /\ \A x \in BOOLEAN :
                 host' = [Cleared EXCEPT !.dma = x] => HostTyped' /\ host'.dma = x
           /\ \A x \in Seq(Fill) :
                 Len(x) <= FifoDepth /\ host' = [host EXCEPT !.fifo = x] =>
                    HostTyped' /\ host'.dma = host.dma
           /\ host' = [host EXCEPT !.over = FALSE] => HostTyped' /\ host'.dma = host.dma
           /\ host' = Recovered => HostTyped' /\ ~host'.dma
<1>1. /\ host.path \in Paths /\ host.left \in Nat /\ host.fifo \in Seq(Fill)
      /\ Len(host.fifo) <= FifoDepth /\ host.dma \in BOOLEAN
      /\ host.queued \in Seq(CommandType) /\ Len(host.queued) <= 1
  BY HostFields
<1>2. <<>> \in Seq(Fill) /\ Len(<<>>) <= FifoDepth
  BY FifoAssumption
<1>3. \A c \in CommandType : <<c>> \in Seq(CommandType) /\ Len(<<c>>) <= 1
  OBVIOUS
<1>4. host' = Cleared => HostTyped' /\ host'.dma = host.dma
  BY <1>1, Driven, NewTyped DEF Now, Formed
<1>5. ASSUME NEW c \in CommandType, host' = [Cleared EXCEPT !.queued = <<c>>]
      PROVE  HostTyped' /\ host'.dma = host.dma
  <2> DEFINE q == <<c>>
  <2>1. q \in Seq(CommandType) /\ Len(q) <= 1
    BY <1>3
  <2> HIDE DEF q
  <2>2. Now(host.path, host.left, host.fifo, host.dma, FALSE, FALSE, q, host.gated)
    BY <1>5, Driven DEF q
  <2> QED
    BY <1>1, <2>1, <2>2, NewTyped DEF Now, Formed
<1>6. ASSUME NEW x \in BOOLEAN, host' = [Cleared EXCEPT !.dma = x]
      PROVE  HostTyped' /\ host'.dma = x
  BY <1>1, <1>6, Driven, NewTyped DEF Now, Formed
<1>7. ASSUME NEW x \in Seq(Fill), Len(x) <= FifoDepth, host' = [host EXCEPT !.fifo = x]
      PROVE  HostTyped' /\ host'.dma = host.dma
  BY <1>1, <1>7, Driven, NewTyped DEF Now, Formed
<1>8. host' = [host EXCEPT !.over = FALSE] => HostTyped' /\ host'.dma = host.dma
  BY <1>1, Driven, NewTyped DEF Now, Formed
<1>9. ASSUME host' = Recovered PROVE HostTyped' /\ ~host'.dma
  <2>1. Now(IF host.path = "read" THEN "idle" ELSE host.path,
            IF host.path = "read" THEN 0 ELSE host.left,
            <<>>, FALSE, FALSE, FALSE, host.queued, host.gated)
    BY <1>9, Driven
  <2>2. host'.path \in Paths /\ host'.left \in Nat /\ host'.fifo = <<>>
    BY <1>1, <2>1 DEF Now, Paths
  <2> QED
    BY <1>1, <1>2, <2>1, <2>2, NewTyped DEF Now
<1> QED
  BY <1>4, <1>5, <1>6, <1>7, <1>8, <1>9

\* A command is issued, or the driver gives it up.
LEMMA IssueTyped ==
    ASSUME DwInv, NEW c \in CommandType, NEW p, NEW Err, Issue(c, p, Err), ~host.dma
    PROVE  HostTyped' /\ ~host'.dma /\ (Goto(p) \/ Err)
BY DrivenTyped, Kept DEF Issue, DwInv

\* Before its command.
LEMMA AttemptTyped == DwInv /\ Attempt => DwInv'
<1> SUFFICES ASSUME DwInv, Attempt PROVE DwInv'
  OBVIOUS
<1>0. TypeOK /\ CallInv /\ pc = "Attempt" /\ ~host.dma
  BY DEF DwInv, Attempt, CallInv, DmaPcs
<1>1. UNCHANGED <<op, at, moved, calls, inStep, setup, host, dev, store>>
  BY DEF Attempt, CardAlone, Local
<1>2. HostTyped' /\ CallTyped' /\ CardTyped' /\ ~host'.dma
  BY <1>0, <1>1, Kept
<1>3. result = "running" /\ op.kind \in BlockKinds \cup {"switch"}
  BY <1>0 DEF CallInv, TransferPcs
<1>4. CASE Finish
  BY <1>0, <1>1, <1>2, <1>4, Fails, TypeFromParts DEF DwInv
<1>5. CASE op.count > 0 /\ Goto("DmaArm") /\ op.kind # "switch"
  BY <1>0, <1>1, <1>2, <1>3, <1>5, Goes, TypeFromParts
  DEF DwInv, TransferPcs, PioPcs, DmaPcs, ErasePcs, PcSet
<1>6. CASE op.count > 0 /\ Retry
  BY <1>0, <1>1, <1>2, <1>6, Retries, TypeFromParts DEF DwInv
<1> QED
  BY <1>4, <1>5, <1>6 DEF Attempt

\* The engine is set up.
LEMMA DmaArmTyped == DwInv /\ DmaArm => DwInv'
<1> SUFFICES ASSUME DwInv, DmaArm PROVE DwInv'
  OBVIOUS
<1>0. TypeOK /\ CallInv /\ pc = "DmaArm" /\ ~host.dma
  BY DEF DwInv, DmaArm, CallInv, DmaPcs
<1>1. UNCHANGED <<op, moved, calls, inStep, setup, dev, store>> /\ at' = 0
  BY DEF DmaArm, CardAlone, Local
<1>2. CallTyped' /\ CardTyped'
  BY <1>0, <1>1, Parts DEF CallTyped, CardTyped
<1>3. result = "running" /\ op.kind \in BlockKinds /\ op.count > 0
  BY <1>0 DEF CallInv, TransferPcs
<1>4. CASE host' = [Cleared EXCEPT !.dma = TRUE] /\ Goto("DmaIssue")
  <2>1. HostTyped'
    BY <1>0, <1>4, DrivenTyped
  <2> QED
    BY <1>1, <1>2, <1>3, <1>4, <2>1, Goes, TypeFromParts
    DEF DwInv, TransferPcs, PioPcs, DmaPcs, ErasePcs, PcSet
<1>5. CASE host' = Cleared /\ Retry
  <2>1. HostTyped' /\ ~host'.dma
    BY <1>0, <1>5, DrivenTyped
  <2> QED
    BY <1>0, <1>1, <1>2, <1>3, <1>5, <2>1, Retries, TypeFromParts DEF DwInv
<1> QED
  BY <1>4, <1>5 DEF DmaArm

\* With the engine.
LEMMA DmaTyped == DwInv /\ (DmaIssue \/ DmaCommand \/ DmaWait) => DwInv'
<1> SUFFICES ASSUME DwInv, DmaIssue \/ DmaCommand \/ DmaWait PROVE DwInv'
  OBVIOUS
<1>0. TypeOK /\ CallInv /\ pc \in DmaPcs /\ host.dma
  BY DEF DwInv, CallInv, DmaIssue, DmaCommand, DmaWait, DmaPcs
<1>1. UNCHANGED <<op, at, moved, calls, inStep, setup, dev, store>>
  BY DEF DmaIssue, DmaCommand, DmaWait, CardAlone, Local
<1>2. CallTyped' /\ CardTyped'
  BY <1>0, <1>1, Kept
<1>3. result = "running" /\ op.kind \in BlockKinds /\ op.count > 0
  BY <1>0 DEF CallInv, TransferPcs, DmaPcs
<1>4. CASE GiveUp
  <2>1. HostTyped' /\ ~host'.dma
    BY <1>0, <1>4, DrivenTyped DEF GiveUp
  <2> QED
    BY <1>0, <1>1, <1>2, <1>3, <1>4, <2>1, Retries, TypeFromParts DEF DwInv, GiveUp
<1>5. CASE host' = [Cleared EXCEPT !.queued = <<TransferCommand>>] /\ Goto("DmaCommand")
  <2>1. HostTyped' /\ host'.dma
    BY <1>0, <1>5, DrivenTyped, Commands
  <2> QED
    BY <1>1, <1>2, <1>3, <1>5, <2>1, Goes, TypeFromParts
    DEF DwInv, TransferPcs, PioPcs, DmaPcs, ErasePcs, PcSet
<1>6. CASE host' = host /\ Goto("DmaWait")
  <2>1. HostTyped' /\ host'.dma
    BY <1>0, <1>6, Kept
  <2> QED
    BY <1>1, <1>2, <1>3, <1>6, <2>1, Goes, TypeFromParts
    DEF DwInv, TransferPcs, PioPcs, DmaPcs, ErasePcs, PcSet
<1>7. CASE pc = "DmaWait" /\ host' = [Cleared EXCEPT !.dma = FALSE] /\ DmaDone
  <2>1. HostTyped' /\ ~host'.dma
    BY <1>0, <1>7, DrivenTyped
  <2> QED
    BY <1>1, <1>2, <1>7, <2>1, Completes, TypeFromParts DEF DwInv
<1>8. CASE DmaIssue
  BY <1>4, <1>5, <1>8 DEF DmaIssue
<1>9. CASE DmaCommand
  BY <1>4, <1>6, <1>9 DEF DmaCommand, Await
<1>10. CASE DmaWait
  BY <1>4, <1>7, <1>10 DEF DmaWait
<1> QED
  BY <1>8, <1>9, <1>10

\* By the CPU.
LEMMA PioTyped == DwInv /\ (PioIssue \/ PioCommand \/ PioWrite) => DwInv'
<1> SUFFICES ASSUME DwInv, PioIssue \/ PioCommand \/ PioWrite PROVE DwInv'
  OBVIOUS
<1>0. TypeOK /\ CallInv /\ pc \in {"PioIssue", "PioCommand", "PioWrite"}
  BY DEF DwInv, PioIssue, PioCommand, PioWrite
<1>1. UNCHANGED <<op, moved, calls, inStep, setup, dev, store>>
  BY DEF PioIssue, PioCommand, PioWrite, CardAlone, Local
<1>2. /\ result = "running" /\ op.kind \in BlockKinds \cup {"switch"} /\ op.count > 0
      /\ op.kind \notin DmaKinds /\ ~host.dma
  BY <1>0 DEF CallInv, TransferPcs, DmaPcs, PioPcs
<1>3. at \in Nat /\ host.fifo \in Seq(Fill) /\ Len(host.fifo) \in Nat /\ FifoDepth \in Nat
  BY <1>0, HostFields, FifoAssumption DEF TypeOK, CallsTypeOK
<1>4. CardTyped' /\ (at' \in Nat => CallTyped')
  BY <1>0, <1>1, Parts DEF CallTyped, CardTyped
<1>5. CASE Fail \/ Finish
  <2>1. HostTyped' /\ ~host'.dma /\ at' \in Nat
    <3>1. host' \in {host, FifoReset, [host EXCEPT !.over = FALSE]} /\ at' \in {0, at}
      <4>1. CASE PioIssue
        BY <1>5, <4>1 DEF PioIssue, Issue, Goto, Fail, Finish
      <4>2. CASE PioCommand
        BY <4>2 DEF PioCommand
      <4>3. CASE PioWrite
        BY <1>0, <1>5, <4>3 DEF PioWrite, Goto, Fail, Finish
      <4> QED
        BY <4>1, <4>2, <4>3
    <3>2. <<>> \in Seq(Fill) /\ Len(<<>>) <= FifoDepth
      BY <1>3
    <3>3. at' \in Nat
      BY <1>3, <3>1
    <3>4. HostTyped' /\ ~host'.dma
      BY <1>0, <1>2, <3>1, <3>2, Kept, DrivenTyped DEF FifoReset
    <3> QED
      BY <3>3, <3>4
  <2> QED
    BY <1>0, <1>1, <1>4, <1>5, <2>1, Fails, TypeFromParts DEF DwInv
<1>6. CASE /\ host' = [Cleared EXCEPT !.queued = <<TransferCommand>>] /\ Goto("PioCommand")
           /\ at' = 0
  <2>1. HostTyped' /\ ~host'.dma
    BY <1>0, <1>2, <1>6, DrivenTyped, Commands
  <2> QED
    BY <1>1, <1>2, <1>4, <1>6, <2>1, Goes, TypeFromParts
    DEF DwInv, TransferPcs, PioPcs, DmaPcs, ErasePcs, PcSet
<1>7. CASE PioCommand /\ ~Fail
  <2>1. /\ host' = host /\ at' = at
        /\ Goto(IF op.kind \in WriteKinds THEN "PioWrite" ELSE "PioRead")
    BY <1>7 DEF PioCommand, Await
  <2>2. HostTyped' /\ ~host'.dma
    BY <1>0, <1>2, <2>1, Kept
  <2>3. CASE op.kind \in WriteKinds
    <3>1. Goto("PioWrite")
      BY <2>1, <2>3
    <3> QED
      BY <1>1, <1>2, <1>3, <1>4, <2>1, <2>2, <2>3, <3>1, Goes, TypeFromParts
      DEF DwInv, TransferPcs, PioPcs, DmaPcs, ErasePcs, PcSet
  <2>4. CASE op.kind \notin WriteKinds
    <3>1. Goto("PioRead")
      BY <2>1, <2>4
    <3> QED
      BY <1>1, <1>2, <1>3, <1>4, <2>1, <2>2, <2>4, <3>1, Goes, TypeFromParts
      DEF DwInv, TransferPcs, PioPcs, DmaPcs, ErasePcs, PcSet
  <2> QED
    BY <2>3, <2>4
<1>8. CASE /\ PioWrite /\ at < Count /\ Room /\ Goto("PioWrite") /\ at' = at + 1
           /\ host' = [host EXCEPT !.fifo = Append(@, op.data[at + 1])]
  <2>1. op.kind \in WriteKinds /\ op.data[at + 1] \in Data
    BY <1>2, <1>8, Within DEF PioWrite, DwInv, CallInv, Writing
  <2> DEFINE longer == Append(host.fifo, op.data[at + 1])
  <2>2. longer \in Seq(Fill) /\ Len(longer) <= FifoDepth
    BY <1>3, <1>8, <2>1 DEF Room, Fill
  <2>3. host' = [host EXCEPT !.fifo = longer]
    BY <1>8
  <2> HIDE DEF longer
  <2>4. HostTyped' /\ ~host'.dma
    BY <1>0, <1>2, <2>2, <2>3, DrivenTyped
  <2>5. at' \in Nat
    BY <1>3, <1>8
  <2> QED
    BY <1>1, <1>2, <1>4, <1>8, <2>1, <2>4, <2>5, Goes, TypeFromParts
    DEF DwInv, TransferPcs, PioPcs, DmaPcs, ErasePcs, PcSet
<1>9. CASE PioWrite /\ host' = [host EXCEPT !.over = FALSE] /\ Transferred /\ at' = at
  <2>1. HostTyped' /\ ~host'.dma
    BY <1>0, <1>2, <1>9, DrivenTyped
  <2> QED
    BY <1>1, <1>3, <1>4, <1>9, <2>1, Completes, TypeFromParts DEF DwInv, PioWrite
<1>10. CASE PioIssue
  BY <1>5, <1>6, <1>10 DEF PioIssue, Issue
<1>11. CASE PioWrite
  BY <1>5, <1>8, <1>9, <1>11 DEF PioWrite
<1> QED
  BY <1>5, <1>7, <1>10, <1>11

\* The CPU takes blocks from the FIFO.
LEMMA PioReadTyped == DwInv /\ PioRead => DwInv'
<1> SUFFICES ASSUME DwInv, PioRead PROVE DwInv'
  OBVIOUS
<1>0. TypeOK /\ CallInv /\ pc = "PioRead"
  BY DEF DwInv, PioRead
<1>1. UNCHANGED <<op, calls, inStep, setup, dev, store>>
  BY DEF PioRead, CardAlone, Local
<1>2. /\ result = "running" /\ op.kind \in BlockKinds \cup {"switch"} /\ op.count > 0
      /\ op.kind \notin DmaKinds \cup WriteKinds /\ ~host.dma
  BY <1>0 DEF CallInv, TransferPcs, DmaPcs, PioPcs
<1>3. at \in Nat /\ host.fifo \in Seq(Fill) /\ Len(host.fifo) \in Nat /\ FifoDepth \in Nat
      /\ Len(host.fifo) <= FifoDepth /\ <<>> \in Seq(Fill) /\ Len(<<>>) <= FifoDepth
  BY <1>0, HostFields, FifoAssumption DEF TypeOK, CallsTypeOK
<1>4. CardTyped'
  BY <1>0, <1>1, Kept
<1>5. UNCHANGED <<at, moved>> => CallTyped'
  BY <1>0, <1>1, Kept
<1>6. CASE Fail /\ host' \in {host, FifoReset} /\ UNCHANGED <<at, moved>>
  <2>1. HostTyped' /\ ~host'.dma
    BY <1>0, <1>2, <1>3, <1>6, Kept, DrivenTyped DEF FifoReset
  <2> QED
    BY <1>1, <1>4, <1>5, <1>6, <2>1, Fails, TypeFromParts DEF DwInv
<1>7. CASE /\ Filled /\ host' = [host EXCEPT !.fifo = Tail(@)] /\ Goto("PioRead")
           /\ IF at < Count THEN Moved(at + 1, Head(host.fifo)) /\ at' = at + 1
                            ELSE UNCHANGED <<at, moved>>
  <2> DEFINE shorter == Tail(host.fifo)
  <2>1. shorter \in Seq(Fill) /\ Len(shorter) <= FifoDepth /\ Head(host.fifo) \in Fill
    BY <1>3, <1>7 DEF Filled
  <2>2. host' = [host EXCEPT !.fifo = shorter]
    BY <1>7
  <2> HIDE DEF shorter
  <2>3. HostTyped' /\ ~host'.dma
    BY <1>0, <1>2, <2>1, <2>2, DrivenTyped
  <2>4. CallTyped'
    <3>1. CASE at < Count
      <4>1. base + (at + 1) <= op.count /\ at + 1 \in Nat /\ at + 1 > 0
        BY <1>2, <3>1, Within
      <4>2. moved' \in Seq(Data \cup {"switched"}) /\ Len(moved') <= op.count
        BY <1>0, <1>7, <2>1, <3>1, <4>1, PutTyped, CallsTyped DEF Fill
      <4> QED
        BY <1>0, <1>1, <1>7, <3>1, <4>1, <4>2 DEF CallTyped, TypeOK, CallsTypeOK
    <3>2. CASE ~(at < Count)
      BY <1>5, <1>7, <3>2
    <3> QED
      BY <3>1, <3>2
  <2> QED
    BY <1>1, <1>2, <1>4, <1>7, <2>3, <2>4, Goes, TypeFromParts
    DEF DwInv, TransferPcs, PioPcs, DmaPcs, ErasePcs, PcSet
<1>8. CASE host' = [host EXCEPT !.over = FALSE] /\ Transferred /\ UNCHANGED <<at, moved>>
  <2>1. HostTyped' /\ ~host'.dma
    BY <1>0, <1>2, <1>8, DrivenTyped
  <2> QED
    BY <1>0, <1>1, <1>4, <1>5, <1>8, <2>1, Completes, TypeFromParts DEF DwInv
<1> QED
  BY <1>6, <1>7, <1>8 DEF PioRead

\* The commands without data.
LEMMA PlainTyped == DwInv /\ PlainStep => DwInv'
<1> SUFFICES ASSUME DwInv, PlainStep PROVE DwInv'
  OBVIOUS
<1>0. TypeOK /\ CallInv
  BY DEF DwInv
<1>1. UNCHANGED <<op, at, moved, calls, inStep, setup, dev, store>>
  BY DEF PlainStep, CardAlone, Local
<1>2. CallTyped' /\ CardTyped'
  BY <1>0, <1>1, Kept
<1>3. op.first \in Nat /\ (op.kind = "erase" => op.first + op.count - 1 \in Nat)
  BY CallsTyped, Counts DEF DwInv, CountInv
<1>4. pc \in {"Cmd12", "Await12", "Cmd13", "Await13"} \cup ErasePcs
  BY DEF PlainStep, PlainCommand, PlainAnswer, ErasePcs
<1>5. ~host.dma /\ result = "running"
  BY <1>0, <1>4 DEF CallInv, DmaPcs, ErasePcs
<1>6. ASSUME NEW next, NEW i \in PlainIndex, NEW a \in Nat, NEW first,
             PlainCommand(first, Command(i, a), next)
      PROVE  HostTyped' /\ ~host'.dma /\ (Goto(next) \/ Finish \/ Fail)
  BY <1>0, <1>5, <1>6, IssueTyped, Commands DEF PlainCommand
<1>7. ASSUME NEW second, NEW Ok, PlainAnswer(second, Ok)
      PROVE  HostTyped' /\ ~host'.dma /\ (Ok \/ Finish \/ Fail)
  BY <1>0, <1>5, <1>7, Kept DEF PlainAnswer, Await
<1>8. \/ Fail \/ Finish
      \/ pc = "Cmd12" /\ Goto("Await12")
      \/ pc = "Cmd13" /\ Goto("Await13")
      \/ pc \in ErasePcs /\ \E p \in ErasePcs : Goto(p)
  <2>1. CASE pc = "Cmd12"
    BY <2>1, <1>6 DEF PlainStep, PlainCommand, PlainAnswer, PlainIndex
  <2>2. CASE pc = "Cmd13"
    BY <2>2, <1>6 DEF PlainStep, PlainCommand, PlainAnswer, PlainIndex
  <2>3. CASE pc \in {"Await12", "Await13"}
    BY <2>3, <1>7 DEF PlainStep, PlainCommand, PlainAnswer
  <2>4. CASE pc \in ErasePcs
    BY <2>4 DEF PlainStep, PlainCommand, PlainAnswer, Issue, Await, ErasePcs
  <2> QED
    BY <1>4, <2>1, <2>2, <2>3, <2>4
<1>9. HostTyped' /\ ~host'.dma
  <2>1. pc \in ErasePcs => op.kind = "erase"
    BY <1>0 DEF CallInv
  <2>2. CASE pc \in {"Cmd12", "Cmd13", "Cmd32", "Cmd33", "Cmd38"}
    BY <1>3, <1>6, <2>1, <2>2
    DEF PlainStep, PlainCommand, PlainAnswer, PlainIndex, ErasePcs
  <2>3. CASE pc \notin {"Cmd12", "Cmd13", "Cmd32", "Cmd33", "Cmd38"}
    <3>1. host' = host
      BY <2>3 DEF PlainStep, PlainCommand, PlainAnswer
    <3> QED
      BY <1>0, <1>5, <3>1, Kept
  <2> QED
    BY <2>2, <2>3
<1>10. ControlTyped' /\ CallInv' /\ CountInv'
  <2>1. CASE Fail \/ Finish
    BY <1>1, <1>9, <2>1, Fails
  <2>2. CASE pc = "Cmd12" /\ Goto("Await12")
    BY <1>0, <1>1, <1>5, <1>9, <2>2, Goes
    DEF CallInv, TransferPcs, PioPcs, DmaPcs, ErasePcs, PcSet
  <2>3. CASE pc = "Cmd13" /\ Goto("Await13")
    BY <1>0, <1>1, <1>5, <1>9, <2>3, Goes
    DEF CallInv, TransferPcs, PioPcs, DmaPcs, ErasePcs, PcSet
  <2>4. CASE pc \in ErasePcs /\ \E p \in ErasePcs : Goto(p)
    <3>1. PICK p \in ErasePcs : Goto(p)
      BY <2>4
    <3> QED
      BY <1>0, <1>1, <1>5, <1>9, <2>4, <3>1, Goes
      DEF CallInv, TransferPcs, PioPcs, DmaPcs, ErasePcs, PcSet
  <2> QED
    BY <1>8, <2>1, <2>2, <2>3, <2>4
<1> QED
  BY <1>2, <1>9, <1>10, TypeFromParts DEF DwInv

-----------------------------------------------------------------------------
(* The callers and the hardware keep it too.                               *)

\* A call that begins.
LEMMA BeginsTyped == ASSUME DwInv, CallBegins, inStep' \in BOOLEAN PROVE DwInv'
<1>0. TypeOK /\ pc = "Idle" /\ host' = host /\ ~host.dma
  BY DEF DwInv, CallInv, CallBegins, DmaPcs
<1>1. HostTyped' /\ CardTyped'
  BY <1>0, Kept DEF CallBegins
<1>2. ControlTyped' /\ CallTyped'
  <2>1. Len(moved') = 0 /\ moved' \in Seq(Data \cup {"switched"}) /\ op'.count \in Nat
    BY DEF CallBegins, Operation
  <2> QED
    BY <1>0, <2>1 DEF CallBegins, ControlTyped, CallTyped, PcSet, TypeOK, CallsTypeOK
<1>3. CallInv' /\ CountInv'
  BY <1>0 DEF CallBegins, CallInv, CountInv, TransferPcs, DmaPcs, PioPcs, ErasePcs
<1> QED
  BY <1>1, <1>2, <1>3, TypeFromParts DEF DwInv

\* A bring-up, and handle_irq.
LEMMA BringUpTyped ==
    ASSUME DwInv, NEW reset \in BOOLEAN, BringUp(reset)
    PROVE  DwInv'
<1>0. TypeOK /\ ~host.dma /\ pc = "Idle"
  BY DEF DwInv, CallInv, BringUp, BringUpCall, DmaPcs
<1>1. /\ op' = [kind |-> IF reset THEN "reset" ELSE "init", first |-> 0, count |-> 0,
                data |-> <<>>]
      /\ pc' = "Idle" /\ result' \in {"ok", "err"} /\ moved' = <<>> /\ base' = 0 /\ at' = 0
      /\ calls' = calls + 1 /\ inStep' = FALSE /\ UNCHANGED <<setup, store>>
      /\ dev' \in {dev, Do("tran")}
      /\ host' \in {Quiet, [Quiet EXCEPT !.fifo = host.fifo], [host EXCEPT !.gated = TRUE]}
  BY <1>0 DEF BringUp, BringUpCall
<1>2. /\ op' \in Operation /\ op'.kind \in {"reset", "init"} /\ op'.count = 0
      /\ Len(moved') = 0 /\ moved' \in Seq(Data \cup {"switched"})
  BY <1>1 DEF Operation, Kinds
<1>3. CallTyped'
  <2>1. at' \in Nat /\ calls' \in Nat
    BY <1>0, <1>1 DEF TypeOK, CallsTypeOK
  <2>3. inStep' \in BOOLEAN
    BY <1>1
  <2>2. setup' \in [highCapacity : BOOLEAN, dma : BOOLEAN] /\ Len(moved') <= op'.count
    BY <1>0, <1>1, <1>2 DEF TypeOK, CallsTypeOK
  <2> QED
    BY <1>2, <2>1, <2>2, <2>3 DEF CallTyped
<1>4. ControlTyped' /\ CardTyped'
  BY <1>0, <1>1, CallsTyped, Becomes, Parts DEF ControlTyped, CardTyped, CardStates, PcSet
<1>5. HostTyped' /\ ~host'.dma
  <2>1. /\ host.path \in Paths /\ host.left \in Nat /\ host.fifo \in Seq(Fill)
        /\ Len(host.fifo) <= FifoDepth
        /\ host.queued \in Seq(CommandType) /\ Len(host.queued) <= 1
    BY <1>0, HostFields
  <2>2. CASE host' = [host EXCEPT !.gated = TRUE]
    BY <1>0, <2>1, <2>2, Moving, NewTyped DEF Now
  <2>3. ASSUME NEW f \in Seq(Fill), Len(f) <= FifoDepth, host' = [Quiet EXCEPT !.fifo = f]
        PROVE  HostTyped' /\ ~host'.dma
    <3>1. Quiet \in Host /\ ~Quiet.dma /\ Len(Quiet.queued) = 0
      BY DEF Quiet, Host
    <3>2. host' \in Host /\ host'.fifo = f /\ host'.queued = Quiet.queued /\ ~host'.dma
      BY <2>3, <3>1 DEF Host
    <3> QED
      BY <2>3, <3>1, <3>2 DEF HostTyped
  <2>4. CASE host' = [Quiet EXCEPT !.fifo = host.fifo]
    BY <2>1, <2>3, <2>4
  <2>5. CASE host' = Quiet
    <3>1. <<>> \in Seq(Fill) /\ Len(<<>>) <= FifoDepth /\ <<>> \in Seq(CommandType)
      BY FifoAssumption
    <3> QED
      BY <2>5, <3>1 DEF Quiet, HostTyped, Host
  <2> QED
    BY <1>1, <2>2, <2>4, <2>5
<1>6. CallInv' /\ CountInv'
  BY <1>1, <1>2, <1>5
  DEF CallInv, CountInv, TransferPcs, DmaPcs, PioPcs, ErasePcs, WriteKinds
<1> QED
  BY <1>3, <1>4, <1>5, <1>6, TypeFromParts DEF DwInv

\* An interrupt is acknowledged.
LEMMA HandleIrqTyped == DwInv /\ HandleIrq => DwInv'
<1> SUFFICES ASSUME DwInv, HandleIrq PROVE DwInv'
  OBVIOUS
<1>1. UNCHANGED <<pc, op, result, base, at, moved, calls, inStep, setup, dev, store>>
  BY DEF HandleIrq, CardAlone, Local
<1>2. HostTyped' /\ host'.dma = host.dma
  BY DrivenTyped DEF HandleIrq, DwInv
<1>3. ControlTyped' /\ CallTyped' /\ CardTyped'
  BY <1>1, Kept DEF DwInv
<1>4. CallInv' /\ CountInv'
  BY <1>1, <1>2 DEF DwInv, CallInv, CountInv
<1> QED
  BY <1>2, <1>3, <1>4, TypeFromParts DEF DwInv

\* The hardware does not touch control.
LEMMA HardwareKeeps ==
    ASSUME DwInv, HardwareOnly, host'.dma <=> host.dma, HostTyped', CardTyped',
           at' \in Nat, moved' \in Seq(Data \cup {"switched"}), Len(moved') <= op.count
    PROVE  DwInv'
<1>1. UNCHANGED <<pc, op, result, base, calls, inStep, setup>>
  BY DEF HardwareOnly
<1>2. ControlTyped' /\ CallTyped'
  BY <1>1 DEF ControlTyped, CallTyped, DwInv, TypeOK, CallsTypeOK
<1>3. CallInv' /\ CountInv'
  BY <1>1 DEF DwInv, CallInv, CountInv
<1> QED
  BY <1>2, <1>3, TypeFromParts DEF DwInv

\* A block more or less in the FIFO.
LEMMA Longer ==
    ASSUME TypeOK, Room, NEW v \in Fill
    PROVE  /\ Append(host.fifo, v) \in Seq(Fill) /\ Len(Append(host.fifo, v)) <= FifoDepth
           /\ Len(Append(host.fifo, v)) = Len(host.fifo) + 1
           /\ Append(host.fifo, v)[Len(host.fifo) + 1] = v
           /\ \A i \in 1 .. Len(host.fifo) : Append(host.fifo, v)[i] = host.fifo[i]
<1>1. host.fifo \in Seq(Fill) /\ Len(host.fifo) \in Nat /\ FifoDepth \in Nat
  BY HostFields, FifoAssumption
<1> QED
  BY <1>1 DEF Room

\* A block is taken from the FIFO.
LEMMA Shorter ==
    ASSUME TypeOK, Filled
    PROVE  /\ Tail(host.fifo) \in Seq(Fill) /\ Len(Tail(host.fifo)) <= FifoDepth
           /\ Len(host.fifo) > 0 /\ Len(Tail(host.fifo)) = Len(host.fifo) - 1
           /\ Head(host.fifo) \in Fill /\ Head(host.fifo) = host.fifo[1]
           /\ \A i \in 1 .. Len(host.fifo) - 1 : Tail(host.fifo)[i] = host.fifo[i + 1]
<1>1. host.fifo \in Seq(Fill) /\ Len(host.fifo) \in Nat /\ FifoDepth \in Nat
      /\ Len(host.fifo) <= FifoDepth /\ host.fifo # <<>>
  BY HostFields, FifoAssumption DEF Filled
<1> QED
  BY <1>1

\* What the hardware makes of the controller is well-formed.
LEMMA MovingTyped ==
    ASSUME TypeOK
    PROVE  /\ host' = Ended => HostTyped' /\ (host'.dma <=> host.dma)
           /\ \A x \in Seq(Fill) : Len(x) <= FifoDepth =>
                 /\ host' = [Ended EXCEPT !.error = TRUE, !.fifo = x] =>
                       HostTyped' /\ (host'.dma <=> host.dma)
                 /\ host.left > 0 /\ host' = [host EXCEPT !.fifo = x, !.left = @ - 1] =>
                       HostTyped' /\ (host'.dma <=> host.dma)
                 /\ /\ host.left > 0
                    /\ host' = [host EXCEPT !.error = TRUE, !.fifo = x, !.left = @ - 1]
                    => HostTyped' /\ (host'.dma <=> host.dma)
<1>1. /\ host.path \in Paths /\ host.left \in Nat /\ host.fifo \in Seq(Fill)
      /\ Len(host.fifo) <= FifoDepth /\ "idle" \in Paths
      /\ host.queued \in Seq(CommandType) /\ Len(host.queued) <= 1
  BY HostFields DEF Paths
<1>2. host.left > 0 => host.left - 1 \in Nat
  BY <1>1
<1>3. ASSUME host' = Ended PROVE HostTyped' /\ (host'.dma <=> host.dma)
  <2>1. Now("idle", 0, host.fifo, host.dma, TRUE, host.error, host.queued, host.gated)
    BY <1>3, Moving
  <2> QED
    BY <1>1, <2>1, NewTyped DEF Now
<1>4. ASSUME NEW x \in Seq(Fill), Len(x) <= FifoDepth,
             host' = [Ended EXCEPT !.error = TRUE, !.fifo = x]
      PROVE  HostTyped' /\ (host'.dma <=> host.dma)
  <2>1. Now("idle", 0, x, host.dma, TRUE, TRUE, host.queued, host.gated)
    BY <1>4, Moving
  <2> QED
    BY <1>1, <1>4, <2>1, NewTyped DEF Now
<1>5. ASSUME NEW x \in Seq(Fill), Len(x) <= FifoDepth, host.left > 0,
             host' = [host EXCEPT !.fifo = x, !.left = @ - 1]
      PROVE  HostTyped' /\ (host'.dma <=> host.dma)
  BY <1>1, <1>2, <1>5, Moving, NewTyped DEF Now
<1>6. ASSUME NEW x \in Seq(Fill), Len(x) <= FifoDepth, host.left > 0,
             host' = [host EXCEPT !.error = TRUE, !.fifo = x, !.left = @ - 1]
      PROVE  HostTyped' /\ (host'.dma <=> host.dma)
  BY <1>1, <1>2, <1>6, Moving, NewTyped DEF Now
<1> QED
  BY <1>3, <1>4, <1>5, <1>6

\* What the card sends fits the FIFO.
LEMMA Sending == TypeOK /\ Sends => Content \in Fill
BY DEF TypeOK, CallsTypeOK, Sends, Content, Fill

\* A block from the card.
LEMMA ReceiveTyped == DwInv /\ Receive => DwInv'
<1> SUFFICES ASSUME DwInv, Receive PROVE DwInv'
  OBVIOUS
<1>1. TypeOK /\ Room /\ host.left > 0 /\ Content \in Fill
  BY Sending DEF DwInv, Receive, CanReceive
<1> DEFINE f == Append(host.fifo, Content)
<1>2. f \in Seq(Fill) /\ Len(f) <= FifoDepth
  BY <1>1, Longer
<1>3. host' = [host EXCEPT !.fifo = f, !.left = @ - 1]
  BY DEF Receive
<1> HIDE DEF f
<1>4. HostTyped' /\ (host'.dma <=> host.dma)
  BY <1>1, <1>2, <1>3, MovingTyped
<1>5. CardTyped'
  <2>1. [dev EXCEPT !.block = @ + 1] \in Device /\ Do("tran") \in Device
    BY <1>1, CallsTyped, NextBlock, Becomes DEF CardStates
  <2> QED
    BY <1>1, <2>1 DEF Receive, CardTyped, TypeOK, CallsTypeOK
<1> QED
  BY <1>1, <1>4, <1>5, HardwareKeeps DEF Receive, TypeOK, CallsTypeOK

\* The path ends, the engine or the card goes on.
LEMMA PathEndsTyped == DwInv /\ PathEnds => DwInv'
<1> SUFFICES ASSUME DwInv, PathEnds PROVE DwInv'
  OBVIOUS
<1>1. TypeOK /\ HostTyped' /\ (host'.dma <=> host.dma)
  BY MovingTyped DEF DwInv, PathEnds
<1>2. CardTyped'
  BY <1>1, Kept DEF PathEnds
<1> QED
  BY <1>1, <1>2, HardwareKeeps DEF PathEnds, TypeOK, CallsTypeOK

\* The ways in which a path fails.
PathFailsTo(fifo) ==
    \/ host' = [Ended EXCEPT !.error = TRUE, !.fifo = fifo]
    \/ /\ host.path = "read"
       /\ host' = [host EXCEPT !.error = TRUE, !.fifo = fifo, !.left = @ - 1]

\* What is left in the FIFO when a path fails.
LEMMA Failing ==
    ASSUME TypeOK, PathFails
    PROVE  /\ host.left > 0 /\ host.path # "idle"
           /\ dev' = dev \/ dev' = BlockLost
           /\ \E fifo \in Seq(Fill) : Len(fifo) <= FifoDepth /\ PathFailsTo(fifo)
<1>1. host.fifo \in Seq(Fill) /\ Len(host.fifo) <= FifoDepth
  BY HostFields
<1>2. host.left > 0 /\ host.path # "idle" /\ (dev' = dev \/ dev' = BlockLost)
  BY DEF PathFails, CanFail, CanReceive, CanTransmit
<1>3. PICK fifo \in {host.fifo}
                    \cup (IF CanReceive THEN {Append(host.fifo, d) : d \in Data} ELSE {})
                    \cup (IF CanTransmit THEN {Tail(host.fifo)} ELSE {}) : PathFailsTo(fifo)
  BY DEF PathFails, PathFailsTo
<1>4. fifo \in Seq(Fill) /\ Len(fifo) <= FifoDepth
  <2>1. CASE fifo = host.fifo
    BY <1>1, <2>1
  <2>2. CASE CanReceive /\ fifo \in {Append(host.fifo, d) : d \in Data}
    <3>1. PICK d \in Data : fifo = Append(host.fifo, d)
      BY <2>2
    <3> QED
      BY <2>2, <3>1, Longer DEF CanReceive, Fill
  <2>3. CASE CanTransmit /\ fifo = Tail(host.fifo)
    BY <2>3, Shorter DEF CanTransmit
  <2> QED
    BY <1>3, <2>1, <2>2, <2>3
<1> QED
  BY <1>2, <1>3, <1>4

\* A path that fails.
LEMMA PathFailsTyped == DwInv /\ PathFails => DwInv'
<1> SUFFICES ASSUME DwInv, PathFails PROVE DwInv'
  OBVIOUS
<1>1. PICK fifo \in Seq(Fill) : Len(fifo) <= FifoDepth /\ PathFailsTo(fifo)
  BY Failing DEF DwInv
<1>2. TypeOK /\ host.left > 0 /\ (dev' = dev \/ dev' = BlockLost)
  BY Failing DEF DwInv
<1>3. HostTyped' /\ (host'.dma <=> host.dma)
  BY <1>1, <1>2, MovingTyped DEF PathFailsTo
<1>4. CardTyped'
  BY <1>2, CallsTyped, Loses DEF PathFails, CardTyped, TypeOK, CallsTypeOK
<1> QED
  BY <1>2, <1>3, <1>4, HardwareKeeps DEF PathFails, TypeOK, CallsTypeOK

\* The engine is at work only in a transfer.
LEMMA EngineMovesTyped == DwInv /\ EngineMoves => DwInv'
<1> SUFFICES ASSUME DwInv, EngineMoves PROVE DwInv'
  OBVIOUS
<1>1. TypeOK /\ at \in Nat /\ at < Count /\ at' = at + 1 /\ op.count > 0
  BY DEF DwInv, TypeOK, CallsTypeOK, EngineMoves, CanFetch, CanStore, CallInv, TransferPcs,
         DmaPcs
<1>2. CardTyped'
  BY <1>1, Kept DEF EngineMoves
<1>3. ASSUME NEW d \in Data, host' = [host EXCEPT !.fifo = Append(@, d)], Room, moved' = moved
      PROVE  DwInv'
  <2> DEFINE f == Append(host.fifo, d)
  <2>1. f \in Seq(Fill) /\ Len(f) <= FifoDepth
    BY <1>1, <1>3, Longer DEF Fill
  <2>2. host' = [host EXCEPT !.fifo = f]
    BY <1>3
  <2> HIDE DEF f
  <2>3. HostTyped' /\ (host'.dma <=> host.dma)
    BY <1>1, <2>1, <2>2, DrivenTyped
  <2> QED
    BY <1>1, <1>2, <1>3, <2>3, HardwareKeeps DEF EngineMoves, TypeOK, CallsTypeOK
<1>4. ASSUME Filled, host' = [host EXCEPT !.fifo = Tail(@)],
             moved' = moved \/ Moved(at + 1, Head(host.fifo))
      PROVE  DwInv'
  <2> DEFINE f == Tail(host.fifo)
  <2>1. f \in Seq(Fill) /\ Len(f) <= FifoDepth /\ Head(host.fifo) \in Fill
    BY <1>1, <1>4, Shorter
  <2>2. host' = [host EXCEPT !.fifo = f]
    BY <1>4
  <2> HIDE DEF f
  <2>3. HostTyped' /\ (host'.dma <=> host.dma)
    BY <1>1, <2>1, <2>2, DrivenTyped
  <2>4. base + (at + 1) <= op.count /\ at + 1 \in Nat /\ at + 1 > 0
    BY <1>1, Within
  <2>5. moved' \in Seq(Data \cup {"switched"}) /\ Len(moved') <= op.count
    BY <1>1, <1>4, <2>1, <2>4, PutTyped, CallsTyped DEF Fill, TypeOK, CallsTypeOK
  <2> QED
    BY <1>1, <1>2, <2>3, <2>4, <2>5, HardwareKeeps DEF EngineMoves
<1> QED
  BY <1>3, <1>4 DEF EngineMoves, CanFetch, CanStore

\* A command goes out: with or without an error, with or without a path.
Sent(path, left, error) ==
    Now(path, left, host.fifo, host.dma, host.over, error, <<>>, host.gated)

PathOf(cmd) == IF cmd.index = "write" THEN "write" ELSE "read"

Gone(cmd) ==
    \/ Sent(host.path, host.left, TRUE) /\ UNCHANGED <<dev, store>>
    \/ /\ Legal(cmd) /\ dev' = Obeyed(cmd) /\ store' = StoreAfter(cmd)
       /\ \/ cmd.index \in PlainIndex /\ Sent(host.path, host.left, host.error)
          \/ cmd.index \in DataIndex /\ Sent(PathOf(cmd), cmd.count, host.error)
          \/ Sent(host.path, host.left, TRUE)
          \/ cmd.index \in DataIndex /\ Sent(PathOf(cmd), cmd.count, TRUE)

\* A sequence of one element.
LEMMA OnlyOne ==
    ASSUME NEW S, NEW s \in Seq(S), s # <<>>, Len(s) <= 1
    PROVE  s = <<s[1]>> /\ s[1] \in S
<1>1. Len(s) \in Nat /\ Len(s) # 0
  OBVIOUS
<1>2. Len(s) = 1
  BY <1>1
<1> QED
  BY <1>2

\* What going out is.
LEMMA GoneOut ==
    ASSUME TypeOK, GoesOut
    PROVE  /\ host.queued = <<host.queued[1]>> /\ host.queued[1] \in CommandType
           /\ Gone(host.queued[1])
<1> DEFINE p == host.path
           l == host.left
           f == host.fifo
           d == host.dma
           o == host.over
           e == host.error
           q == host.queued
           g == host.gated
           yes == TRUE
           cmd == q[1]
           sent == [host EXCEPT !.queued = <<>>]
           failed == [sent EXCEPT !.error = yes]
           path == PathOf(cmd)
           count == cmd.count
<1>1. host = Built(p, l, f, d, o, e, q, g)
  BY HostFields
<1>2. d \in BOOLEAN /\ o \in BOOLEAN /\ e \in BOOLEAN /\ g \in BOOLEAN /\ yes \in BOOLEAN
  BY HostFields
<1>3. q = <<q[1]>> /\ q[1] \in CommandType
  BY HostFields, OnlyOne DEF GoesOut, CanGoOut
<1>4. \/ /\ Legal(cmd) /\ dev' = Obeyed(cmd) /\ store' = StoreAfter(cmd)
         /\ host' \in IF cmd.index \in DataIndex
                      THEN {[sent EXCEPT !.left = count, !.path = path], failed,
                            [failed EXCEPT !.left = count, !.path = path]}
                      ELSE {sent, failed}
      \/ host' = failed /\ UNCHANGED <<dev, store>>
  BY DEF GoesOut, PathOf
<1>5. cmd.index \in DataIndex \/ cmd.index \in PlainIndex
  BY <1>3 DEF CommandType
<1> HIDE DEF p, l, f, d, o, e, q, g, yes, path, count
<1>6. sent = Built(p, l, f, d, o, e, <<>>, g)
  BY <1>1 DEF Built
<1> HIDE DEF sent
<1>7. failed = Built(p, l, f, d, o, yes, <<>>, g)
  BY <1>6 DEF Built
<1> HIDE DEF failed
<1>8. [sent EXCEPT !.left = count, !.path = path] =
      Built(path, count, f, d, o, e, <<>>, g)
  <2> DEFINE s == [sent EXCEPT !.left = count]
  <2>1. [sent EXCEPT !.left = count, !.path = path] = [s EXCEPT !.path = path]
    OBVIOUS
  <2>2. s = Built(p, count, f, d, o, e, <<>>, g)
    BY <1>6 DEF Built
  <2> HIDE DEF s
  <2> QED
    BY <2>1, <2>2 DEF Built
<1>9. [failed EXCEPT !.left = count, !.path = path] =
      Built(path, count, f, d, o, yes, <<>>, g)
  <2> DEFINE s == [failed EXCEPT !.left = count]
  <2>1. [failed EXCEPT !.left = count, !.path = path] = [s EXCEPT !.path = path]
    OBVIOUS
  <2>2. s = Built(p, count, f, d, o, yes, <<>>, g)
    BY <1>7 DEF Built
  <2> HIDE DEF s
  <2> QED
    BY <2>1, <2>2 DEF Built
<1>10. host' = sent => Now(p, l, f, d, o, e, <<>>, g)
  BY <1>2, <1>6, NowBuilt
<1>11. host' = failed => Now(p, l, f, d, o, yes, <<>>, g)
  BY <1>2, <1>7, NowBuilt
<1>12. host' = [sent EXCEPT !.left = count, !.path = path] =>
       Now(path, count, f, d, o, e, <<>>, g)
  BY <1>2, <1>8, NowBuilt
<1>13. host' = [failed EXCEPT !.left = count, !.path = path] =>
       Now(path, count, f, d, o, yes, <<>>, g)
  BY <1>2, <1>9, NowBuilt
<1>14. /\ host' = sent => Sent(host.path, host.left, host.error)
       /\ host' = failed => Sent(host.path, host.left, TRUE)
       /\ host' = [sent EXCEPT !.left = count, !.path = path] =>
          Sent(PathOf(cmd), cmd.count, host.error)
       /\ host' = [failed EXCEPT !.left = count, !.path = path] =>
          Sent(PathOf(cmd), cmd.count, TRUE)
  BY <1>10, <1>11, <1>12, <1>13
  DEF Sent, p, l, f, d, o, e, q, g, yes, path, count
<1>15. Gone(cmd)
  BY <1>4, <1>5, <1>14 DEF Gone
<1> QED
  BY <1>3, <1>15 DEF q

\* A command that goes out.
LEMMA GoesOutTyped == DwInv /\ GoesOut => DwInv'
<1> SUFFICES ASSUME DwInv, GoesOut PROVE DwInv'
  OBVIOUS
<1> DEFINE cmd == host.queued[1]
<1>1. TypeOK /\ cmd \in CommandType /\ Gone(cmd)
  BY GoneOut DEF DwInv
<1> HIDE DEF cmd
<1>2. /\ host.path \in Paths /\ host.left \in Nat /\ host.fifo \in Seq(Fill)
      /\ Len(host.fifo) <= FifoDepth /\ cmd.count \in Nat /\ PathOf(cmd) \in Paths
      /\ <<>> \in Seq(CommandType) /\ Len(<<>>) <= 1
  BY <1>1, HostFields DEF CommandType, PathOf, Paths
<1>3. ASSUME NEW path \in Paths, NEW left \in Nat, NEW error \in BOOLEAN,
             Sent(path, left, error)
      PROVE  HostTyped' /\ (host'.dma <=> host.dma)
  BY <1>2, <1>3, NewTyped DEF Sent, Now
<1>4. HostTyped' /\ (host'.dma <=> host.dma)
  <2>1. host.error \in BOOLEAN /\ TRUE \in BOOLEAN
    BY <1>1, HostFields
  <2> QED
    BY <1>1, <1>2, <1>3, <2>1 DEF Gone
<1>5. CardTyped'
  BY <1>1, CallsTyped, ObeyedTyped DEF Gone, CardTyped, TypeOK, CallsTypeOK
<1> QED
  BY <1>1, <1>4, <1>5, HardwareKeeps DEF GoesOut, TypeOK, CallsTypeOK

\* The card has finished with what it was busy with, or with its block.
LEMMA CardMovesTyped == DwInv /\ (BusyEnds \/ Unheard) => DwInv'
<1> SUFFICES ASSUME DwInv, BusyEnds \/ Unheard PROVE DwInv'
  OBVIOUS
<1>1. TypeOK /\ host' \in {host, Ended} /\ UNCHANGED <<at, moved, store>> /\ HardwareOnly
  BY DEF DwInv, BusyEnds, Unheard
<1>2. HostTyped' /\ (host'.dma <=> host.dma)
  BY <1>1, MovingTyped, Kept
<1>3. dev' \in Device
  <2>1. [dev EXCEPT !.state = "tran"] \in Device /\ Do("tran") \in Device
    BY <1>1, CallsTyped, Becomes DEF TypeOK, CallsTypeOK, Device, CardStates
  <2> QED
    BY <2>1 DEF BusyEnds, Unheard
<1>4. CardTyped'
  BY <1>1, <1>3 DEF CardTyped, TypeOK, CallsTypeOK
<1> QED
  BY <1>1, <1>2, <1>4, HardwareKeeps DEF TypeOK, CallsTypeOK

-----------------------------------------------------------------------------
(* A call in step: before and after its data phases.                       *)

\* The numbers of a call.
LEMMA Numbers ==
    ASSUME DwInv
    PROVE  /\ Count \in Nat /\ Start \in Nat /\ op.first \in Nat /\ op.count \in Nat
           /\ at \in Nat /\ base \in Nat /\ Len(moved) \in Nat /\ Len(moved) <= op.count
           /\ Start = op.first + base
           /\ host.left \in Nat /\ Len(host.fifo) \in Nat /\ host.path \in Paths
<1>1. CallsTypeOK /\ TypeOK
  BY CallsTyped DEF DwInv
<1>2. Len(moved) \in Nat /\ Len(moved) <= op.count /\ at \in Nat /\ base \in Nat
  BY <1>1 DEF CallsTypeOK
<1> QED
  BY <1>1, <1>2, HostFields, Counts DEF Start

\* Nothing is in the controller.
Calm == ~host.gated /\ ~Waits /\ host.path = "idle" /\ host.fifo = <<>>

PhasePcs == {"DmaCommand", "DmaWait", "PioCommand", "PioRead", "PioWrite"}
StopPcs == {"Cmd12", "Await12"}
RangePcs == {"Await32", "Cmd33", "Await33", "Cmd38", "Await38"}

\* Nothing is in it outside the data phases and the waits for a command.
LEMMA CalmOutside == Agreed /\ pc \notin PhasePcs \cup AwaitPcs \cup {"PioIssue"} => Calm
BY DEF Agreed, QueueInv, RestInv, InPhase, Calm, PhasePcs

\* A calm controller satisfies what is said of it.
LEMMA CalmSuffices ==
    ASSUME Calm', pc' \notin PhasePcs, pc' = "DmaIssue" => at' = 0
    PROVE  QueueInv' /\ RestInv' /\ ReadInv' /\ WriteInv'
BY DEF Calm, QueueInv, RestInv, InPhase, ReadInv, WriteInv, PhasePcs

\* A command the driver waits for can go out, or is out.
LEMMA WaitEnds ==
    ASSUME Agreed, pc \in AwaitPcs \ {"PioCommand"}
    PROVE  /\ Waits => CanGoOut /\ ~host.error
           /\ ~Waits /\ pc # "DmaCommand" => Calm
           /\ host.path = "idle" \/ InPhase
BY DEF Agreed, QueueInv, RestInv, InPhase, Calm, AwaitPcs, CanGoOut, Waits

\* What is said of other steps than this one's.
LEMMA Elsewhere ==
    /\ pc' \notin RangePcs => RangeInv'
    /\ pc' \notin StopPcs /\ result' = "running" => StopInv'
    /\ result' # "running" => KeptInv'
BY DEF RangeInv, StopInv, KeptInv, RangePcs, StopPcs

\* What has been moved stays.
LEMMA StillKept ==
    ASSUME KeptInv, result = "running", UNCHANGED <<op, store, moved, base>>
    PROVE  KeptInv'
BY DEF KeptInv, Writing

\* A call that is in step has been so.
LEMMA HasBeen ==
    ASSUME InStep', inStep' = inStep, result = "running" \/ result' = result
    PROVE  InStep
BY DEF InStep

\* Before the command.
LEMMA AttemptSteps == DwInv /\ StepInv /\ Attempt => StepInv'
<1> SUFFICES ASSUME DwInv, StepInv, Attempt, InStep' PROVE Agreed'
  BY DEF StepInv
<1>1. /\ UNCHANGED <<op, at, moved, calls, inStep, setup, host, dev, store>>
      /\ pc = "Attempt" /\ result = "running"
  BY DEF Attempt, CardAlone, Local, DwInv, CallInv
<1>2. Agreed
  BY <1>1, HasBeen DEF StepInv
<1>3. Calm'
  BY <1>1, <1>2, CalmOutside DEF PhasePcs, AwaitPcs, Calm, Waits
<1>4. \/ Finish /\ op.count = 0
      \/ pc' \in {"DmaArm", "PioIssue"} /\ UNCHANGED <<result, base>>
  BY DEF Attempt, Retry, Goto, Fail, InStep
<1>5. QueueInv' /\ RestInv' /\ ReadInv' /\ WriteInv' /\ RangeInv'
  BY <1>3, <1>4, CalmSuffices, Elsewhere DEF PhasePcs, RangePcs, Finish
<1>6. StopInv'
  <2>1. CASE Finish /\ op.count = 0
    BY <1>1, <2>1 DEF Finish, StopInv
  <2> QED
    BY <1>1, <1>4, <2>1, Elsewhere DEF StopPcs
<1>7. KeptInv'
  BY <1>1, <1>2, <1>4, Elsewhere, StillKept DEF Finish, Agreed
<1> QED
  BY <1>5, <1>6, <1>7 DEF Agreed

\* What the driver leaves of the queue and of the path.
LEMMA DrivenCalm ==
    ASSUME TypeOK, Calm,
           \/ host' \in {host, Cleared, Recovered, [host EXCEPT !.over = FALSE]}
           \/ \E x \in BOOLEAN : host' = [Cleared EXCEPT !.dma = x]
    PROVE  Calm'
<1>1. CASE host' = host
  BY <1>1 DEF Calm, Waits
<1>2. CASE host' = Cleared
  BY <1>2, Driven DEF Calm, Waits, Now
<1>3. CASE host' = Recovered
  <2>1. Now(IF host.path = "read" THEN "idle" ELSE host.path,
            IF host.path = "read" THEN 0 ELSE host.left,
            <<>>, FALSE, FALSE, FALSE, host.queued, host.gated)
    BY <1>3, Driven
  <2> QED
    BY <2>1 DEF Calm, Waits, Now
<1>4. CASE host' = [host EXCEPT !.over = FALSE]
  <2>1. Now(host.path, host.left, host.fifo, host.dma, FALSE, host.error, host.queued,
            host.gated)
    BY <1>4, Driven
  <2> QED
    BY <2>1 DEF Calm, Waits, Now
<1>5. CASE \E x \in BOOLEAN : host' = [Cleared EXCEPT !.dma = x]
  <2>1. PICK x \in BOOLEAN : host' = [Cleared EXCEPT !.dma = x]
    BY <1>5
  <2>2. Now(host.path, host.left, host.fifo, x, FALSE, FALSE, host.queued, host.gated)
    BY <2>1, Driven
  <2> QED
    BY <2>2 DEF Calm, Waits, Now
<1> QED
  BY <1>1, <1>2, <1>3, <1>4, <1>5

\* The engine is made ready, or the CPU has to move the data.
LEMMA DmaArmSteps == DwInv /\ StepInv /\ DmaArm => StepInv'
<1> SUFFICES ASSUME DwInv, StepInv, DmaArm, InStep' PROVE Agreed'
  BY DEF StepInv
<1>1. /\ UNCHANGED <<op, moved, calls, inStep, setup, dev, store>>
      /\ pc = "DmaArm" /\ result = "running" /\ at' = 0
  BY DEF DmaArm, CardAlone, Local, DwInv, CallInv
<1>2. Agreed
  BY <1>1, HasBeen DEF StepInv
<1>3. Calm
  BY <1>1, <1>2, CalmOutside DEF PhasePcs, AwaitPcs
<1>4. Calm'
  BY <1>3, DrivenCalm DEF DmaArm, DwInv
<1>5. pc' \in {"DmaIssue", "PioIssue"} /\ UNCHANGED <<result, base>>
  BY DEF DmaArm, Retry, Goto, Fail, InStep
<1>6. QueueInv' /\ RestInv' /\ ReadInv' /\ WriteInv' /\ RangeInv' /\ StopInv'
  BY <1>1, <1>4, <1>5, CalmSuffices, Elsewhere DEF PhasePcs, RangePcs, StopPcs
<1>7. KeptInv'
  BY <1>1, <1>2, <1>5, StillKept DEF Agreed
<1> QED
  BY <1>6, <1>7 DEF Agreed

\* A command is handed to a controller that has none.
LEMMA Queues ==
    ASSUME TypeOK, Agreed, ~Waits, pc' \in AwaitPcs, NEW c, c = Awaited',
           host' = [Cleared EXCEPT !.queued = <<c>>],
           UNCHANGED <<op, dev, store>>, host.fifo = <<>>,
           host.path = "idle" \/ (pc = "PioIssue" /\ pc' = "PioCommand"), ~InPhase,
           pc' \in {"DmaCommand", "PioCommand"} => at' = 0 /\ dev.state # "prg"
    PROVE  QueueInv' /\ RestInv' /\ ReadInv' /\ WriteInv' /\ Waits'
<1> DEFINE q == <<c>>
<1>1. q # <<>>
  OBVIOUS
<1>2. q = <<Awaited'>>
  OBVIOUS
<1> HIDE DEF q
<1>3. Now(host.path, host.left, host.fifo, host.dma, FALSE, FALSE, q, host.gated)
  BY Driven DEF q
<1>4. Waits' /\ ~InPhase'
  BY <1>1, <1>3 DEF Now, Waits, InPhase
<1>5. QueueInv'
  BY <1>2, <1>3 DEF Now, QueueInv, Agreed
<1>6. RestInv'
  <2>1. /\ host'.fifo = <<>> /\ ~host'.over /\ host'.path = host.path
        /\ host'.left = host.left /\ dev' = dev /\ pc' # "DmaIssue"
    BY <1>3 DEF Now, AwaitPcs
  <2>2. host.path # "idle" =>
           /\ pc' = "PioCommand" /\ host.path = "write"
           /\ host.left > 0 \/ dev.state \in {"prg", "rcv"}
    BY DEF Agreed, RestInv
  <2> QED
    BY <2>1, <2>2 DEF RestInv
<1> QED
  BY <1>4, <1>5, <1>6 DEF ReadInv, WriteInv

\* The data command, with the engine.
LEMMA DmaIssueSteps == DwInv /\ StepInv /\ DmaIssue => StepInv'
<1> SUFFICES ASSUME DwInv, StepInv, DmaIssue, InStep' PROVE Agreed'
  BY DEF StepInv
<1>1. /\ UNCHANGED <<op, at, moved, calls, inStep, setup, dev, store>>
      /\ pc = "DmaIssue" /\ result = "running"
  BY DEF DmaIssue, CardAlone, Local, DwInv, CallInv
<1>2. Agreed
  BY <1>1, HasBeen DEF StepInv
<1>3. Calm /\ ~InPhase /\ at = 0
  BY <1>1, <1>2, CalmOutside DEF PhasePcs, AwaitPcs, InPhase, Agreed, RestInv
<1>4. CASE /\ dev.state # "prg" /\ Goto("DmaCommand")
           /\ host' = [Cleared EXCEPT !.queued = <<TransferCommand>>]
  <2>1. pc' = "DmaCommand" /\ UNCHANGED <<result, base>>
    BY <1>4 DEF Goto
  <2>2. TransferCommand = Awaited'
    BY <1>1, <2>1
    DEF Awaited, TransferCommand, Command, Start, Count, Selected, BlockAddrOf
  <2>3. QueueInv' /\ RestInv' /\ ReadInv' /\ WriteInv'
    BY <1>1, <1>2, <1>3, <1>4, <2>1, <2>2, Queues DEF Calm, AwaitPcs, DwInv
  <2> QED
    BY <1>1, <1>2, <2>1, <2>3, Elsewhere, StillKept DEF Agreed, RangePcs, StopPcs
<1>5. CASE GiveUp
  <2>1. pc' = "PioIssue" /\ UNCHANGED <<result, base>>
    BY <1>5 DEF GiveUp, Retry, Goto, Fail, InStep
  <2>2. Calm'
    BY <1>3, <1>5, DrivenCalm DEF GiveUp, DwInv
  <2> QED
    BY <1>1, <1>2, <2>1, <2>2, CalmSuffices, Elsewhere, StillKept
    DEF Agreed, RangePcs, StopPcs, PhasePcs
<1> QED
  BY <1>4, <1>5 DEF DmaIssue

-----------------------------------------------------------------------------
(* A call in step: in its data phases.                                     *)

\* A step from one wait of a data phase to the next.
LEMMA PhaseGoes ==
    ASSUME Agreed, InPhase, pc' \in PhasePcs, result = "running",
           UNCHANGED <<op, result, base, at, moved, setup, host, dev, store>>
    PROVE  Agreed'
<1>1. InPhase'
  BY DEF InPhase, PhasePcs, Waits
<1>2. QueueInv' /\ RestInv'
  BY <1>1 DEF Agreed, InPhase, QueueInv, RestInv, Waits
<1>3. ReadInv'
  BY DEF Agreed, ReadInv, Writing, Start, Count
<1>4. WriteInv'
  BY DEF Agreed, WriteInv, Writing, Written, Start, Count
<1>5. StopInv' /\ RangeInv' /\ KeptInv'
  BY StillKept, Elsewhere DEF Agreed, PhasePcs, StopPcs, RangePcs
<1> QED
  BY <1>2, <1>3, <1>4, <1>5 DEF Agreed

\* A failed attempt leaves at most a write that goes on without words.
LEMMA GivesUp ==
    ASSUME DwInv, Agreed, InPhase \/ Calm, pc \in DmaPcs, GiveUp, InStep',
           UNCHANGED <<op, at, moved, setup, dev, store>>
    PROVE  Agreed'
<1>1. result = "running" /\ pc' = "PioIssue" /\ UNCHANGED <<result, base>>
  BY DEF GiveUp, Retry, Goto, Fail, InStep, DwInv, CallInv, DmaPcs
<1>2. Now(IF host.path = "read" THEN "idle" ELSE host.path,
          IF host.path = "read" THEN 0 ELSE host.left,
          <<>>, FALSE, FALSE, FALSE, host.queued, host.gated)
  BY Driven DEF GiveUp, DwInv
<1>3. ~Waits /\ ~host.gated /\ host.path \in Paths /\ host.left \in Nat
  BY HostFields DEF Agreed, QueueInv, InPhase, Calm, DwInv
<1>4. host.path = "write" => host.left > 0 \/ dev.state \in {"prg", "rcv"}
  BY <1>3 DEF Agreed, ReadInv, WriteInv, Calm
<1>5. ~InPhase' /\ ~Waits' /\ QueueInv'
  BY <1>1, <1>2, <1>3 DEF InPhase, Waits, QueueInv, Now
<1>6. RestInv'
  BY <1>1, <1>2, <1>3, <1>4 DEF RestInv, Now, Paths
<1> QED
  BY <1>1, <1>5, <1>6, StillKept, Elsewhere
  DEF Agreed, ReadInv, WriteInv, RangePcs, StopPcs

\* What a data phase that is over has done.
Done ==
    /\ base + Count <= Len(moved)
    /\ dev.state \in {"data", "rcv", "tran"}
    /\ Count > 1 => dev.state = "rcv" \/ (dev.state = "data" /\ dev.multi)
    /\ ~(Count > 1) => dev.state = "tran"

\* A read is over when the path is idle and the FIFO empty.
LEMMA ReadDone ==
    ASSUME DwInv, Agreed, InPhase, ~Writing, ~host.error, host.over,
           host.fifo = <<>> \/ host.dma
    PROVE  Done /\ Calm
<1>1. /\ Count \in Nat /\ at \in Nat /\ host.left \in Nat /\ base \in Nat
      /\ Len(moved) \in Nat /\ host.path \in Paths
  BY Numbers
<1>2. host.path = "idle" /\ host.left = 0 /\ host.fifo = <<>>
  BY <1>1 DEF Agreed, ReadInv, Paths
<1>3. at = Count
  <2>1. Len(host.fifo) = 0
    BY <1>2
  <2>2. at + Len(host.fifo) + host.left = Count
    BY DEF Agreed, ReadInv
  <2> QED
    BY <1>1, <1>2, <2>1, <2>2
<1>4. Done
  BY <1>2, <1>3 DEF Agreed, ReadInv, Done
<1> QED
  BY <1>2, <1>4 DEF Calm, InPhase, Agreed, QueueInv

\* And so is a write.
LEMMA WriteDone ==
    ASSUME DwInv, Agreed, InPhase, Writing, ~host.error, host.over
    PROVE  Done /\ Calm
<1>1. host.path = "idle"
  BY HostFields DEF DwInv, Agreed, WriteInv, Paths
<1>2. base = 0 /\ Len(moved) \in Nat /\ Count \in Nat
  BY CallsTyped, Counts DEF DwInv, TypeOK, CallsTypeOK, CountInv, Writing, WriteKinds
<1> QED
  BY <1>1, <1>2 DEF Done, Calm, InPhase, Agreed, QueueInv, WriteInv

\* After it the call has the next turn, or has moved everything.
LEMMA Transfers ==
    ASSUME DwInv, Agreed, Done, Calm, Transferred \/ (DmaDone /\ pc = "DmaWait"),
           pc \in {"DmaWait", "PioRead", "PioWrite"},
           UNCHANGED <<op, moved, setup, dev, store>>, Calm'
    PROVE  Agreed' /\ (result' = "ok" => Len(moved) = op.count)
<1>1. /\ result = "running" /\ op.count > 0 /\ op.kind \in BlockKinds \cup {"switch"}
      /\ base > 0 => op.kind = "readBlocks" /\ base < op.count
      /\ op.kind \in {"readBlock", "writeBlock", "switch"} => op.count = 1
  BY DEF DwInv, CallInv, CountInv, TransferPcs, DmaPcs, PioPcs
<1>2. base \in Nat /\ op.count \in Nat /\ Len(moved) \in Nat /\ Len(moved) <= op.count
  BY CallsTyped, Counts DEF DwInv, TypeOK, CallsTypeOK
<1>3. /\ op.kind = "readBlocks" => Count = 1
      /\ op.kind # "readBlocks" => Count = op.count /\ base = 0
  BY <1>1, <1>2 DEF Count
<1>4. CASE /\ op.kind = "readBlocks" /\ base + 1 < op.count
           /\ pc' = "Attempt" /\ base' = base + 1 /\ result' = result
  <2>1. base' <= Len(moved)
    BY <1>2, <1>3, <1>4 DEF Done
  <2>2. KeptInv'
    BY <1>1, <1>4, <2>1 DEF Agreed, KeptInv, Writing
  <2> QED
    BY <1>1, <1>4, <2>2, CalmSuffices, Elsewhere
    DEF Agreed, PhasePcs, StopPcs, RangePcs
<1>5. CASE op.kind # "readBlocks" /\ op.count > 1 /\ Goto("Cmd12")
  <2>1. pc' = "Cmd12" /\ UNCHANGED <<result, base>>
    BY <1>5 DEF Goto
  <2>2. Len(moved) = op.count
    BY <1>2, <1>3, <1>5 DEF Done
  <2>3. StopInv'
    BY <1>1, <1>3, <1>5, <2>1, <2>2 DEF StopInv, Done
  <2> QED
    BY <1>1, <2>1, <2>3, CalmSuffices, Elsewhere, StillKept
    DEF Agreed, PhasePcs, StopPcs, RangePcs
<1>6. CASE Finish /\ ~(op.kind = "readBlocks" /\ base + 1 < op.count)
           /\ ~(op.kind \in {"readBlocksInto", "writeBlocks"} /\ op.count > 1)
  <2>1. pc' = "Idle" /\ result' = "ok"
    BY <1>6 DEF Finish
  <2>2. Len(moved) = op.count
    BY <1>1, <1>2, <1>3, <1>6 DEF Done
  <2>3. op.kind \notin DmaKinds => ~(Count > 1)
    BY <1>1, <1>2, <1>3, <1>6 DEF BlockKinds, ReadKinds, WriteKinds, DmaKinds
  <2>4. StopInv'
    BY <2>1, <2>3 DEF StopInv, Done
  <2> QED
    BY <2>1, <2>2, <2>4, CalmSuffices, Elsewhere
    DEF Agreed, PhasePcs, StopPcs, RangePcs
<1>7. CASE DmaDone /\ op.kind \in DmaKinds
  <2>1. op.kind \notin {"readBlocks", "readBlocksInto", "writeBlocks"}
    BY <1>7 DEF DmaKinds
  <2> QED
    BY <1>5, <1>6, <1>7, <2>1 DEF DmaDone, Transferred
<1>8. CASE Transferred
  BY <1>4, <1>5, <1>6, <1>8 DEF Transferred
<1> QED
  BY <1>7, <1>8 DEF DmaDone

\* The wait for the command and the wait for the engine.
LEMMA DmaCommandSteps == DwInv /\ StepInv /\ DmaCommand => StepInv'
<1> SUFFICES ASSUME DwInv, StepInv, DmaCommand, InStep' PROVE Agreed'
  BY DEF StepInv
<1>1. /\ UNCHANGED <<op, at, moved, calls, inStep, setup, dev, store>>
      /\ pc = "DmaCommand" /\ result = "running"
  BY DEF DmaCommand, CardAlone, Local, DwInv, CallInv
<1>2. Agreed
  BY <1>1, HasBeen DEF StepInv
<1>3. Waits => CanGoOut /\ ~host.error
  BY <1>1, <1>2, WaitEnds DEF AwaitPcs
<1>4. CASE ~Waits /\ host' = host /\ Goto("DmaWait")
  BY <1>1, <1>2, <1>4, PhaseGoes DEF InPhase, PhasePcs, Goto
<1>5. CASE ~Waits /\ GiveUp
  BY <1>1, <1>2, <1>5, GivesUp DEF InPhase, DmaPcs
<1> QED
  BY <1>3, <1>4, <1>5 DEF DmaCommand, Await, Waits

\* The end of a transfer by the engine.
LEMMA DmaWaitSteps ==
    ASSUME DwInv, StepInv, DmaWait, InStep'
    PROVE  Agreed' /\ (result' = "ok" => Len(moved) = op.count)
<1>1. /\ UNCHANGED <<op, at, moved, calls, inStep, setup, dev, store>>
      /\ pc = "DmaWait" /\ result = "running" /\ host.dma
  BY DEF DmaWait, CardAlone, Local, DwInv, CallInv, DmaPcs
<1>2. Agreed
  BY <1>1, HasBeen DEF StepInv
<1>3. InPhase
  BY <1>1, <1>2 DEF InPhase, Agreed, QueueInv, AwaitPcs
<1>4. CASE /\ ~host.error /\ host.over
           /\ host' = [Cleared EXCEPT !.dma = FALSE] /\ DmaDone
  <2>1. Done /\ Calm
    BY <1>1, <1>2, <1>3, <1>4, ReadDone, WriteDone
  <2>2. Calm'
    BY <1>4, <2>1, DrivenCalm DEF DwInv
  <2> QED
    BY <1>1, <1>2, <1>4, <2>1, <2>2, Transfers
<1>5. CASE GiveUp
  <2>1. result' # "ok"
    BY <1>1, <1>5 DEF GiveUp, Retry, Goto, Fail
  <2> QED
    BY <1>1, <1>2, <1>3, <1>5, <2>1, GivesUp DEF DmaPcs
<1> QED
  BY <1>4, <1>5 DEF DmaWait

\* The data command again, for the CPU.
LEMMA PioIssueSteps == DwInv /\ StepInv /\ PioIssue => StepInv'
<1> SUFFICES ASSUME DwInv, StepInv, PioIssue, InStep' PROVE Agreed'
  BY DEF StepInv
<1>1. /\ UNCHANGED <<op, moved, calls, inStep, setup, dev, store>>
      /\ pc = "PioIssue" /\ result = "running" /\ at' = 0
  BY DEF PioIssue, CardAlone, Local, DwInv, CallInv
<1>2. Agreed
  BY <1>1, HasBeen DEF StepInv
<1>3. ~InPhase /\ host.fifo = <<>>
  BY <1>1, <1>2 DEF InPhase, Agreed, RestInv
<1>4. /\ ~Waits /\ dev.state # "prg" /\ Goto("PioCommand")
      /\ host' = [Cleared EXCEPT !.queued = <<TransferCommand>>]
  <2>1. op.kind \in BlockKinds \cup {"switch"}
    BY <1>1 DEF DwInv, CallInv, TransferPcs, PioPcs
  <2>2. TransferCommand.index \in DataIndex
    BY Commands DEF DwInv, DataIndex
  <2> QED
    BY <2>2 DEF PioIssue, Issue, Fail, InStep, Waits
<1>5. pc' = "PioCommand" /\ UNCHANGED <<result, base>>
  BY <1>4 DEF Goto
<1>6. TransferCommand = Awaited'
  BY <1>1, <1>5
  DEF Awaited, TransferCommand, Command, Start, Count, Selected, BlockAddrOf
<1>7. QueueInv' /\ RestInv' /\ ReadInv' /\ WriteInv'
  BY <1>1, <1>2, <1>3, <1>4, <1>5, <1>6, Queues DEF AwaitPcs, DwInv
<1> QED
  BY <1>1, <1>2, <1>5, <1>7, Elsewhere, StillKept DEF Agreed, RangePcs, StopPcs

\* After its command the CPU moves the data.
LEMMA PioCommandSteps == DwInv /\ StepInv /\ PioCommand => StepInv'
<1> SUFFICES ASSUME DwInv, StepInv, PioCommand, InStep' PROVE Agreed'
  BY DEF StepInv
<1>1. /\ UNCHANGED <<op, at, moved, calls, inStep, setup, host, dev, store>>
      /\ pc = "PioCommand" /\ result = "running"
  BY DEF PioCommand, CardAlone, Local, DwInv, CallInv
<1>2. Agreed
  BY <1>1, HasBeen DEF StepInv
<1>3. ~Waits /\ pc' \in PhasePcs /\ UNCHANGED <<result, base>>
  BY DEF PioCommand, Await, Goto, Fail, InStep, Waits, PhasePcs
<1>4. InPhase
  BY <1>1, <1>3 DEF InPhase
<1> QED
  BY <1>1, <1>2, <1>3, <1>4, PhaseGoes

\* A data phase goes on: what has to be shown of it.
LEMMA PhaseKeeps ==
    ASSUME Agreed, InPhase, pc' = pc, result = "running", UNCHANGED <<op, result, base>>,
           host'.queued = host.queued, host'.gated <=> host.gated
    PROVE  QueueInv' /\ RestInv' /\ StopInv' /\ RangeInv' /\ InPhase'
BY Elsewhere DEF Agreed, InPhase, Waits, QueueInv, RestInv, StopPcs, RangePcs

\* A block on.
LEMMA Along ==
    \A s, a, n \in Nat :
       /\ s + a + (n + 1) - 1 = s + (a + 1) + n - 1
       /\ s + a + n = s + (a + 1) + (n - 1)
OBVIOUS

\* The next block of a read is taken from the FIFO.
LEMMA TakesNext ==
    ASSUME DwInv, Agreed, InPhase, ~Writing, ~host.error, Filled, pc' = pc,
           result = "running", UNCHANGED <<op, result, base, setup, dev, store>>,
           host' = [host EXCEPT !.fifo = Tail(@)], at' = at + 1, op.count > 0,
           Moved(at + 1, Head(host.fifo)), host.path = "read" \/ ~host.dma
    PROVE  Agreed'
<1> DEFINE f == Tail(host.fifo)
           place == base + (at + 1)
           v == Head(host.fifo)
<1>0. TypeOK
  BY DEF DwInv
<1>1. /\ Count \in Nat /\ at \in Nat /\ base \in Nat /\ Len(moved) \in Nat
      /\ Start = op.first + base /\ op.first \in Nat /\ Len(host.fifo) \in Nat
      /\ host.left \in Nat /\ Start \in Nat
  BY Numbers
<1>2. /\ Len(host.fifo) > 0 /\ Len(f) = Len(host.fifo) - 1 /\ Len(f) \in Nat
      /\ v = host.fifo[1] /\ v \in Fill
      /\ \A i \in 1 .. Len(host.fifo) - 1 : f[i] = host.fifo[i + 1]
  BY <1>0, <1>1, Shorter
<1>3. host' = [host EXCEPT !.fifo = f]
  OBVIOUS
<1> HIDE DEF f, v
<1>4. Now(host.path, host.left, f, host.dma, host.over, host.error, host.queued, host.gated)
  BY <1>0, <1>3, Driven
<1>5. /\ at + Len(host.fifo) + host.left = Count /\ base + at <= Len(moved)
      /\ host.path # "write"
      /\ \A i \in 1 .. Len(host.fifo) :
            op.kind \in ReadKinds =>
               /\ Start + at + i - 1 \in Blocks
               /\ host.fifo[i] = store[Start + at + i - 1]
  BY DEF Agreed, ReadInv
<1>6. place \in Nat /\ place > 0 /\ place <= Len(moved) + 1
  <2>1. base \in Nat /\ at \in Nat /\ Len(moved) \in Nat /\ base + at <= Len(moved)
    BY <1>1, <1>5
  <2> QED
    BY <2>1
<1>7. moved' = IF place <= Len(moved) THEN [moved EXCEPT ![place] = v] ELSE Append(moved, v)
  BY DEF Moved, v
<1>8. moved \in Seq(Fill)
  BY <1>0 DEF TypeOK, CallsTypeOK, Fill
<1> HIDE DEF place
<1>9. /\ Len(moved) <= Len(moved') /\ place <= Len(moved')
      /\ Len(moved') = Len(moved) \/ Len(moved') = place
      /\ moved'[place] = v /\ \A i \in 1 .. Len(moved) : i # place => moved'[i] = moved[i]
      /\ Len(moved') \in Nat
  BY <1>2, <1>6, <1>7, <1>8, PutInSequence
<1>10. QueueInv' /\ RestInv' /\ StopInv' /\ RangeInv' /\ InPhase'
  BY <1>4, PhaseKeeps DEF Now
<1>11. WriteInv'
  BY DEF WriteInv, Writing
<1>12. op.kind \in ReadKinds =>
          op.first + place - 1 \in Blocks /\ v = store[op.first + place - 1]
  <2>0. 1 \in 1 .. Len(host.fifo)
    <3>1. Len(host.fifo) \in Nat /\ Len(host.fifo) > 0
      BY <1>1, <1>2
    <3> QED
      BY <3>1
  <2>1. op.kind \in ReadKinds =>
           Start + at + 1 - 1 \in Blocks /\ v = store[Start + at + 1 - 1]
    BY <1>2, <1>5, <2>0
  <2>2. Start + at + 1 - 1 = op.first + place - 1
    BY <1>1 DEF place
  <2> QED
    BY <2>1, <2>2
<1>13. KeptInv'
  <2>1. base <= Len(moved')
    BY <1>1, <1>5, <1>9
  <2>2. ASSUME op.kind \in ReadKinds, NEW i \in 1 .. Len(moved')
        PROVE  moved'[i] = store[op.first + i - 1]
    <3>1. CASE i = place
      BY <1>9, <1>12, <2>2, <3>1
    <3>2. CASE i # place
      <4>1. i \in 1 .. Len(moved)
        BY <1>1, <1>6, <1>9, <3>2
      <4>2. moved[i] = store[op.first + i - 1]
        BY <2>2, <4>1 DEF Agreed, KeptInv, BlockKinds
      <4> QED
        BY <1>9, <3>2, <4>1, <4>2
    <3> QED
      BY <3>1, <3>2
  <2>3. op.kind \in BlockKinds => op.kind \in ReadKinds
    BY DEF BlockKinds, Writing
  <2> QED
    BY <2>1, <2>2, <2>3 DEF KeptInv, Writing
<1>14. ReadInv'
  <2>1. Start' = Start /\ Count' = Count /\ (Writing' <=> Writing)
    BY DEF Start, Count, Writing
  <2>2. at' + Len(f) + host.left = Count
    BY <1>1, <1>2, <1>5
  <2>9. \A n \in Nat : Start + at + (n + 1) - 1 = Start + (at + 1) + n - 1
    <3>1. Start \in Nat /\ at \in Nat
      BY <1>1
    <3> QED
      BY <3>1, Along, Zenon
  <2>3. ASSUME NEW i \in 1 .. Len(f), op.kind \in ReadKinds
        PROVE  Start + at' + i - 1 \in Blocks /\ f[i] = store[Start + at' + i - 1]
    <3>0. Len(f) = Len(host.fifo) - 1 /\ Len(host.fifo) \in Nat
      BY <1>1, <1>2
    <3>1. i \in Nat /\ i + 1 \in 1 .. Len(host.fifo) /\ i \in 1 .. Len(host.fifo) - 1
      BY <3>0
    <3>2. f[i] = host.fifo[i + 1]
      BY <1>2, <3>1
    <3>3. /\ Start + at + (i + 1) - 1 \in Blocks
          /\ host.fifo[i + 1] = store[Start + at + (i + 1) - 1]
      BY <1>5, <2>3, <3>1
    <3>4. Start + at + (i + 1) - 1 = Start + at' + i - 1
      <4>1. Start + at + (i + 1) - 1 = Start + (at + 1) + i - 1
        BY <2>9, <3>1
      <4> QED
        BY <4>1
    <3> QED
      BY <3>2, <3>3, <3>4
  <2>4. base + at' <= Len(moved')
    BY <1>9 DEF place
  <2>5. Start + at + Len(host.fifo) = Start + at' + Len(f)
    <3>1. Len(f) = Len(host.fifo) - 1
      BY <1>2
    <3>2. Start + at + Len(host.fifo) = Start + (at + 1) + (Len(host.fifo) - 1)
      <4>1. Start \in Nat /\ at \in Nat /\ Len(host.fifo) \in Nat
        BY <1>1
      <4> QED
        BY <4>1, Along, Zenon
    <3> QED
      BY <3>1, <3>2
  <2>6. /\ host.path = "read" => ~host.over
        /\ host.path = "idle" => host.left = 0 /\ ~host.dma
        /\ dev.state \in {"tran", IF op.kind = "switch" THEN "status" ELSE "data"}
        /\ dev.state = "data" => dev.block = Start + at + Len(host.fifo)
        /\ dev.state \in {"data", "status"} => (dev.multi <=> Count > 1)
        /\ host.left = 0 => dev.state = IF Count > 1 THEN "data" ELSE "tran"
    BY DEF Agreed, ReadInv
  <2>7. /\ host'.fifo = f /\ host'.path = host.path /\ host'.left = host.left
        /\ host'.over <=> host.over
        /\ host'.dma <=> host.dma
    BY <1>4 DEF Now
  <2> QED
    BY <1>5, <2>1, <2>2, <2>3, <2>4, <2>5, <2>6, <2>7 DEF ReadInv
<1> QED
  BY <1>10, <1>11, <1>13, <1>14 DEF Agreed

\* The next block of a write is put into the FIFO.
LEMMA Pushes ==
    ASSUME DwInv, Agreed, InPhase, Writing, host.path = "write", Room, at < Count,
           pc' = pc, result = "running",
           UNCHANGED <<op, result, base, moved, setup, dev, store>>, at' = at + 1,
           host' = [host EXCEPT !.fifo = Append(@, op.data[at + 1])], op.count > 0
    PROVE  Agreed'
<1> DEFINE v == op.data[at + 1]
           f == Append(host.fifo, v)
<1>0. TypeOK
  BY DEF DwInv
<1>1. /\ Count \in Nat /\ at \in Nat /\ Len(host.fifo) \in Nat /\ host.left \in Nat
  BY Numbers
<1>2. v \in Fill
  BY Within DEF Fill
<1> HIDE DEF v
<1>3. /\ Len(f) = Len(host.fifo) + 1 /\ f[Len(host.fifo) + 1] = v
      /\ \A i \in 1 .. Len(host.fifo) : f[i] = host.fifo[i]
  BY <1>0, <1>2, Longer
<1>4. host' = [host EXCEPT !.fifo = f]
  BY DEF v
<1> HIDE DEF f
<1>5. Now(host.path, host.left, f, host.dma, host.over, host.error, host.queued, host.gated)
  BY <1>0, <1>4, Driven
<1>6. /\ ~host.over /\ host.left <= Count /\ at = Written + Len(host.fifo)
      /\ \A i \in 1 .. Len(host.fifo) : host.fifo[i] = op.data[Written + i]
      /\ Written <= Len(moved)
      /\ dev.state = "rcv" => dev.block = Start + Written /\ (dev.multi <=> Count > 1)
      /\ host.left > 0 => dev.state \in {"rcv", "tran"}
      /\ host.left = 0 => dev.state = IF Count > 1 THEN "rcv" ELSE "prg"
  BY DEF Agreed, WriteInv
<1>7. QueueInv' /\ RestInv' /\ StopInv' /\ RangeInv' /\ InPhase'
  BY <1>5, PhaseKeeps DEF Now
<1>8. ReadInv' /\ KeptInv'
  BY StillKept DEF ReadInv, Writing, Agreed
<1>9. WriteInv'
  <2>1. /\ host'.fifo = f /\ host'.path = host.path /\ host'.left = host.left
        /\ host'.over <=> host.over
    BY <1>5 DEF Now
  <2>2. Start' = Start /\ Count' = Count /\ Written' = Written
    BY <2>1 DEF Start, Count, Written
  <2>3. Written \in Nat
    BY <1>1, <1>6 DEF Written
  <2>4. at' = Written + Len(f) /\ at' <= Count
    BY <1>1, <1>3, <1>6, <2>3
  <2>5. ASSUME NEW i \in 1 .. Len(f) PROVE f[i] = op.data[Written + i]
    <3>1. CASE i = Len(host.fifo) + 1
      <4>1. Written + i = at + 1
        BY <1>1, <1>6, <2>3, <3>1
      <4> QED
        BY <1>3, <3>1, <4>1 DEF v
    <3>2. CASE i # Len(host.fifo) + 1
      <4>1. i \in 1 .. Len(host.fifo)
        BY <1>1, <1>3, <3>2
      <4> QED
        BY <1>3, <1>6, <4>1
    <3> QED
      BY <3>1, <3>2
  <2> QED
    BY <1>6, <2>1, <2>2, <2>4, <2>5 DEF WriteInv
<1> QED
  BY <1>7, <1>8, <1>9 DEF Agreed

\* pio_read and pio_write.
LEMMA PioReadSteps ==
    ASSUME DwInv, StepInv, PioRead, InStep'
    PROVE  Agreed' /\ (result' = "ok" => Len(moved) = op.count)
<1>1. /\ UNCHANGED <<op, calls, inStep, setup, dev, store>> /\ pc = "PioRead"
      /\ result = "running" /\ ~Writing /\ ~host.dma /\ op.count > 0
  BY DEF PioRead, CardAlone, Local, DwInv, CallInv, DmaPcs, Writing, TransferPcs, PioPcs
<1>2. Agreed
  BY <1>1, HasBeen DEF StepInv
<1>3. InPhase
  BY <1>1, <1>2 DEF InPhase, Agreed, QueueInv, AwaitPcs
<1>4. ~Fail
  BY DEF Fail, InStep
<1>5. CASE /\ ~host.error /\ Filled /\ host' = [host EXCEPT !.fifo = Tail(@)]
           /\ IF at < Count THEN Moved(at + 1, Head(host.fifo)) /\ at' = at + 1
                            ELSE UNCHANGED <<at, moved>>
           /\ Goto("PioRead")
  <2>1. at < Count
    <3>1. at + Len(host.fifo) + host.left = Count
      BY <1>1, <1>3, <1>5, <1>2 DEF Agreed, ReadInv
    <3>2. Len(host.fifo) > 0
      BY <1>5, Shorter DEF DwInv
    <3> QED
      BY <3>1, <3>2, Numbers
  <2>2. pc' = pc /\ UNCHANGED <<result, base>>
    BY <1>1, <1>5 DEF Goto
  <2> QED
    BY <1>1, <1>2, <1>3, <1>5, <2>1, <2>2, TakesNext
<1>6. CASE /\ ~host.error /\ ~Filled /\ host.over /\ host' = [host EXCEPT !.over = FALSE]
           /\ Transferred /\ UNCHANGED <<at, moved>>
  <2>1. Done /\ Calm
    BY <1>1, <1>2, <1>3, <1>6, ReadDone DEF Filled
  <2>2. Calm'
    BY <1>6, <2>1, DrivenCalm DEF DwInv
  <2> QED
    BY <1>1, <1>2, <1>6, <2>1, <2>2, Transfers
<1> QED
  BY <1>4, <1>5, <1>6 DEF PioRead

\* The CPU fills the FIFO, or waits for the end of the path.
LEMMA PioWriteSteps ==
    ASSUME DwInv, StepInv, PioWrite, InStep'
    PROVE  Agreed' /\ (result' = "ok" => Len(moved) = op.count)
<1>1. /\ UNCHANGED <<op, moved, calls, inStep, setup, dev, store>> /\ pc = "PioWrite"
      /\ result = "running" /\ Writing /\ op.count > 0
  BY DEF PioWrite, CardAlone, Local, DwInv, CallInv, Writing, TransferPcs, PioPcs
<1>2. Agreed
  BY <1>1, HasBeen DEF StepInv
<1>3. InPhase
  BY <1>1, <1>2 DEF InPhase, Agreed, QueueInv, AwaitPcs
<1>4. ~Fail
  BY DEF Fail, InStep
<1>5. CASE /\ ~host.error /\ at < Count /\ Room /\ at' = at + 1 /\ Goto("PioWrite")
           /\ host' = [host EXCEPT !.fifo = Append(@, op.data[at + 1])]
  <2>1. host.path = "write"
    BY <1>1, <1>2, <1>3, <1>5, Numbers DEF Agreed, WriteInv, Paths
  <2>2. pc' = pc /\ UNCHANGED <<result, base>>
    BY <1>1, <1>5 DEF Goto
  <2> QED
    BY <1>1, <1>2, <1>3, <1>5, <2>1, <2>2, Pushes
<1>6. CASE /\ ~host.error /\ host.over /\ host' = [host EXCEPT !.over = FALSE]
           /\ Transferred /\ UNCHANGED at
  <2>1. Done /\ Calm
    BY <1>1, <1>2, <1>3, <1>6, WriteDone
  <2>2. Calm'
    BY <1>6, <2>1, DrivenCalm DEF DwInv
  <2> QED
    BY <1>1, <1>2, <1>6, <2>1, <2>2, Transfers
<1> QED
  BY <1>4, <1>5, <1>6 DEF PioWrite

-----------------------------------------------------------------------------
(* A call in step: the commands without data, and the callers.             *)

\* Such a command is handed over.
LEMMA PlainIssued ==
    ASSUME DwInv, Agreed, NEW i \in PlainIndex, NEW a \in Nat, NEW first, NEW second,
           PlainCommand(first, Command(i, a), second), result = "running",
           first \in {"Cmd12", "Cmd13", "Cmd32", "Cmd33", "Cmd38"},
           second \in AwaitPcs \ {"DmaCommand", "PioCommand"},
           UNCHANGED <<op, at, moved, setup, dev, store>>,
           pc' = second => Command(i, a) = Awaited'
    PROVE  /\ QueueInv' /\ RestInv' /\ ReadInv' /\ WriteInv' /\ KeptInv' /\ Waits'
           /\ pc = first /\ pc' = second /\ result' = "running" /\ ~Waits
<1>1. pc = first
  BY DEF PlainCommand
<1>2. Calm /\ ~InPhase
  BY <1>1, CalmOutside DEF PhasePcs, AwaitPcs, InPhase
<1>3. Command(i, a).index \notin DataIndex
  BY Commands DEF DwInv, PlainIndex, DataIndex
<1>4. host' = [Cleared EXCEPT !.queued = <<Command(i, a)>>] /\ Goto(second)
  BY <1>2, <1>3 DEF PlainCommand, Issue, Calm, Waits
<1>5. pc' = second /\ UNCHANGED <<result, base>>
  BY <1>4 DEF Goto
<1>6. QueueInv' /\ RestInv' /\ ReadInv' /\ WriteInv' /\ Waits'
  BY <1>2, <1>4, <1>5, Queues DEF Calm, AwaitPcs, DwInv
<1> QED
  BY <1>1, <1>2, <1>5, <1>6, StillKept DEF Agreed, Calm

\* Its end is seen: it is out, and there is an error or not.
LEMMA PlainAnswered ==
    ASSUME DwInv, Agreed, NEW second \in AwaitPcs \ {"DmaCommand", "PioCommand"}, NEW Ok,
           PlainAnswer(second, Ok), InStep'
    PROVE  /\ pc = second /\ host' = host /\ Calm /\ Calm'
           /\ (~host.error /\ Ok) \/ (Finish /\ op.kind \in DmaKinds)
<1>1. pc = second /\ host' = host
  BY DEF PlainAnswer
<1>2. ~Waits /\ ((~host.error /\ Ok) \/ (Finish /\ op.kind \in DmaKinds))
  BY <1>1, WaitEnds DEF PlainAnswer, Await, Waits, Fail, InStep
<1>3. Calm
  BY <1>1, <1>2, WaitEnds
<1> QED
  BY <1>1, <1>2, <1>3 DEF Calm, Waits

\* The commands without data, each with its answer.
LEMMA PlainSteps ==
    ASSUME DwInv, StepInv, PlainStep, InStep'
    PROVE  /\ Agreed'
           /\ result' = "ok" /\ op.kind \in BlockKinds => Len(moved) = op.count
<1>1. /\ UNCHANGED <<op, at, moved, calls, inStep, setup, dev, store>>
      /\ pc \in {"Cmd12", "Await12", "Cmd13", "Await13"} \cup ErasePcs
  BY DEF PlainStep, PlainCommand, PlainAnswer, ErasePcs, CardAlone, Local
<1>2. result = "running"
  BY <1>1 DEF DwInv, CallInv, ErasePcs
<1>3. Agreed
  BY <1>1, <1>2, HasBeen DEF StepInv
<1>4. /\ op.first \in Nat /\ (op.kind = "erase" => op.first + op.count - 1 \in Nat)
      /\ pc \in ErasePcs => op.kind = "erase"
      /\ pc \in {"Cmd13", "Await13"} => op.kind = "status"
      /\ {"stop", "status", "eraseStart", "eraseEnd", "erase"} \subseteq PlainIndex
      /\ {"status", "erase"} \cap BlockKinds = {}
      /\ {"status", "erase"} \cap DmaKinds = {}
  BY CallsTyped, Counts
  DEF DwInv, CallInv, CountInv, PlainIndex, BlockKinds, ReadKinds, WriteKinds, DmaKinds
<1>5. ASSUME NEW i, NEW a PROVE Command(i, a)' = Command(i, a)
  BY <1>1, <1>5 DEF Command, Count, Selected, BlockAddrOf
<1>6. /\ pc' = "Await12" => Awaited' = Command("stop", 0)
      /\ pc' = "Await13" => Awaited' = Command("status", 0)
      /\ pc' = "Await32" => Awaited' = Command("eraseStart", op.first)
      /\ pc' = "Await33" => Awaited' = Command("eraseEnd", op.first + op.count - 1)
      /\ pc' = "Await38" => Awaited' = Command("erase", 0)
  BY <1>1, <1>5 DEF Awaited
<1>7. ASSUME PlainCommand("Cmd12", Command("stop", 0), "Await12")
       PROVE  Agreed' /\ result' = "running"
  <2>1. /\ QueueInv' /\ RestInv' /\ ReadInv' /\ WriteInv' /\ KeptInv' /\ Waits'
        /\ pc = "Cmd12" /\ pc' = "Await12" /\ result' = "running"
    BY <1>1, <1>2, <1>3, <1>4, <1>6, <1>7, PlainIssued DEF AwaitPcs
  <2>2. StopInv'
    BY <1>1, <1>3, <2>1 DEF Agreed, StopInv
  <2> QED
    BY <2>1, <2>2, Elsewhere DEF Agreed, RangePcs
<1>8. ASSUME PlainCommand("Cmd13", Command("status", 0), "Await13")
       PROVE  Agreed' /\ result' = "running"
  <2>1. /\ QueueInv' /\ RestInv' /\ ReadInv' /\ WriteInv' /\ KeptInv' /\ Waits'
        /\ pc' = "Await13" /\ result' = "running"
    BY <1>1, <1>2, <1>3, <1>4, <1>6, <1>8, PlainIssued DEF AwaitPcs
  <2> QED
    BY <2>1, Elsewhere DEF Agreed, RangePcs, StopPcs
<1>9. ASSUME PlainCommand("Cmd32", Command("eraseStart", op.first), "Await32")
       PROVE  Agreed' /\ result' = "running"
  <2>1. /\ QueueInv' /\ RestInv' /\ ReadInv' /\ WriteInv' /\ KeptInv' /\ Waits'
        /\ pc' = "Await32" /\ result' = "running"
    BY <1>1, <1>2, <1>3, <1>4, <1>6, <1>9, PlainIssued DEF AwaitPcs
  <2>2. RangeInv'
    BY <2>1 DEF RangeInv
  <2> QED
    BY <2>1, <2>2, Elsewhere DEF Agreed, StopPcs
<1>10. ASSUME PlainCommand("Cmd33", Command("eraseEnd", op.first + op.count - 1), "Await33")
       PROVE  Agreed' /\ result' = "running"
  <2>0. pc = "Cmd33"
    BY <1>10 DEF PlainCommand
  <2>1. /\ QueueInv' /\ RestInv' /\ ReadInv' /\ WriteInv' /\ KeptInv' /\ Waits'
        /\ pc' = "Await33" /\ result' = "running"
    BY <1>1, <1>2, <1>3, <1>4, <1>6, <1>10, <2>0, PlainIssued DEF AwaitPcs, ErasePcs
  <2>2. RangeInv'
    BY <1>1, <1>3, <2>0, <2>1 DEF RangeInv, Agreed
  <2> QED
    BY <2>1, <2>2, Elsewhere DEF Agreed, StopPcs
<1>11. ASSUME PlainCommand("Cmd38", Command("erase", 0), "Await38")
       PROVE  Agreed' /\ result' = "running"
  <2>1. /\ QueueInv' /\ RestInv' /\ ReadInv' /\ WriteInv' /\ KeptInv' /\ Waits'
        /\ pc = "Cmd38" /\ pc' = "Await38" /\ result' = "running"
    BY <1>1, <1>2, <1>3, <1>4, <1>6, <1>11, PlainIssued DEF AwaitPcs
  <2>2. RangeInv'
    BY <1>1, <1>3, <2>1 DEF RangeInv, Agreed
  <2> QED
    BY <2>1, <2>2, Elsewhere DEF Agreed, StopPcs
<1>12. CASE PlainAnswer("Await12", Finish)
  <2>1. pc = "Await12" /\ host' = host /\ Calm /\ Calm' /\ Finish
        /\ (~host.error \/ op.kind \in DmaKinds)
    BY <1>3, <1>12, PlainAnswered DEF AwaitPcs
  <2>2. pc' = "Idle" /\ result' = "ok"
    BY <2>1 DEF Finish
  <2>3. StopInv' /\ Len(moved) = op.count
    BY <1>1, <1>3, <2>1, <2>2 DEF Agreed, StopInv, Calm
  <2> QED
    BY <2>1, <2>2, <2>3, CalmSuffices, Elsewhere DEF Agreed, PhasePcs, RangePcs
<1>13. ASSUME NEW second \in {"Await13", "Await38"}, PlainAnswer(second, Finish)
       PROVE  Agreed' /\ op.kind \notin BlockKinds
  <2>1. pc = second /\ Calm' /\ Finish
    BY <1>3, <1>13, PlainAnswered DEF AwaitPcs
  <2>2. pc' = "Idle" /\ result' = "ok" /\ op.kind \notin BlockKinds
    BY <1>4, <2>1 DEF Finish, ErasePcs
  <2>3. StopInv'
    BY <1>1, <2>2 DEF StopInv
  <2> QED
    BY <2>1, <2>2, <2>3, CalmSuffices, Elsewhere DEF Agreed, PhasePcs, RangePcs
<1>14. ASSUME NEW second \in {"Await32", "Await33"}, NEW next \in {"Cmd33", "Cmd38"},
              PlainAnswer(second, Goto(next)),
              second = "Await32" <=> next = "Cmd33"
       PROVE  Agreed' /\ result' = "running"
  <2>0. pc \in ErasePcs
    BY <1>14 DEF PlainAnswer, ErasePcs
  <2>1. pc = second /\ host' = host /\ Calm /\ Calm' /\ ~host.error /\ Goto(next)
    BY <1>3, <1>4, <1>14, <2>0, PlainAnswered DEF AwaitPcs
  <2>2. pc' = next /\ result' = "running" /\ base' = base
    BY <1>2, <2>1 DEF Goto
  <2>3. RangeInv'
    BY <1>1, <1>3, <1>14, <2>1, <2>2 DEF Agreed, RangeInv, Calm
  <2> QED
    BY <1>1, <1>2, <1>3, <2>1, <2>2, <2>3, CalmSuffices, Elsewhere, StillKept
    DEF Agreed, PhasePcs, StopPcs
<1>15. result' = "running" => result' # "ok"
  OBVIOUS
<1>16. CASE \/ PlainCommand("Cmd12", Command("stop", 0), "Await12")
            \/ PlainCommand("Cmd13", Command("status", 0), "Await13")
            \/ PlainCommand("Cmd32", Command("eraseStart", op.first), "Await32")
            \/ PlainCommand("Cmd33", Command("eraseEnd", op.first + op.count - 1), "Await33")
            \/ PlainCommand("Cmd38", Command("erase", 0), "Await38")
  BY <1>7, <1>8, <1>9, <1>10, <1>11, <1>15, <1>16
<1>17. CASE \/ PlainAnswer("Await13", Finish)
            \/ PlainAnswer("Await38", Finish)
  BY <1>1, <1>13, <1>17
<1>18. CASE \/ PlainAnswer("Await32", Goto("Cmd33"))
            \/ PlainAnswer("Await33", Goto("Cmd38"))
  BY <1>14, <1>15, <1>18
<1> QED
  BY <1>12, <1>16, <1>17, <1>18 DEF PlainStep

\* A call that begins is in step when the controller is ready.
LEMMA CallSteps ==
    ASSUME DwInv, CallBegins, inStep' = Ready
    PROVE  StepInv'
<1> SUFFICES ASSUME InStep' PROVE Agreed'
  BY DEF StepInv
<1>1. Ready /\ result' = "running" /\ pc' \in {"Attempt", "Cmd13", "Cmd32"}
      /\ UNCHANGED <<host, dev, store>> /\ moved' = <<>> /\ base' = 0
  BY DEF InStep, CallBegins
<1>2. Calm'
  BY <1>1 DEF Ready, Calm, Waits
<1>3. KeptInv'
  <2>1. Len(moved') = 0 /\ base' <= Len(moved')
    BY <1>1
  <2> HIDE <1>1
  <2>2. 1 .. Len(moved') = {}
    BY <2>1
  <2> QED
    BY <2>1, <2>2 DEF KeptInv
<1> QED
  BY <1>1, <1>2, <1>3, CalmSuffices, Elsewhere DEF Agreed, PhasePcs, StopPcs, RangePcs

\* handle_irq between two calls.
LEMMA HandleIrqSteps == DwInv /\ StepInv /\ HandleIrq => StepInv'
<1> SUFFICES ASSUME DwInv, StepInv, HandleIrq, InStep' PROVE Agreed'
  BY DEF StepInv
<1>1. UNCHANGED <<pc, op, result, base, at, moved, calls, inStep, setup, dev, store>>
      /\ pc = "Idle" /\ host' = Cleared
  BY DEF HandleIrq, CardAlone, Local
<1>2. Agreed /\ result # "running"
  BY <1>1, HasBeen DEF StepInv, DwInv, CallInv
<1>3. Calm
  BY <1>1, <1>2, CalmOutside DEF PhasePcs, AwaitPcs
<1>4. Calm'
  BY <1>1, <1>3, DrivenCalm DEF DwInv
<1>5. StopInv'
  BY <1>1, <1>2 DEF Agreed, StopInv
<1> QED
  BY <1>1, <1>2, <1>4, <1>5, CalmSuffices, Elsewhere DEF Agreed, PhasePcs, RangePcs

\* A bring-up puts nobody in step.
LEMMA BringUpSteps == ASSUME NEW reset, BringUp(reset) PROVE StepInv'
BY DEF BringUp, BringUpCall, StepInv, InStep

-----------------------------------------------------------------------------
(* A call in step: the hardware.                                           *)

\* The hardware is in step with the call that it has been in step with.
LEMMA HardwareIn ==
    ASSUME HardwareOnly, InStep', StepInv
    PROVE  Agreed /\ UNCHANGED <<pc, op, result, base, inStep, setup>>
BY HasBeen DEF HardwareOnly, StepInv

\* In a data phase, and while data waits, a call runs.
LEMMA Runs ==
    ASSUME DwInv
    PROVE  pc # "Idle" <=> result = "running"
BY DEF DwInv, CallInv

\* A path that reads, or has words to write, is that of a data phase.
LEMMA PathInPhase ==
    ASSUME DwInv, Agreed, host.path = "read" \/ (host.path = "write" /\ Filled)
    PROVE  InPhase /\ (Writing <=> host.path = "write") /\ result = "running" /\ ~Waits
<1>1. InPhase
  BY DEF Agreed, RestInv, Filled
<1> QED
  BY <1>1, Runs DEF Agreed, ReadInv, WriteInv, InPhase

\* A block behind those of the FIFO.
LEMMA Further ==
    \A s, a, n \in Nat :
       s + a + n + 1 = s + a + (n + 1) /\ a + n = (a + 1) + (n - 1)
OBVIOUS

\* A block from the card.
LEMMA ReceiveSteps == DwInv /\ StepInv /\ Receive => StepInv'
<1> SUFFICES ASSUME DwInv, StepInv, Receive, InStep' PROVE Agreed'
  BY DEF StepInv
<1> DEFINE f == Append(host.fifo, Content)
           v == Content
<1>0. TypeOK /\ CallsTypeOK
  BY CallsTyped DEF DwInv
<1>1. /\ Agreed /\ UNCHANGED <<pc, op, result, base, at, moved, inStep, setup, store>>
      /\ host.path = "read" /\ host.left > 0 /\ Sends /\ Room
  BY HardwareIn DEF Receive, CanReceive
<1>2. InPhase /\ ~Writing /\ result = "running"
  BY <1>1, PathInPhase
<1>3. v \in Fill
  BY <1>0, <1>1, Sending
<1>4. host' = [host EXCEPT !.fifo = f, !.left = @ - 1]
  BY DEF Receive
<1> HIDE DEF v
<1>5. /\ Len(f) = Len(host.fifo) + 1 /\ f[Len(host.fifo) + 1] = v
      /\ \A i \in 1 .. Len(host.fifo) : f[i] = host.fifo[i]
  BY <1>0, <1>1, <1>3, Longer DEF v
<1> HIDE DEF f
<1>6. Now(host.path, host.left - 1, f, host.dma, host.over, host.error, host.queued,
          host.gated)
  BY <1>0, <1>4, Moving
<1>7. QueueInv' /\ RestInv' /\ StopInv' /\ RangeInv'
  BY <1>1, <1>2, <1>6, PhaseKeeps DEF Now
<1>8. WriteInv' /\ KeptInv'
  BY <1>1, <1>2, StillKept DEF WriteInv, Writing, Agreed
<1>9. /\ Start' = Start /\ Count' = Count /\ (Writing' <=> Writing)
      /\ host'.fifo = f /\ host'.path = "read" /\ host'.left = host.left - 1
      /\ host'.over <=> host.over
      /\ host'.error <=> host.error
  BY <1>1, <1>6 DEF Start, Count, Writing, Now
<1>10. ASSUME host.error PROVE ReadInv'
  <2>1. host'.path # "write" /\ host'.error
    BY <1>9, <1>10
  <2> QED
    BY <2>1 DEF ReadInv
<1>11. ASSUME ~host.error PROVE ReadInv'
  <2>1. /\ at + Len(host.fifo) + host.left = Count
        /\ \A i \in 1 .. Len(host.fifo) :
              op.kind \in ReadKinds =>
                 /\ Start + at + i - 1 \in Blocks
                 /\ host.fifo[i] = store[Start + at + i - 1]
        /\ base + at <= Len(moved) /\ ~host.over
        /\ dev.state \in {"tran", IF op.kind = "switch" THEN "status" ELSE "data"}
        /\ dev.state = "data" => dev.block = Start + at + Len(host.fifo)
        /\ dev.state \in {"data", "status"} => (dev.multi <=> Count > 1)
    BY <1>1, <1>2, <1>11 DEF Agreed, ReadInv
  <2>2. /\ at \in Nat /\ Len(host.fifo) \in Nat /\ host.left \in Nat /\ Start \in Nat
        /\ Count \in Nat
    BY Numbers
  <2>3. at + Len(f) + (host.left - 1) = Count
    BY <1>5, <2>1, <2>2
  <2>4. op.kind \in ReadKinds =>
           /\ Start + at + Len(host.fifo) \in Blocks
           /\ v = store[Start + at + Len(host.fifo)]
    <3>1. op.kind # "switch" => dev.state = "data"
      BY <1>1, <2>1 DEF Sends
    <3>2. op.kind \in ReadKinds =>
             dev.state = "data" /\ dev.block \in Blocks /\ v = store[dev.block]
      BY <1>1, <3>1 DEF v, Content, ReadKinds, Sends
    <3> QED
      BY <2>1, <3>2
  <2>5. ASSUME NEW i \in 1 .. Len(f), op.kind \in ReadKinds
        PROVE  Start + at + i - 1 \in Blocks /\ f[i] = store[Start + at + i - 1]
    <3>1. CASE i = Len(host.fifo) + 1
      <4>1. Start + at + i - 1 = Start + at + Len(host.fifo)
        <5>1. Start + at \in Nat
          BY <2>2
        <5> QED
          BY <2>2, <3>1, <5>1
      <4> QED
        BY <1>5, <2>4, <2>5, <3>1, <4>1
    <3>2. CASE i # Len(host.fifo) + 1
      <4>1. i \in 1 .. Len(host.fifo)
        BY <1>5, <2>2, <3>2
      <4> QED
        BY <1>5, <2>1, <2>5, <4>1
    <3> QED
      BY <3>1, <3>2
  <2>6. /\ dev'.state \in {"tran", IF op.kind = "switch" THEN "status" ELSE "data"}
        /\ dev'.state = "data" => dev'.block = Start + at + Len(f)
        /\ dev'.state \in {"data", "status"} => (dev'.multi <=> Count > 1)
        /\ host.left - 1 = 0 => dev'.state = IF Count > 1 THEN "data" ELSE "tran"
    <3>1. dev.state \in {"data", "status"}
      BY <1>1 DEF Sends
    <3>2. CASE dev.multi
      <4>1. dev' = [dev EXCEPT !.block = @ + 1]
        BY <3>2 DEF Receive
      <4>2. dev'.state = dev.state /\ dev'.block = dev.block + 1 /\ dev'.multi = dev.multi
        BY <1>0, <4>1, NextBlock
      <4>3. Count > 1
        BY <2>1, <3>1, <3>2
      <4>4. op.kind # "switch"
        <5>1. op.kind = "switch" => Count = 1
          BY DEF DwInv, CountInv, Count
        <5> QED
          BY <4>3, <5>1
      <4>5. dev.state = "data"
        BY <2>1, <3>1, <4>4
      <4>6. dev.block + 1 = Start + at + Len(f)
        <5>1. Start + at \in Nat
          BY <2>2
        <5>2. dev.block = Start + at + Len(host.fifo) /\ Len(f) = Len(host.fifo) + 1
          BY <1>5, <2>1, <4>5
        <5>3. Start + at + Len(host.fifo) + 1 = Start + at + (Len(host.fifo) + 1)
          BY <2>2, Further
        <5> QED
          BY <5>2, <5>3
      <4> QED
        BY <2>1, <4>2, <4>3, <4>4, <4>5, <4>6
    <3>3. CASE ~dev.multi
      <4>1. dev' = Do("tran")
        BY <3>3 DEF Receive
      <4>2. dev'.state = "tran"
        BY <1>0, <4>1, Becomes DEF CardStates
      <4>3. ~(Count > 1)
        BY <2>1, <3>1, <3>3
      <4> QED
        BY <4>2, <4>3
    <3> QED
      BY <3>2, <3>3
  <2>7. /\ at' + Len(host'.fifo) + host'.left = Count'
        /\ base' + at' <= Len(moved') /\ ~host'.over /\ host'.path = "read"
    BY <1>1, <1>9, <2>1, <2>3
  <2>8. \A i \in 1 .. Len(host'.fifo) :
           op'.kind \in ReadKinds =>
              /\ Start' + at' + i - 1 \in Blocks
              /\ host'.fifo[i] = store'[Start' + at' + i - 1]
    BY <1>1, <1>9, <2>5
  <2>9. /\ dev'.state \in {"tran", IF op'.kind = "switch" THEN "status" ELSE "data"}
        /\ dev'.state = "data" => dev'.block = Start' + at' + Len(host'.fifo)
        /\ dev'.state \in {"data", "status"} => (dev'.multi <=> Count' > 1)
        /\ host'.left = 0 => dev'.state = IF Count' > 1 THEN "data" ELSE "tran"
    BY <1>1, <1>9, <2>6
  <2> QED
    BY <2>7, <2>8, <2>9 DEF ReadInv
<1> QED
  BY <1>7, <1>8, <1>10, <1>11 DEF Agreed

\* The end of a path.
LEMMA PathEndsSteps == DwInv /\ StepInv /\ PathEnds => StepInv'
<1> SUFFICES ASSUME DwInv, StepInv, PathEnds, InStep' PROVE Agreed'
  BY DEF StepInv
<1>1. /\ Agreed /\ UNCHANGED <<pc, op, result, base, at, moved, inStep, setup, dev, store>>
      /\ host' = Ended /\ host.left = 0 /\ host.path \in {"read", "write"}
      /\ host.path = "read" => (host.dma => ~Filled \/ at = Count)
      /\ host.path = "write" => dev.state # "prg"
  BY HardwareIn DEF PathEnds, CanEnd
<1>2. Now("idle", 0, host.fifo, host.dma, TRUE, host.error, host.queued, host.gated)
  BY <1>1, Moving DEF DwInv
<1>3. /\ Start' = Start /\ Count' = Count /\ (Writing' <=> Writing)
      /\ (InPhase' <=> InPhase)
  BY <1>1, <1>2 DEF Start, Count, Writing, Now, InPhase, Waits
<1>4. /\ at \in Nat /\ Len(host.fifo) \in Nat /\ Count \in Nat
      /\ Len(host.fifo) = 0 => host.fifo = <<>>
  BY Numbers, HostFields DEF DwInv
<1>5. CASE InPhase
  <2>1. result = "running"
    BY <1>5, Runs DEF InPhase
  <2>2. QueueInv' /\ RestInv' /\ StopInv' /\ RangeInv' /\ KeptInv'
    BY <1>1, <1>2, <1>5, <2>1, PhaseKeeps, StillKept DEF Now, Agreed
  <2>3. ReadInv'
    <3>1. CASE ~Writing /\ ~host.error
      <4>1. host.path = "read" /\ at + Len(host.fifo) + 0 = Count
        BY <1>1, <1>5, <3>1 DEF Agreed, ReadInv
      <4>2. host.dma => host.fifo = <<>>
        BY <1>1, <1>4, <4>1 DEF Filled
      <4> QED
        BY <1>1, <1>2, <1>3, <1>5, <3>1, <4>1, <4>2 DEF Agreed, ReadInv, Now
    <3> QED
      BY <1>2, <1>3, <3>1 DEF ReadInv, Now
  <2>4. WriteInv'
    <3>1. CASE Writing
      <4>1. host.path = "write"
        BY <1>1, <1>5, <3>1 DEF Agreed, WriteInv
      <4>2. /\ at = Written + Len(host.fifo) /\ at <= Count /\ Written <= Len(moved)
            /\ dev.state = IF Count > 1 THEN "rcv" ELSE "prg"
        BY <1>1, <1>5, <3>1, <4>1 DEF Agreed, WriteInv
      <4>3. Written = Count
        BY <1>1, <1>4 DEF Written
      <4>4. at = Count /\ host.fifo = <<>> /\ Count <= Len(moved)
        BY <1>4, <4>2, <4>3
      <4>5. Count > 1 /\ dev.state = "rcv"
        BY <1>1, <4>1, <4>2
      <4> QED
        BY <1>1, <1>2, <1>3, <4>4, <4>5 DEF WriteInv, Now
    <3> QED
      BY <1>3, <3>1 DEF WriteInv
  <2> QED
    BY <2>2, <2>3, <2>4 DEF Agreed
<1>6. CASE ~InPhase
  <2>1. /\ pc \in {"PioIssue", "PioCommand"} /\ host.fifo = <<>> /\ dev.state = "rcv"
        /\ pc = "PioCommand" => at = 0
    BY <1>1, <1>6 DEF Agreed, RestInv
  <2>2. result = "running"
    BY <2>1, Runs
  <2>3. RestInv'
    BY <1>1, <1>2, <1>3, <1>6, <2>1 DEF RestInv, Now
  <2>4. QueueInv'
    <3>1. Awaited' = Awaited
      BY <1>1 DEF Awaited, TransferCommand, Command, Start, Count, Selected, BlockAddrOf
    <3> QED
      BY <1>1, <1>2, <3>1 DEF Agreed, QueueInv, Waits, Now
  <2> QED
    BY <1>1, <1>3, <1>6, <2>1, <2>2, <2>3, <2>4, StillKept, Elsewhere
    DEF Agreed, ReadInv, WriteInv, StopPcs, RangePcs
<1> QED
  BY <1>5, <1>6

\* A path that fails leaves an error.
LEMMA PathFailsSteps == DwInv /\ StepInv /\ PathFails => StepInv'
<1> SUFFICES ASSUME DwInv, StepInv, PathFails, InStep' PROVE Agreed'
  BY DEF StepInv
<1>1. /\ Agreed /\ UNCHANGED <<pc, op, result, base, at, moved, inStep, setup, store>>
  BY HardwareIn DEF PathFails
<1>2. InPhase /\ (Writing <=> host.path = "write") /\ result = "running"
  <2>1. host.path = "read" \/ (host.path = "write" /\ Filled)
    BY DEF PathFails, CanFail, CanReceive, CanTransmit
  <2> QED
    BY <1>1, <2>1, PathInPhase
<1>3. PICK fifo \in Seq(Fill) : PathFailsTo(fifo)
  BY Failing DEF DwInv
<1>4. \/ Now("idle", 0, fifo, host.dma, TRUE, TRUE, host.queued, host.gated)
      \/ /\ host.path = "read"
         /\ Now(host.path, host.left - 1, fifo, host.dma, host.over, TRUE, host.queued,
                host.gated)
  BY <1>3, Moving DEF PathFailsTo, DwInv
<1>5. QueueInv' /\ RestInv' /\ StopInv' /\ RangeInv'
  BY <1>1, <1>2, <1>4, PhaseKeeps DEF Now
<1>6. ReadInv' /\ WriteInv'
  BY <1>1, <1>2, <1>4 DEF ReadInv, WriteInv, Writing, Now
<1>7. KeptInv'
  BY <1>1, <1>2, StillKept DEF Agreed
<1> QED
  BY <1>5, <1>6, <1>7 DEF Agreed

\* What a block sent to the card is, while the call is in step: the next one of the
\* call's data, at its place.
LEMMA Transmitted ==
    ASSUME DwInv, Agreed, InStep, Transmit
    PROVE  /\ InPhase /\ Writing /\ result = "running" /\ host.path = "write"
           /\ host.left > 0 /\ Filled /\ base = 0 /\ Count = op.count
           /\ Written \in Nat /\ Written <= Len(moved) /\ Written < op.count
           /\ dev.state = "rcv" /\ dev.block = op.first + Written /\ dev.block \in Blocks
           /\ op.data[Written + 1] \in Data
           /\ Moved(Written + 1, op.data[Written + 1])
           /\ store' = [store EXCEPT ![op.first + Written] = op.data[Written + 1]]
<1>1. /\ host.path = "write" /\ host.left > 0 /\ Filled
      /\ dev.state = "rcv" /\ dev.block \in Blocks
  BY DEF Transmit, CanTransmit, Takes
<1>2. InPhase /\ Writing /\ result = "running"
  BY <1>1, PathInPhase
<1>3. base = 0 /\ Count = op.count /\ op.count = Len(op.data) /\ op.data \in Seq(Data)
  <2>1. op.kind # "readBlocks"
    BY <1>2 DEF Writing, WriteKinds
  <2>2. base = 0
    BY <2>1, Numbers DEF DwInv, CountInv
  <2>3. op.data \in Seq(Data)
    BY DEF DwInv, TypeOK, CallsTypeOK, Operation
  <2> QED
    BY <1>2, <2>1, <2>2, <2>3 DEF DwInv, CountInv, Writing, Count
<1>4. /\ host.left <= Count /\ at = Written + Len(host.fifo) /\ at <= Count
      /\ \A i \in 1 .. Len(host.fifo) : host.fifo[i] = op.data[Written + i]
      /\ Written <= Len(moved) /\ dev.block = Start + Written
  BY <1>1, <1>2 DEF Agreed, WriteInv
<1>5. /\ host.left \in Nat /\ Count \in Nat /\ Start = op.first + base /\ op.first \in Nat
      /\ Len(host.fifo) \in Nat
  BY Numbers
<1>6. Written \in Nat /\ Written < op.count
  BY <1>1, <1>3, <1>4, <1>5 DEF Written
<1>7. dev.block = op.first + Written
  BY <1>3, <1>4, <1>5, <1>6
<1>8. op.data[Written + 1] \in Data
  BY <1>3, <1>6
<1>9. Head(host.fifo) = op.data[Written + 1]
  <2>1. Len(host.fifo) > 0 /\ Head(host.fifo) = host.fifo[1]
    BY <1>1, Shorter DEF DwInv
  <2>2. 1 \in 1 .. Len(host.fifo)
    BY <1>5, <2>1
  <2> QED
    BY <1>4, <2>1, <2>2
<1>10. PICK d \in Data :
          /\ Head(host.fifo) \in Data => d = Head(host.fifo)
          /\ store' = [store EXCEPT ![dev.block] = d]
          /\ IF inStep /\ result = "running" /\ op.kind \in WriteKinds
             THEN Moved(Count - host.left + 1, d) ELSE UNCHANGED moved
  BY DEF Transmit
<1>11. d = op.data[Written + 1]
  BY <1>8, <1>9, <1>10
<1>12. Moved(Count - host.left + 1, d)
  BY <1>2, <1>10 DEF InStep, Writing
<1>13. Moved(Written + 1, d)
  BY <1>12 DEF Written
<1> QED
  BY <1>1, <1>2, <1>3, <1>4, <1>6, <1>7, <1>8, <1>10, <1>11, <1>13

\* A block to the card: the types.
LEMMA TransmitTyped == DwInv /\ StepInv /\ Transmit => DwInv'
<1> SUFFICES ASSUME DwInv, StepInv, Transmit PROVE DwInv'
  OBVIOUS
<1>1. TypeOK /\ Filled /\ host.left > 0 /\ HardwareOnly /\ at' = at
  BY DEF DwInv, Transmit, CanTransmit
<1> DEFINE f == Tail(host.fifo)
<1>2. f \in Seq(Fill) /\ Len(f) <= FifoDepth
  BY <1>1, Shorter
<1>3. host' = [host EXCEPT !.fifo = f, !.left = @ - 1]
  BY DEF Transmit
<1> HIDE DEF f
<1>4. HostTyped' /\ (host'.dma <=> host.dma)
  BY <1>1, <1>2, <1>3, MovingTyped
<1>5. PICK d \in Data :
          /\ store' = [store EXCEPT ![dev.block] = d]
          /\ IF inStep /\ result = "running" /\ op.kind \in WriteKinds
             THEN Moved(Count - host.left + 1, d) ELSE UNCHANGED moved
  BY DEF Transmit
<1>6. CardTyped'
  <2>1. store' \in [Blocks -> Data]
    BY <1>1, <1>5 DEF TypeOK, CallsTypeOK
  <2>2. [dev EXCEPT !.block = @ + 1] \in Device /\ Do("prg") \in Device
    BY <1>1, CallsTyped, NextBlock, Becomes DEF CardStates
  <2> QED
    BY <2>1, <2>2 DEF Transmit, CardTyped
<1>7. moved' \in Seq(Data \cup {"switched"}) /\ Len(moved') <= op.count
  <2>1. CASE moved' = moved
    BY <1>1, <2>1 DEF TypeOK, CallsTypeOK
  <2>2. CASE moved' # moved
    <3>1. InStep
      BY <1>5, <2>2 DEF InStep
    <3>2. /\ base = 0 /\ Written \in Nat /\ Written < op.count
          /\ op.data[Written + 1] \in Data /\ Moved(Written + 1, op.data[Written + 1])
      BY <3>1, Transmitted DEF StepInv
    <3>3. Written + 1 \in Nat /\ Written + 1 > 0 /\ base + (Written + 1) <= op.count
      BY <3>2, Numbers
    <3> QED
      BY <1>1, <3>2, <3>3, PutTyped, CallsTyped
  <2> QED
    BY <2>1, <2>2
<1>8. at' \in Nat
  BY <1>1 DEF TypeOK, CallsTypeOK
<1> QED
  BY <1>1, <1>4, <1>6, <1>7, <1>8, HardwareKeeps

\* And what is said of a call in step.
LEMMA TransmitSteps == DwInv /\ StepInv /\ Transmit => StepInv'
<1> SUFFICES ASSUME DwInv, StepInv, Transmit, InStep' PROVE Agreed'
  BY DEF StepInv
<1> DEFINE f == Tail(host.fifo)
           n == Written
           v == op.data[n + 1]
<1>0. TypeOK /\ CallsTypeOK
  BY CallsTyped DEF DwInv
<1>1. Agreed /\ InStep /\ UNCHANGED <<pc, op, result, base, at, inStep, setup>>
  BY HardwareIn, HasBeen DEF Transmit, HardwareOnly
<1>2. /\ InPhase /\ Writing /\ result = "running" /\ host.path = "write"
      /\ host.left > 0 /\ Filled /\ base = 0 /\ Count = op.count
      /\ n \in Nat /\ n <= Len(moved) /\ n < op.count
      /\ dev.state = "rcv" /\ dev.block = op.first + n /\ dev.block \in Blocks
      /\ v \in Data /\ Moved(n + 1, v)
      /\ store' = [store EXCEPT ![op.first + n] = v]
  BY <1>1, Transmitted
<1>3. host' = [host EXCEPT !.fifo = f, !.left = @ - 1]
  BY DEF Transmit
<1>4. /\ Len(host.fifo) > 0 /\ Len(f) = Len(host.fifo) - 1
      /\ \A i \in 1 .. Len(host.fifo) - 1 : f[i] = host.fifo[i + 1]
  BY <1>0, <1>2, Shorter
<1> HIDE DEF f, v
<1>5. Now(host.path, host.left - 1, f, host.dma, host.over, host.error, host.queued,
          host.gated)
  BY <1>0, <1>3, Moving
<1>6. /\ Count \in Nat /\ host.left \in Nat /\ Len(host.fifo) \in Nat /\ at \in Nat
      /\ op.first \in Nat /\ Len(moved) \in Nat /\ Start = op.first + base
  BY Numbers
<1>7. QueueInv' /\ RestInv' /\ StopInv' /\ RangeInv'
  BY <1>1, <1>2, <1>5, PhaseKeeps DEF Now
<1>8. ReadInv'
  BY <1>1, <1>2 DEF ReadInv, Writing
<1>9. /\ ~host.over /\ host.left <= Count /\ at = n + Len(host.fifo) /\ at <= Count
      /\ \A i \in 1 .. Len(host.fifo) : host.fifo[i] = op.data[n + i]
      /\ dev.multi <=> Count > 1
  <2>1. InPhase /\ Writing /\ host.path = "write" /\ dev.state = "rcv"
    BY <1>2
  <2> QED
    BY <1>1, <2>1 DEF Agreed, WriteInv
<1>10. /\ Len(moved') \in Nat /\ Len(moved) <= Len(moved') /\ n + 1 <= Len(moved')
       /\ Len(moved') = Len(moved) \/ Len(moved') = n + 1
       /\ moved'[n + 1] = v /\ \A i \in 1 .. Len(moved) : i # n + 1 => moved'[i] = moved[i]
  <2>1. moved \in Seq(Fill) /\ v \in Fill
    BY <1>0, <1>2 DEF TypeOK, CallsTypeOK, Fill
  <2>2. moved' = IF base + (n + 1) <= Len(moved) THEN [moved EXCEPT ![base + (n + 1)] = v]
                                               ELSE Append(moved, v)
    BY <1>2 DEF Moved
  <2>3. base + (n + 1) = n + 1 /\ n + 1 \in Nat /\ n + 1 > 0 /\ n + 1 <= Len(moved) + 1
    BY <1>2, <1>6
  <2> HIDE DEF n
  <2> QED
    BY <2>1, <2>2, <2>3, PutInSequence
<1>11. KeptInv'
  <2>1. base' <= Len(moved')
    BY <1>1, <1>2, <1>6, <1>10
  <2>2. ASSUME NEW i \in 1 .. Len(moved')
        PROVE  moved'[i] = store'[op.first + i - 1] /\ moved'[i] = op.data[i]
    <3>0. i \in Nat
      BY <1>10
    <3>1. CASE i = n + 1
      <4>1. op.first + i - 1 = op.first + n /\ op.first + n \in Blocks
        BY <1>2, <1>6, <3>1
      <4>2. store'[op.first + n] = v
        BY <1>0, <1>2, <4>1 DEF TypeOK, CallsTypeOK
      <4> QED
        BY <1>10, <3>1, <4>1, <4>2 DEF v
    <3>2. CASE i # n + 1
      <4>1. i \in 1 .. Len(moved)
        BY <1>2, <1>6, <1>10, <3>2
      <4>2. moved[i] = store[op.first + i - 1] /\ moved[i] = op.data[i]
        <5>1. result = "running" /\ Writing /\ op.kind \in BlockKinds
          BY <1>2 DEF BlockKinds, Writing
        <5> QED
          BY <1>1, <4>1, <5>1 DEF Agreed, KeptInv
      <4>3. op.first + i - 1 # op.first + n
        BY <1>2, <1>6, <3>0, <3>2
      <4>4. store'[op.first + i - 1] = store[op.first + i - 1]
        BY <1>2, <4>3
      <4> QED
        BY <1>10, <3>2, <4>1, <4>2, <4>4
    <3> QED
      BY <3>1, <3>2
  <2> QED
    BY <1>1, <2>1, <2>2 DEF KeptInv, Writing
<1>12. WriteInv'
  <2>1. /\ Start' = Start /\ Count' = Count /\ Written' = n + 1
        /\ host'.fifo = f /\ host'.path = "write" /\ host'.left = host.left - 1
        /\ host'.over <=> host.over
    <3>1. /\ host'.fifo = f /\ host'.path = "write" /\ host'.left = host.left - 1
          /\ host'.over <=> host.over
      BY <1>2, <1>5 DEF Now
    <3>2. Start' = Start /\ Count' = Count
      BY <1>1 DEF Start, Count
    <3>3. Count - (host.left - 1) = Count - host.left + 1
      BY <1>6
    <3> QED
      BY <3>1, <3>2, <3>3 DEF Written
  <2>2. n + 1 \in Nat /\ host.left - 1 <= Count /\ at = (n + 1) + Len(f)
    <3>1. Len(f) = Len(host.fifo) - 1 /\ Len(host.fifo) \in Nat /\ Len(f) \in Nat
      BY <1>4, <1>6
    <3>2. n \in Nat /\ at = n + Len(host.fifo)
      BY <1>2, <1>9
    <3> HIDE DEF n
    <3>3. at = (n + 1) + Len(f)
      <4>1. n + Len(host.fifo) = (n + 1) + (Len(host.fifo) - 1)
        BY <3>1, <3>2, Further
      <4> QED
        BY <3>1, <3>2, <4>1
    <3>4. n + 1 \in Nat
      BY <3>2
    <3>5. host.left - 1 <= Count
      BY <1>6, <1>9
    <3> QED
      BY <3>3, <3>4, <3>5
  <2>3. ASSUME NEW i \in 1 .. Len(f) PROVE f[i] = op.data[(n + 1) + i]
    <3>0. Len(f) = Len(host.fifo) - 1 /\ Len(host.fifo) \in Nat
      BY <1>4, <1>6
    <3>1. i \in Nat /\ i + 1 \in 1 .. Len(host.fifo) /\ i \in 1 .. Len(host.fifo) - 1
      BY <3>0
    <3>2. f[i] = op.data[n + (i + 1)]
      BY <1>4, <1>9, <3>1
    <3>3. n + (i + 1) = (n + 1) + i
      BY <1>2, <3>1
    <3> QED
      BY <3>2, <3>3
  <2>4. /\ dev'.state = "rcv" => dev'.block = Start + (n + 1) /\ (dev'.multi <=> Count > 1)
        /\ host.left - 1 > 0 => dev'.state \in {"rcv", "tran"}
        /\ host.left - 1 = 0 => dev'.state = IF Count > 1 THEN "rcv" ELSE "prg"
    <3>1. CASE dev.multi
      <4>1. dev' = [dev EXCEPT !.block = @ + 1]
        BY <3>1 DEF Transmit
      <4>2. dev'.state = "rcv" /\ dev'.block = dev.block + 1 /\ dev'.multi = dev.multi
        BY <1>0, <1>2, <4>1, NextBlock
      <4>3. dev.block + 1 = Start + (n + 1)
        <5>1. Start \in Nat /\ n \in Nat
          BY <1>2, <1>6
        <5>2. dev.block = Start + n
          BY <1>1, <1>2 DEF Agreed, WriteInv
        <5> HIDE DEF n
        <5> QED
          BY <5>1, <5>2
      <4> QED
        BY <1>9, <3>1, <4>2, <4>3
    <3>2. CASE ~dev.multi
      <4>1. dev' = Do("prg")
        BY <3>2 DEF Transmit
      <4>2. dev'.state = "prg"
        BY <1>0, <4>1, Becomes DEF CardStates
      <4>3. ~(Count > 1)
        BY <1>9, <3>2
      <4>4. ~(host.left - 1 > 0)
        BY <1>6, <1>9, <4>3
      <4> QED
        BY <4>2, <4>3, <4>4
    <3> QED
      BY <3>1, <3>2
  <2> HIDE DEF n
  <2> QED
    BY <1>1, <1>2, <1>9, <1>10, <2>1, <2>2, <2>3, <2>4 DEF WriteInv
<1> QED
  BY <1>7, <1>8, <1>11, <1>12 DEF Agreed

\* The engine moves a block as the CPU does.
LEMMA EngineMovesSteps == DwInv /\ StepInv /\ EngineMoves => StepInv'
<1> SUFFICES ASSUME DwInv, StepInv, EngineMoves, InStep' PROVE Agreed'
  BY DEF StepInv
<1>1. /\ Agreed /\ UNCHANGED <<pc, op, result, base, inStep, setup, dev, store>>
      /\ at' = at + 1
  BY HardwareIn DEF EngineMoves
<1>2. host.dma => op.count > 0 /\ op.kind \in BlockKinds /\ pc \in DmaPcs
  BY DEF DwInv, CallInv, TransferPcs, DmaPcs
<1>3. ASSUME CanFetch, NEW d \in Data, op.kind \in WriteKinds => d = op.data[at + 1],
             host' = [host EXCEPT !.fifo = Append(@, d)], moved' = moved
      PROVE  Agreed'
  <2>1. host.path = "write" /\ Room /\ at < Count /\ host.dma
    BY <1>3 DEF CanFetch
  <2>2. InPhase /\ result = "running"
    BY <1>1, <1>2, <2>1, Runs DEF Agreed, RestInv, DmaPcs
  <2>3. Writing
    BY <1>1, <2>1, <2>2 DEF Agreed, ReadInv
  <2> QED
    BY <1>1, <1>2, <1>3, <2>1, <2>2, <2>3, Pushes DEF Writing
<1>4. ASSUME CanStore, host' = [host EXCEPT !.fifo = Tail(@)],
             IF op.kind \in ReadKinds /\ ~host.error THEN Moved(at + 1, Head(host.fifo))
                                                     ELSE UNCHANGED moved
      PROVE  Agreed'
  <2>1. host.path = "read" /\ Filled /\ at < Count /\ host.dma
    BY <1>4 DEF CanStore
  <2>2. InPhase /\ ~Writing /\ result = "running"
    BY <1>1, <2>1, PathInPhase
  <2>3. op.kind \in ReadKinds
    BY <1>2, <2>1, <2>2 DEF BlockKinds, Writing
  <2>4. CASE ~host.error
    BY <1>1, <1>2, <1>4, <2>1, <2>2, <2>3, <2>4, TakesNext
  <2>5. CASE host.error
    <3>1. Now(host.path, host.left, Tail(host.fifo), host.dma, host.over, host.error,
              host.queued, host.gated)
      BY <1>4, Driven DEF DwInv
    <3>2. QueueInv' /\ RestInv' /\ StopInv' /\ RangeInv'
      BY <1>1, <2>2, <3>1, PhaseKeeps DEF Now
    <3>3. ReadInv' /\ WriteInv'
      BY <1>1, <2>1, <2>2, <2>5, <3>1 DEF ReadInv, WriteInv, Writing, Now
    <3>4. KeptInv'
      BY <1>1, <1>4, <2>2, <2>5, StillKept DEF Agreed
    <3> QED
      BY <3>2, <3>3, <3>4 DEF Agreed
  <2> QED
    BY <2>4, <2>5
<1> QED
  BY <1>3, <1>4 DEF EngineMoves

\* A command that goes out is the one the driver waits for.
LEMMA GoesOutFor ==
    ASSUME DwInv, Agreed, GoesOut
    PROVE  /\ pc \in AwaitPcs /\ host.queued = <<Awaited>> /\ Gone(Awaited)
           /\ ~host.error /\ ~host.gated /\ host.path = "idle" /\ host.fifo = <<>> /\ ~InPhase
           /\ Waits /\ result = "running"
<1>1. Waits /\ host.path = "idle"
  BY DEF GoesOut, CanGoOut, Waits
<1>2. pc \in AwaitPcs /\ host.queued = <<Awaited>> /\ ~host.error /\ ~host.gated
  BY <1>1 DEF Agreed, QueueInv
<1>3. host.fifo = <<>> /\ ~InPhase
  BY <1>1 DEF Agreed, RestInv, InPhase
<1>4. Gone(Awaited)
  BY <1>2, GoneOut DEF DwInv
<1>5. result = "running"
  BY <1>2, Runs DEF AwaitPcs
<1> QED
  BY <1>1, <1>2, <1>3, <1>4, <1>5

\* With a data command a data phase begins, or there is an error.
LEMMA DataGoesOut ==
    ASSUME DwInv, StepInv, GoesOut, InStep', pc \in {"DmaCommand", "PioCommand"}
    PROVE  Agreed'
<1>1. Agreed /\ UNCHANGED <<pc, op, result, base, at, moved, inStep, setup>>
  BY HardwareIn DEF GoesOut
<1>2. /\ Gone(TransferCommand) /\ ~host.error /\ ~host.gated /\ host.path = "idle"
      /\ host.fifo = <<>> /\ ~InPhase /\ Waits /\ result = "running"
  BY <1>1, GoesOutFor DEF Awaited
<1>3. at = 0 /\ (host.over => dev.state = "rcv")
  BY <1>1, <1>2 DEF Agreed, RestInv
<1>4. /\ op.kind \in BlockKinds \cup {"switch"} /\ op.count > 0
      /\ op.kind = "switch" => op.count = 1
  BY DEF DwInv, CallInv, CountInv, TransferPcs, DmaPcs, PioPcs
<1>5. /\ TransferCommand.count = Count /\ TransferCommand.index \in DataIndex
      /\ TransferCommand.index \in {"read", "write", "switch"}
      /\ TransferCommand.index = "write" <=> Writing
      /\ TransferCommand.index \notin PlainIndex
  <2>1. op.kind \in ReadKinds => ~Writing
    BY DEF ReadKinds, WriteKinds, Writing
  <2> QED
    BY <2>1, Commands DEF DwInv, DataIndex, PlainIndex
<1>6. Count \in Nat /\ Count > 0 /\ (op.kind = "switch" => Count = 1)
  BY <1>4, Numbers DEF Count
<1>7. store' = store
  BY <1>2, <1>5 DEF Gone, StoreAfter
<1>8. host'.queued = <<>> /\ host'.fifo = <<>> /\ ~host'.gated /\ (host'.over <=> host.over)
  BY <1>2 DEF Gone, Sent, Now
<1>9. InPhase' /\ QueueInv' /\ RestInv'
  BY <1>1, <1>8 DEF InPhase, Waits, QueueInv, RestInv
<1>10. StopInv' /\ RangeInv' /\ KeptInv'
  BY <1>1, <1>2, <1>7, StillKept, Elsewhere DEF Agreed, StopPcs, RangePcs
<1>11. /\ Start' = Start /\ Count' = Count /\ (Writing' <=> Writing)
  BY <1>1 DEF Start, Count, Writing
<1>12. CASE host'.error /\ host'.path = "idle"
  <2>1. ReadInv' /\ WriteInv'
    BY <1>12 DEF ReadInv, WriteInv
  <2> QED
    BY <1>9, <1>10, <2>1 DEF Agreed
<1>13. CASE /\ dev.state = "tran" /\ dev' = Obeyed(TransferCommand)
            /\ host'.path = (IF Writing THEN "write" ELSE "read")
            /\ host'.left = Count
  <2>1. ~host'.over
    BY <1>3, <1>8, <1>13
  <2>2. /\ op.kind \in ReadKinds => dev'.state \in {"data", "tran"}
        /\ op.kind \in WriteKinds => dev'.state \in {"rcv", "tran"}
        /\ op.kind \notin BlockKinds => dev'.state = "status"
        /\ dev'.state \in {"data", "rcv"} => dev'.block = Start /\ (dev'.multi <=> Count > 1)
        /\ dev'.state = "status" => ~dev'.multi
    BY <1>13, CallsTyped, ObeyedData DEF DwInv
  <2>3. Len(host'.fifo) = 0 /\ base <= Len(moved) /\ base \in Nat /\ Start \in Nat
        /\ Len(moved) \in Nat
    BY <1>1, <1>2, <1>8, Numbers DEF Agreed, KeptInv
  <2>4. 1 .. Len(host'.fifo) = {}
    BY <2>3
  <2>5. ReadInv'
    <3>1. CASE ~Writing
      <4>1. /\ dev'.state \in {"tran", IF op.kind = "switch" THEN "status" ELSE "data"}
            /\ dev'.state = "data" => op.kind # "switch"
        <5>1. op.kind = "switch" => op.kind \notin BlockKinds
          BY DEF BlockKinds, ReadKinds, WriteKinds
        <5>2. op.kind # "switch" => op.kind \in ReadKinds
          BY <1>4, <3>1 DEF BlockKinds, Writing
        <5>3. op.kind \in ReadKinds => op.kind # "switch"
          BY DEF ReadKinds
        <5> QED
          BY <2>2, <5>1, <5>2, <5>3
      <4>2. dev'.state \in {"data", "status"} => (dev'.multi <=> Count > 1)
        <5>1. dev'.state = "status" => op.kind = "switch"
          BY <4>1
        <5>2. op.kind = "switch" => ~(Count > 1)
          BY <1>6
        <5> QED
          BY <2>2, <5>1, <5>2
      <4>3. /\ at' + Len(host'.fifo) + host'.left = Count' /\ base' + at' <= Len(moved')
            /\ host'.left # 0
            /\ Start' + at' + Len(host'.fifo) = Start
        BY <1>1, <1>3, <1>6, <1>11, <1>13, <2>3
      <4>4. host'.path = "read"
        BY <1>13, <3>1
      <4>5. op' = op /\ Count' = Count
        BY <1>1, <1>11
      <4>6. dev'.state = "data" => dev'.block = Start' + at' + Len(host'.fifo)
        BY <2>2, <4>3
      <4> QED
        BY <2>1, <2>4, <4>1, <4>2, <4>3, <4>4, <4>5, <4>6 DEF ReadInv
    <3> QED
      BY <1>11, <3>1 DEF ReadInv
  <2>6. WriteInv'
    <3>1. CASE Writing
      <4>1. Written' = 0
        BY <1>6, <1>11, <1>13 DEF Written
      <4>2. at' = 0 + Len(host'.fifo) /\ at' <= Count' /\ 0 <= Len(moved')
            /\ Start' + 0 = Start /\ host'.left <= Count' /\ host'.left # 0
        BY <1>1, <1>3, <1>6, <1>11, <1>13, <2>3
      <4>3. host'.path = "write" /\ dev'.state \in {"rcv", "tran"}
        BY <1>13, <2>2, <3>1 DEF Writing
      <4>4. dev'.state = "rcv" => dev'.block = Start' + 0 /\ (dev'.multi <=> Count' > 1)
        BY <1>11, <2>2, <4>2
      <4> QED
        BY <2>1, <2>4, <4>1, <4>2, <4>3, <4>4 DEF WriteInv
    <3> QED
      BY <1>11, <3>1 DEF WriteInv
  <2> QED
    BY <1>9, <1>10, <2>5, <2>6 DEF Agreed
<1>14. Legal(TransferCommand) => dev.state = "tran"
  BY <1>5 DEF Legal
<1>15. PathOf(TransferCommand) = IF Writing THEN "write" ELSE "read"
  BY <1>5 DEF PathOf
<1> QED
  BY <1>2, <1>5, <1>12, <1>13, <1>14, <1>15 DEF Gone, Sent, Now

\* Without data it is only the card that does something.
LEMMA PlainGoesOut ==
    ASSUME DwInv, StepInv, GoesOut, InStep', pc \notin {"DmaCommand", "PioCommand"}
    PROVE  Agreed'
<1>1. Agreed /\ UNCHANGED <<pc, op, result, base, at, moved, inStep, setup>>
  BY HardwareIn DEF GoesOut
<1>2. /\ Gone(Awaited) /\ ~host.error /\ ~host.gated /\ host.path = "idle"
      /\ host.fifo = <<>> /\ ~InPhase /\ Waits /\ result = "running"
      /\ pc \in {"Await12", "Await13", "Await32", "Await33", "Await38"}
  BY <1>1, GoesOutFor DEF AwaitPcs
<1>3. /\ op.first \in Nat /\ (op.kind = "erase" => op.first + op.count - 1 \in Nat)
      /\ pc \in ErasePcs => op.kind = "erase"
  BY CallsTyped, Counts DEF DwInv, CallInv, CountInv
<1> DEFINE last == op.first + op.count - 1
<1>4. /\ pc = "Await12" => Awaited = Command("stop", 0) /\ Awaited.index = "stop"
      /\ pc = "Await13" => Awaited = Command("status", 0) /\ Awaited.index = "status"
      /\ pc = "Await32" => /\ Awaited = Command("eraseStart", op.first)
                           /\ Awaited.index = "eraseStart" /\ Awaited.block = op.first
      /\ pc = "Await33" => /\ Awaited = Command("eraseEnd", last)
                           /\ Awaited.index = "eraseEnd" /\ Awaited.block = last
      /\ pc = "Await38" => Awaited = Command("erase", 0) /\ Awaited.index = "erase"
  <2>1. /\ pc = "Await12" => Awaited = Command("stop", 0)
        /\ pc = "Await13" => Awaited = Command("status", 0)
        /\ pc = "Await32" => Awaited = Command("eraseStart", op.first)
        /\ pc = "Await33" => Awaited = Command("eraseEnd", last)
        /\ pc = "Await38" => Awaited = Command("erase", 0)
    BY <1>2 DEF Awaited
  <2>2. pc = "Await33" => last \in Nat
    BY <1>3 DEF ErasePcs
  <2>3. {"stop", "status", "eraseStart", "eraseEnd", "erase"} \subseteq PlainIndex
    BY DEF PlainIndex
  <2> HIDE DEF last
  <2>4. \A i \in PlainIndex, a \in Nat : Command(i, a).index = i /\ Command(i, a).block = a
    BY Commands DEF DwInv
  <2> QED
    BY <1>3, <2>1, <2>2, <2>3, <2>4
<1>5. Awaited.index \notin DataIndex
  BY <1>2, <1>4 DEF DataIndex
<1>6. /\ host'.path = "idle" /\ host'.fifo = <<>> /\ host'.queued = <<>> /\ ~host'.gated
      /\ ~host'.error => Legal(Awaited) /\ dev' = Obeyed(Awaited)
  BY <1>2, <1>5 DEF Gone, Sent, Now
<1>7. Calm'
  BY <1>6 DEF Calm, Waits
<1>8. QueueInv' /\ RestInv' /\ ReadInv' /\ WriteInv'
  BY <1>1, <1>2, <1>7, CalmSuffices DEF PhasePcs
<1>9. StopInv'
  <2>1. CASE pc = "Await12"
    <3>1. ~host'.error => dev' = Do(IF dev.state = "rcv" THEN "prg" ELSE "tran")
      BY <1>4, <1>6, <2>1 DEF Obeyed
    <3>2. ~host'.error => dev'.state \in {"tran", "prg"}
      BY <3>1, CallsTyped, Becomes DEF DwInv, CardStates
    <3> QED
      BY <1>1, <1>2, <1>7, <2>1, <3>2 DEF StopInv, Agreed, Calm
  <2>2. CASE pc # "Await12"
    BY <1>1, <1>2, <2>2, Elsewhere DEF StopPcs
  <2> QED
    BY <2>1, <2>2
<1>10. RangeInv'
  <2>1. CASE pc = "Await32"
    <3>1. ~host'.error => dev' = Named(<<>>, op.first)
      BY <1>4, <1>6, <2>1 DEF Obeyed
    <3>2. Named(<<>>, op.first).seq \in {<<>>, <<op.first>>}
      BY CallsTyped DEF Named, DwInv, CallsTypeOK, Device
    <3> QED
      BY <1>1, <2>1, <3>1, <3>2 DEF RangeInv
  <2>2. CASE pc = "Await33"
    <3>1. dev.seq \in {<<>>, <<op.first>>}
      BY <1>1, <1>2, <2>2 DEF Agreed, RangeInv
    <3>2. ~host'.error =>
             dev' = IF Len(dev.seq) = 1 THEN Named(dev.seq, last) ELSE Do("tran")
      BY <1>4, <1>6, <2>2 DEF Obeyed
    <3>3. Do("tran").seq = <<>>
      BY CallsTyped, Forgets DEF DwInv, CardStates
    <3>4. ASSUME Len(dev.seq) = 1
          PROVE  Named(dev.seq, last).seq \in {<<>>, <<op.first, last>>}
      <4>1. dev.seq = <<op.first>>
        BY <3>1, <3>4
      <4>2. Named(<<op.first>>, last).seq \in {<<>>, Append(<<op.first>>, last)}
        BY CallsTyped DEF Named, DwInv, CallsTypeOK, Device
      <4> QED
        BY <4>1, <4>2
    <3>5. ~host'.error => dev'.seq \in {<<>>, <<op.first, last>>}
      BY <3>2, <3>3, <3>4
    <3> HIDE DEF last
    <3>6. ~host'.error /\ Len(dev'.seq) = 2 => dev'.seq[1] = op.first /\ dev'.seq[2] = last
      BY <3>5
    <3> QED
      BY <1>1, <1>7, <2>2, <3>6 DEF RangeInv, Calm, last
  <2>3. CASE pc \in {"Await12", "Await13"}
    BY <1>1, <2>3, Elsewhere DEF RangePcs
  <2>4. CASE pc = "Await38"
    BY <1>1, <1>7, <2>4 DEF RangeInv, Calm
  <2> QED
    BY <1>2, <2>1, <2>2, <2>3, <2>4
<1>11. KeptInv'
  <2>1. CASE pc = "Await38"
    <3>1. op.kind \notin BlockKinds
      BY <1>3, <2>1 DEF ErasePcs, BlockKinds, ReadKinds, WriteKinds
    <3> QED
      BY <1>1, <1>2, <3>1 DEF KeptInv, Agreed
  <2>2. CASE pc # "Await38"
    <3>1. store' = store
      BY <1>2, <1>4, <2>2 DEF Gone, StoreAfter
    <3> QED
      BY <1>1, <1>2, <3>1, StillKept DEF Agreed
  <2> QED
    BY <2>1, <2>2
<1> QED
  BY <1>8, <1>9, <1>10, <1>11 DEF Agreed

\* Any command.
LEMMA GoesOutSteps == DwInv /\ StepInv /\ GoesOut => StepInv'
BY DataGoesOut, PlainGoesOut DEF StepInv

\* The card is no longer busy: a write path that waited for that ends.
LEMMA BusyEndsSteps == DwInv /\ StepInv /\ BusyEnds => StepInv'
<1> SUFFICES ASSUME DwInv, StepInv, BusyEnds, InStep' PROVE Agreed'
  BY DEF StepInv
<1>1. /\ Agreed /\ UNCHANGED <<pc, op, result, base, at, moved, inStep, setup, store>>
      /\ dev.state = "prg" /\ dev' = [dev EXCEPT !.state = "tran"]
      /\ host' = IF host.path = "write" /\ host.left = 0 THEN Ended ELSE host
  BY HardwareIn DEF BusyEnds
<1>2. dev'.state = "tran" /\ dev'.seq = dev.seq
  BY <1>1, CallsTyped DEF DwInv, CallsTypeOK, Device
<1>3. CASE host.path = "write" /\ host.left = 0
  <2>1. Now("idle", 0, host.fifo, host.dma, TRUE, host.error, host.queued, host.gated)
    BY <1>1, <1>3, Moving DEF DwInv
  <2>2. /\ Start' = Start /\ Count' = Count /\ (Writing' <=> Writing)
        /\ (InPhase' <=> InPhase)
    BY <1>1, <2>1 DEF Start, Count, Writing, Now, InPhase, Waits
  <2>3. CASE InPhase
    <3>1. result = "running" /\ Writing
      BY <1>1, <1>3, <2>3, Runs DEF InPhase, Agreed, ReadInv
    <3>2. QueueInv' /\ RestInv' /\ StopInv' /\ RangeInv' /\ KeptInv'
      BY <1>1, <2>1, <2>3, <3>1, PhaseKeeps, StillKept DEF Now, Agreed
    <3>3. /\ at = Written + Len(host.fifo) /\ at <= Count /\ Written <= Len(moved)
          /\ dev.state = IF Count > 1 THEN "rcv" ELSE "prg"
      BY <1>1, <1>3, <2>3, <3>1 DEF Agreed, WriteInv
    <3>4. /\ Count \in Nat /\ at \in Nat /\ Len(host.fifo) \in Nat
          /\ Len(host.fifo) = 0 => host.fifo = <<>>
      BY Numbers, HostFields DEF DwInv
    <3>5. Written = Count
      BY <1>3, <3>4 DEF Written
    <3>6. at = Count /\ host.fifo = <<>> /\ Count <= Len(moved) /\ ~(Count > 1)
      BY <1>1, <3>3, <3>4, <3>5
    <3>7. WriteInv'
      BY <1>1, <1>2, <2>1, <2>2, <3>6 DEF WriteInv, Now
    <3>8. ReadInv'
      BY <2>2, <3>1 DEF ReadInv
    <3> QED
      BY <3>2, <3>7, <3>8 DEF Agreed
  <2>4. CASE ~InPhase
    <3>1. pc \in {"PioIssue", "PioCommand"} /\ host.fifo = <<>> /\ pc # "PioCommand"
      BY <1>1, <1>3, <2>4 DEF Agreed, RestInv
    <3>2. result = "running"
      BY <3>1, Runs
    <3>3. RestInv' /\ QueueInv'
      BY <1>1, <2>1, <2>2, <2>4, <3>1
      DEF RestInv, QueueInv, Now, Agreed, Waits, AwaitPcs
    <3> QED
      BY <1>1, <2>2, <2>4, <3>1, <3>2, <3>3, StillKept, Elsewhere
      DEF Agreed, ReadInv, WriteInv, StopPcs, RangePcs
  <2> QED
    BY <2>3, <2>4
<1>4. CASE ~(host.path = "write" /\ host.left = 0)
  <2>1. host' = host
    BY <1>1, <1>4
  <2>2. /\ Start' = Start /\ Count' = Count /\ (Writing' <=> Writing)
        /\ (InPhase' <=> InPhase) /\ Awaited' = Awaited
    BY <1>1, <2>1
    DEF Start, Count, Writing, InPhase, Waits, Awaited, TransferCommand, Command, Selected,
        BlockAddrOf
  <2>3. QueueInv' /\ RestInv'
    BY <1>1, <1>2, <1>4, <2>1, <2>2, Numbers DEF Agreed, QueueInv, RestInv, Waits
  <2>4. ReadInv'
    <3>1. InPhase /\ ~Writing => host.path # "write" /\ host.error
      BY <1>1 DEF Agreed, ReadInv
    <3> QED
      BY <2>1, <2>2, <3>1 DEF ReadInv
  <2>5. WriteInv'
    <3>1. ASSUME InPhase, Writing
          PROVE  host.path # "read" /\ host.path # "write" /\ host.error
      <4>1. host.path = "write" => host.left > 0
        BY <1>4, Numbers
      <4> QED
        BY <1>1, <3>1, <4>1, Numbers DEF Agreed, WriteInv, Paths
    <3> QED
      BY <2>1, <2>2, <3>1 DEF WriteInv
  <2>6. StopInv'
    BY <1>1, <1>2, <2>1 DEF Agreed, StopInv, Waits
  <2>7. RangeInv'
    BY <1>1, <1>2, <2>1 DEF Agreed, RangeInv, Waits
  <2>8. KeptInv'
    BY <1>1 DEF Agreed, KeptInv, Writing
  <2> QED
    BY <2>3, <2>4, <2>5, <2>6, <2>7, <2>8 DEF Agreed
<1> QED
  BY <1>3, <1>4

\* A block nobody takes was not that of a data phase without an error.
LEMMA UnheardSteps == DwInv /\ StepInv /\ Unheard => StepInv'
<1> SUFFICES ASSUME DwInv, StepInv, Unheard, InStep' PROVE Agreed'
  BY DEF StepInv
<1>1. /\ Agreed /\ UNCHANGED <<pc, op, result, base, at, moved, inStep, setup, host, store>>
      /\ dev' = Do("tran") /\ host.path # "read"
      /\ dev.state = "status" \/ (dev.state = "data" /\ ~dev.multi)
  BY HardwareIn DEF Unheard
<1>2. dev'.state = "tran" /\ dev'.seq = <<>>
  BY <1>1, CallsTyped, Becomes, Forgets DEF DwInv, CardStates
<1>3. /\ Start' = Start /\ Count' = Count /\ (Writing' <=> Writing) /\ Written' = Written
      /\ (InPhase' <=> InPhase) /\ Awaited' = Awaited
  BY <1>1
  DEF Start, Count, Writing, Written, InPhase, Waits, Awaited, TransferCommand, Command,
      Selected, BlockAddrOf
<1>4. QueueInv'
  BY <1>1, <1>3 DEF Agreed, QueueInv, Waits
<1>5. RestInv'
  BY <1>1, <1>2, <1>3 DEF Agreed, RestInv
<1>6. ReadInv'
  <2>1. InPhase /\ ~Writing => host.path # "write" /\ host.error
    <3>1. ASSUME InPhase, ~Writing, ~host.error PROVE FALSE
      <4>1. host.path = "idle"
        BY <1>1, <3>1, Numbers DEF Agreed, ReadInv, Paths
      <4>2. /\ dev.state = IF Count > 1 THEN "data" ELSE "tran"
            /\ dev.state \in {"data", "status"} => (dev.multi <=> Count > 1)
        BY <1>1, <3>1, <4>1 DEF Agreed, ReadInv
      <4> QED
        BY <1>1, <4>2
    <3> QED
      BY <1>1, <3>1 DEF Agreed, ReadInv
  <2> QED
    BY <1>1, <1>3, <2>1 DEF ReadInv
<1>7. WriteInv'
  <2>1. ASSUME InPhase, Writing, host.path = "write"
        PROVE  /\ ~host.over
               /\ host.left <= Count /\ at = Written + Len(host.fifo) /\ at <= Count
               /\ \A i \in 1 .. Len(host.fifo) : host.fifo[i] = op.data[Written + i]
               /\ Written <= Len(moved)
               /\ host.left # 0
    BY <1>1, <2>1 DEF Agreed, WriteInv
  <2>2. InPhase /\ Writing /\ host.path = "idle" => host.error
    BY <1>1 DEF Agreed, WriteInv
  <2> QED
    BY <1>1, <1>2, <1>3, <2>1, <2>2 DEF WriteInv
<1>8. StopInv'
  BY <1>1, <1>2 DEF Agreed, StopInv, Waits
<1>9. RangeInv'
  <2>1. Len(dev'.seq) # 2
    BY <1>2
  <2> QED
    BY <1>2, <2>1 DEF RangeInv
<1>10. KeptInv'
  BY <1>1 DEF Agreed, KeptInv, Writing
<1> QED
  BY <1>4, <1>5, <1>6, <1>7, <1>8, <1>9, <1>10 DEF Agreed

-----------------------------------------------------------------------------
(* The invariant.                                                          *)

\* Before the first call nothing is under way, and nobody is in step.
LEMMA Initially == Init => DwInv /\ StepInv
<1> SUFFICES ASSUME Init PROVE DwInv /\ StepInv
  OBVIOUS
<1>1. /\ pc = "Idle" /\ result = "none" /\ base = 0 /\ at = 0 /\ moved = <<>> /\ calls = 0
      /\ inStep = FALSE /\ op = [kind |-> "init", first |-> 0, count |-> 0, data |-> <<>>]
      /\ setup \in [highCapacity : HighCapacity, dma : DmaInstalled]
      /\ dev = [state |-> "tran", block |-> 0, multi |-> FALSE, seq |-> <<>>]
      /\ store \in Contents /\ host = Quiet
  BY DEF Init, CallsInit
<1>2. /\ op \in Operation /\ op.kind = "init" /\ op.count = 0 /\ Len(moved) = 0
      /\ moved \in Seq(Data \cup {"switched"}) /\ dev \in Device
  BY <1>1 DEF Operation, Kinds, Device, CardStates
<1>3. setup \in [highCapacity : BOOLEAN, dma : BOOLEAN] /\ store \in [Blocks -> Data]
  BY <1>1, SetupAssumption, ContentsAssumption
<1>4. HostTyped /\ ~host.dma
  BY <1>1, FifoAssumption DEF Quiet, HostTyped, Host
<1>5. TypeOK
  <2>1. inStep \in BOOLEAN /\ result \in {"none", "running", "ok", "err"} /\ pc \in PcSet
    BY <1>1 DEF PcSet
  <2>2. base \in Nat /\ at \in Nat /\ calls \in Nat /\ Len(moved) <= op.count
    BY <1>1, <1>2
  <2> QED
    BY <1>2, <1>3, <1>4, <2>1, <2>2 DEF TypeOK, CallsTypeOK, HostTyped
<1>6. CallInv /\ CountInv
  BY <1>1, <1>2, <1>4
  DEF CallInv, CountInv, TransferPcs, DmaPcs, PioPcs, ErasePcs, WriteKinds
<1> QED
  BY <1>1, <1>5, <1>6 DEF DwInv, StepInv, InStep

\* What the driver does keeps it.
LEMMA DriverPreserves == DwInv /\ StepInv /\ DriverStep => DwInv' /\ StepInv'
<1> SUFFICES ASSUME DwInv, StepInv, DriverStep PROVE DwInv' /\ StepInv'
  OBVIOUS
<1>1. DwInv'
  BY AttemptTyped, DmaArmTyped, DmaTyped, PioTyped, PioReadTyped, PlainTyped DEF DriverStep
<1>2. StepInv'
  <2>1. CASE Attempt \/ DmaArm \/ DmaIssue \/ DmaCommand \/ PioIssue \/ PioCommand
    BY <2>1, AttemptSteps, DmaArmSteps, DmaIssueSteps, DmaCommandSteps, PioIssueSteps,
       PioCommandSteps
  <2>2. CASE DmaWait \/ PioRead \/ PioWrite \/ PlainStep
    BY <2>2, DmaWaitSteps, PioReadSteps, PioWriteSteps, PlainSteps DEF StepInv
  <2> QED
    BY <2>1, <2>2 DEF DriverStep
<1> QED
  BY <1>1, <1>2

\* So does what the callers do.
LEMMA UserPreserves == DwInv /\ StepInv /\ User => DwInv' /\ StepInv'
<1> SUFFICES ASSUME DwInv, StepInv, User PROVE DwInv' /\ StepInv'
  OBVIOUS
<1>1. CASE /\ CallRead \/ CallWrite \/ CallDma \/ CallErase \/ CallOther
           /\ inStep' = Ready
  <2>1. CallBegins /\ inStep' = Ready
    BY <1>1, CallsBegin
  <2>2. Ready \in BOOLEAN
    BY DEF Ready
  <2> QED
    BY <2>1, <2>2, BeginsTyped, CallSteps
<1>2. CASE \E reset \in BOOLEAN : BringUp(reset)
  BY <1>2, BringUpTyped, BringUpSteps
<1>3. CASE HandleIrq
  BY <1>3, HandleIrqTyped, HandleIrqSteps
<1> QED
  BY <1>1, <1>2, <1>3 DEF User

\* And what the hardware does.
LEMMA HardwarePreserves == DwInv /\ StepInv /\ Hardware => DwInv' /\ StepInv'
<1> SUFFICES ASSUME DwInv, StepInv, Hardware PROVE DwInv' /\ StepInv'
  OBVIOUS
<1>1. DwInv'
  BY ReceiveTyped, TransmitTyped, PathEndsTyped, PathFailsTyped, EngineMovesTyped,
     GoesOutTyped, CardMovesTyped DEF Hardware
<1>2. StepInv'
  BY ReceiveSteps, TransmitSteps, PathEndsSteps, PathFailsSteps, EngineMovesSteps,
     GoesOutSteps, BusyEndsSteps, UnheardSteps DEF Hardware
<1> QED
  BY <1>1, <1>2

\* A step in which nothing happens.
LEMMA StutterPreserves == DwInv /\ StepInv /\ UNCHANGED vars => DwInv' /\ StepInv'
<1> SUFFICES ASSUME DwInv, StepInv, UNCHANGED vars PROVE DwInv' /\ StepInv'
  OBVIOUS
<1>0. UNCHANGED <<pc, op, result, base, at, moved, calls, inStep, setup, host, dev, store>>
  BY DEF vars
<1>1. DwInv'
  <2>1. TypeOK'
    BY <1>0, Parts, Kept, TypeFromParts DEF DwInv
  <2> QED
    BY <1>0, <2>1 DEF DwInv, CallInv, CountInv
<1>2. StepInv'
  <2>1. /\ Start' = Start /\ Count' = Count /\ (Writing' <=> Writing) /\ Written' = Written
        /\ (InPhase' <=> InPhase) /\ Awaited' = Awaited /\ (InStep' <=> InStep)
    BY <1>0
    DEF Start, Count, Writing, Written, InPhase, Waits, Awaited, TransferCommand, Command,
        Selected, BlockAddrOf, InStep
  <2>2. QueueInv => QueueInv'
    BY <1>0, <2>1 DEF QueueInv, Waits
  <2>3. RestInv => RestInv'
    BY <1>0, <2>1 DEF RestInv
  <2>4. ReadInv => ReadInv'
    BY <1>0, <2>1 DEF ReadInv
  <2>5. WriteInv => WriteInv'
    BY <1>0, <2>1 DEF WriteInv
  <2>6. /\ StopInv => StopInv'
        /\ KeptInv => KeptInv'
        /\ RangeInv => RangeInv'
    BY <1>0 DEF StopInv, KeptInv, RangeInv, Waits, Writing
  <2> QED
    BY <2>1, <2>2, <2>3, <2>4, <2>5, <2>6 DEF StepInv, Agreed
<1> QED
  BY <1>1, <1>2

\* The inductive invariant: what holds at every step, and while a call is in step.
THEOREM Inductive == Spec => [](DwInv /\ StepInv)
<1>1. DwInv /\ StepInv /\ [Next]_vars => DwInv' /\ StepInv'
  BY DriverPreserves, UserPreserves, HardwarePreserves, StutterPreserves DEF Next
<1> QED
  BY <1>1, Initially, PTL DEF Spec

\* Every variable keeps its type; the FIFO never holds more than its depth, and no
\* more than one command waits in the controller.
THEOREM TypeCorrect == Spec => []TypeOK
<1>1. DwInv => TypeOK
  BY DEF DwInv
<1> QED
  BY <1>1, Inductive, PTL

\* After a block call of SdioSdmmc that began on a ready controller and succeeded,
\* whichever attempts failed before, the next one can begin at once.
THEOREM CardReady == Spec => []LeavesCardReady
<1>1. DwInv /\ StepInv => LeavesCardReady
  <2> SUFFICES ASSUME DwInv, StepInv, result = "ok", inStep, op.count > 0,
                      op.kind \in (ReadKinds \cup WriteKinds) \ DmaKinds
               PROVE  Ready /\ ~host.dma
    BY DEF LeavesCardReady
  <2>1. Agreed
    BY DEF StepInv, InStep
  <2>2. pc = "Idle" /\ ~host.dma
    BY DEF DwInv, CallInv, DmaPcs
  <2>3. Calm
    BY <2>1, <2>2, CalmOutside DEF PhasePcs, AwaitPcs
  <2>4. dev.state \in {"tran", "prg"}
    BY <2>1 DEF Agreed, StopInv, BlockKinds
  <2> QED
    BY <2>2, <2>3, <2>4 DEF Ready, Calm, Waits
<1> QED
  BY <1>1, Inductive, PTL

-----------------------------------------------------------------------------
(* The block calls implement BlockDevice.                                  *)

\* A call that is not in step promises nothing.
LEMMA AsideStep ==
    ASSUME op' = op, inStep' => inStep, result = "running", ~InStep,
           op.kind = "switch" \/ moved' = moved \/ IsBlockCall,
           store' \in [Blocks -> Data]
    PROVE  Abstract!Next
<1>1. ~InStep'
  BY DEF InStep
<1> QED
  BY <1>1, SilentStep, UnpromisedStep

\* A block that a read takes from the FIFO is the next of the call's, or one that has
\* been moved before and is moved again as it is.
LEMMA TakeStep ==
    ASSUME DwInv, Agreed, InPhase, ~host.error, Filled, result = "running",
           op.kind \in ReadKinds, at < Count, op.count > 0,
           Moved(at + 1, Head(host.fifo)),
           op' = op, result' = result, inStep' = inStep, store' = store
    PROVE  Abstract!Next \/ UNCHANGED Abstract!vars
<1> DEFINE place == base + (at + 1)
           v == Head(host.fifo)
<1>0. ~Writing /\ IsBlockCall /\ op.kind \in BlockKinds
  BY DEF Writing, IsBlockCall, BlockKinds, ReadKinds, WriteKinds
<1>1. /\ base + at <= Len(moved)
      /\ \A i \in 1 .. Len(host.fifo) :
            /\ Start + at + i - 1 \in Blocks
            /\ host.fifo[i] = store[Start + at + i - 1]
  BY <1>0 DEF Agreed, ReadInv
<1>2. /\ Count \in Nat /\ at \in Nat /\ base \in Nat /\ Len(moved) \in Nat
      /\ Start = op.first + base /\ op.first \in Nat /\ Len(host.fifo) \in Nat
  BY Numbers
<1>3. Len(host.fifo) > 0 /\ v = host.fifo[1]
  BY Shorter DEF DwInv
<1>4. 1 \in 1 .. Len(host.fifo) /\ place \in Nat /\ place > 0 /\ place <= Len(moved) + 1
  BY <1>1, <1>2, <1>3
<1>5. op.first + place - 1 \in Blocks /\ v = store[op.first + place - 1]
  <2>1. Start + at + 1 - 1 \in Blocks /\ v = store[Start + at + 1 - 1]
    BY <1>1, <1>3, <1>4
  <2>2. Start + at + 1 - 1 = op.first + place - 1
    BY <1>2
  <2> QED
    BY <2>1, <2>2
<1>6. moved' = IF place <= Len(moved) THEN [moved EXCEPT ![place] = v] ELSE Append(moved, v)
  BY DEF Moved
<1>7. place <= op.count
  BY Within
<1> HIDE DEF place, v
<1>8. CASE place <= Len(moved)
  <2>1. place \in 1 .. Len(moved)
    BY <1>2, <1>4, <1>8
  <2>2. moved[place] = store[op.first + place - 1]
    BY <1>0, <2>1 DEF Agreed, KeptInv
  <2>3. moved' = [moved EXCEPT ![place] = moved[place]]
    BY <1>5, <1>6, <1>8, <2>2
  <2>4. moved' = moved
    BY <2>3 DEF DwInv, TypeOK, CallsTypeOK
  <2> QED
    BY <2>4, UnseenStep
<1>9. CASE ~(place <= Len(moved))
  <2>1. place = Len(moved) + 1 /\ op.first + place - 1 = op.first + Len(moved)
    BY <1>2, <1>4, <1>9
  <2>2. Len(moved) # op.count
    BY <1>2, <1>7, <2>1
  <2>3. moved' = Append(moved, store[op.first + Len(moved)])
    BY <1>5, <1>6, <1>9, <2>1
  <2>4. op.first + Len(moved) \in Blocks
    BY <1>5, <2>1
  <2> QED
    BY <1>0, <2>2, <2>3, <2>4, DeliverStep
<1> QED
  BY <1>8, <1>9

\* A block sent to the card likewise.
LEMMA TransmitStep ==
    ASSUME DwInv, StepInv, Transmit, InStep
    PROVE  Abstract!Next \/ UNCHANGED Abstract!vars
<1> DEFINE n == Written
           v == op.data[n + 1]
<1>1. /\ Writing /\ result = "running" /\ base = 0 /\ n \in Nat /\ n <= Len(moved)
      /\ n < op.count /\ dev.block = op.first + n /\ dev.block \in Blocks
      /\ Moved(n + 1, v) /\ store' = [store EXCEPT ![op.first + n] = v]
  BY Transmitted DEF StepInv
<1>2. Agreed /\ op' = op /\ result' = result /\ inStep' = inStep
  BY DEF StepInv, Transmit, HardwareOnly
<1>3. /\ Len(moved) \in Nat /\ op.first \in Nat /\ op.count \in Nat
      /\ store \in [Blocks -> Data] /\ moved \in Seq(Data \cup {"switched"})
  BY Numbers DEF DwInv, TypeOK, CallsTypeOK
<1>4. op.kind \in BlockKinds /\ IsBlockCall /\ op.kind \in WriteKinds
  BY <1>1 DEF Writing, BlockKinds, IsBlockCall, WriteKinds
<1>5. moved' = IF n + 1 <= Len(moved) THEN [moved EXCEPT ![n + 1] = v] ELSE Append(moved, v)
  <2>1. base + (n + 1) = n + 1
    BY <1>1
  <2> QED
    BY <1>1, <2>1 DEF Moved
<1> HIDE DEF n
<1>6. CASE n + 1 <= Len(moved)
  <2>1. n + 1 \in 1 .. Len(moved) /\ op.first + (n + 1) - 1 = op.first + n
    BY <1>1, <1>3, <1>6
  <2>2. moved[n + 1] = store[op.first + n] /\ moved[n + 1] = v
    BY <1>1, <1>2, <1>4, <2>1 DEF Agreed, KeptInv
  <2>3. moved' = moved
    BY <1>3, <1>5, <1>6, <2>1, <2>2
  <2>4. store' = store
    BY <1>1, <1>3, <2>2
  <2> QED
    BY <1>2, <2>3, <2>4, UnseenStep
<1>7. CASE ~(n + 1 <= Len(moved))
  <2>1. n = Len(moved)
    BY <1>1, <1>3, <1>7
  <2>2. Len(moved) # op.count /\ op.first + Len(moved) \in Blocks
    BY <1>1, <1>3, <2>1
  <2>3. /\ moved' = Append(moved, op.data[Len(moved) + 1])
        /\ store' = [store EXCEPT ![op.first + Len(moved)] = op.data[Len(moved) + 1]]
    BY <1>1, <1>5, <1>7, <2>1
  <2> QED
    BY <1>1, <1>2, <1>4, <2>2, <2>3, StoreStep
<1> QED
  BY <1>6, <1>7

\* What a command changes on the card is the range of the erase.
LEMMA GoesOutStep ==
    ASSUME DwInv, StepInv, GoesOut, InStep
    PROVE  Abstract!Next \/ UNCHANGED Abstract!vars
<1>1. /\ Agreed /\ UNCHANGED <<pc, op, result, moved, inStep>>
  BY DEF StepInv, GoesOut, HardwareOnly
<1>2. CASE store' = store
  BY <1>1, <1>2, UnseenStep
<1>3. CASE store' # store
  <2>1. host.queued = <<host.queued[1]>> /\ Gone(host.queued[1])
    BY GoneOut DEF DwInv
  <2>2. Waits /\ pc \in AwaitPcs /\ host.queued = <<Awaited>>
    BY <1>1, <2>1 DEF Agreed, QueueInv, Waits, GoesOut, CanGoOut
  <2>3. host.queued[1] = Awaited
    BY <2>2
  <2>4. store' = StoreAfter(Awaited)
    BY <1>3, <2>1, <2>3 DEF Gone
  <2>5. Awaited.index = "erase" /\ Len(dev.seq) = 2
    BY <1>3, <2>4 DEF StoreAfter
  <2>6. pc = "Await38"
    <3>1. TransferCommand.index # "erase"
      BY Commands DEF DwInv
    <3> QED
      BY <2>2, <2>5, <3>1 DEF Awaited, AwaitPcs, Command
  <2>7. op.kind = "erase" /\ IsBlockCall /\ result = "running"
    BY <2>6, Runs DEF DwInv, CallInv, ErasePcs, IsBlockCall
  <2>8. dev.seq[1] = op.first /\ dev.seq[2] = op.first + op.count - 1
    BY <1>1, <2>2, <2>5, <2>6 DEF Agreed, RangeInv
  <2>9. store' = [b \in Blocks |-> IF b \in dev.seq[1] .. dev.seq[2]
                                   THEN Erased ELSE store[b]]
    BY <2>4, <2>5 DEF StoreAfter
  <2> QED
    BY <1>1, <2>7, <2>8, <2>9, EraseStep
<1> QED
  BY <1>2, <1>3

\* The engine.
LEMMA EngineMovesStep ==
    ASSUME DwInv, StepInv, EngineMoves, InStep
    PROVE  Abstract!Next \/ UNCHANGED Abstract!vars
<1>1. Agreed /\ UNCHANGED <<pc, op, result, inStep, store>> /\ at < Count
  BY DEF StepInv, EngineMoves, HardwareOnly, CanFetch, CanStore
<1>2. CASE moved' = moved
  BY <1>1, <1>2, UnseenStep
<1>3. CASE moved' # moved
  <2>1. /\ CanStore /\ op.kind \in ReadKinds /\ ~host.error
        /\ Moved(at + 1, Head(host.fifo))
    BY <1>3 DEF EngineMoves
  <2>2. InPhase /\ result = "running" /\ Filled /\ op.count > 0
    BY <1>1, <2>1, PathInPhase
    DEF CanStore, DwInv, CallInv, InPhase, TransferPcs, DmaPcs, PioPcs
  <2> QED
    BY <1>1, <2>1, <2>2, TakeStep
<1> QED
  BY <1>2, <1>3

\* The hardware.
LEMMA HardwareImplements ==
    ASSUME DwInv, DwInv', StepInv, Hardware
    PROVE  Abstract!Next \/ UNCHANGED Abstract!vars
<1>1. HardwareOnly /\ store' \in [Blocks -> Data]
  BY DEF Hardware, Receive, Transmit, PathEnds, PathFails, EngineMoves, GoesOut, BusyEnds,
         Unheard, DwInv, TypeOK, CallsTypeOK
<1>2. op' = op /\ result' = result /\ inStep' = inStep
  BY <1>1 DEF HardwareOnly
<1>3. CASE InStep
  <2>1. CASE Receive \/ PathEnds \/ PathFails \/ BusyEnds \/ Unheard
    BY <1>2, <2>1, UnseenStep DEF Receive, PathEnds, PathFails, BusyEnds, Unheard
  <2> QED
    BY <1>3, <2>1, TransmitStep, GoesOutStep, EngineMovesStep DEF Hardware
<1>4. CASE ~InStep
  <2>1. moved' = moved \/ (result = "running" /\ op.kind \in BlockKinds)
    <3>1. CASE Transmit
      BY <3>1 DEF Transmit, BlockKinds
    <3>2. CASE EngineMoves
      BY <3>2, Runs
      DEF EngineMoves, CanStore, CanFetch, DwInv, CallInv, DmaPcs, BlockKinds
    <3>3. CASE ~Transmit /\ ~EngineMoves
      BY <3>3 DEF Hardware, Receive, PathEnds, PathFails, GoesOut, BusyEnds, Unheard
    <3> QED
      BY <3>1, <3>2, <3>3
  <2>2. op.kind \in BlockKinds => IsBlockCall
    BY DEF BlockKinds, IsBlockCall, ReadKinds, WriteKinds
  <2>3. CASE result = "running"
    BY <1>1, <1>2, <1>4, <2>1, <2>2, <2>3, AsideStep
  <2>4. CASE result # "running"
    <3>1. SeenReply # "running" /\ SeenReply' = SeenReply /\ SeenMoved' = SeenMoved /\ ~InStep'
      BY <1>2, <1>4, <2>1, <2>4 DEF SeenReply, SeenMoved, IsBlockCall, InStep
    <3> QED
      BY <3>1, OtherStep
  <2> QED
    BY <2>3, <2>4
<1> QED
  BY <1>3, <1>4

\* A step of the driver in step, besides taking a block from the FIFO: it moves
\* nothing, and does not report success before everything has been moved.
LEMMA ControlStep ==
    ASSUME DwInv, StepInv, DriverStep, InStep, moved' = moved
    PROVE  Abstract!Next
<1>1. op' = op /\ inStep' = inStep /\ store' = store /\ result = "running"
  <2>1. op' = op /\ inStep' = inStep /\ store' = store
    BY DEF DriverStep, Attempt, DmaArm, DmaIssue, DmaCommand, DmaWait, PioIssue,
           PioCommand, PioRead, PioWrite, PlainStep, Local, CardAlone
  <2>2. pc # "Idle"
    BY DEF DriverStep, Attempt, DmaArm, DmaIssue, DmaCommand, DmaWait, PioIssue,
           PioCommand, PioRead, PioWrite, PlainStep, PlainCommand, PlainAnswer
  <2> QED
    BY <2>1, <2>2, Runs
<1>2. CASE ~IsBlockCall
  BY <1>1, <1>2, SilentStep
<1>3. CASE IsBlockCall
  <2>1. result' \in {"running", "ok", "err"}
    <3>1. CASE Attempt \/ DmaArm \/ DmaIssue \/ DmaCommand \/ DmaWait
      BY <1>1, <3>1
      DEF Attempt, DmaArm, DmaIssue, DmaCommand, DmaWait, DmaDone, Await, GiveUp, Retry,
          Goto, Finish, Fail, Transferred
    <3>2. CASE PioIssue \/ PioCommand \/ PioRead \/ PioWrite
      BY <1>1, <3>2
      DEF PioIssue, PioCommand, PioRead, PioWrite, Issue, Await, Goto, Finish, Fail,
          Transferred
    <3>3. CASE PlainStep
      BY <1>1, <3>3 DEF PlainStep, PlainCommand, PlainAnswer, Issue, Await, Goto, Finish, Fail
    <3> QED
      BY <3>1, <3>2, <3>3 DEF DriverStep
  <2>2. ASSUME result' = "ok" PROVE Len(moved) = op.count \/ op.kind = "erase"
    <3>1. InStep'
      BY <1>1, <2>2 DEF InStep
    <3>2. op.kind \in BlockKinds \/ op.kind = "erase"
      BY <1>3 DEF IsBlockCall, BlockKinds, ReadKinds, WriteKinds, DwInv, TypeOK, CallsTypeOK,
                  Operation, Kinds
    <3>3. CASE Attempt
      <4>1. op.count = 0
        BY <1>1, <2>2, <3>3 DEF Attempt, Goto, Retry, Fail
      <4> QED
        BY <4>1, Numbers
    <3>4. CASE DmaWait \/ PioRead \/ PioWrite
      BY <2>2, <3>1, <3>4, DmaWaitSteps, PioReadSteps, PioWriteSteps
    <3>5. CASE PlainStep
      BY <2>2, <3>1, <3>2, <3>5, PlainSteps
    <3>6. CASE DmaArm \/ DmaIssue \/ DmaCommand \/ PioIssue \/ PioCommand
      BY <1>1, <2>2, <3>6
      DEF DmaArm, DmaIssue, DmaCommand, PioIssue, PioCommand, Issue, Await, GiveUp, Retry,
          Goto, Fail
    <3> QED
      BY <3>3, <3>4, <3>5, <3>6 DEF DriverStep
  <2> QED
    BY <1>1, <1>3, <2>1, <2>2, ReturnStep
<1> QED
  BY <1>2, <1>3

\* The driver.
LEMMA DriverImplements ==
    ASSUME DwInv, DwInv', StepInv, DriverStep
    PROVE  Abstract!Next \/ UNCHANGED Abstract!vars
<1>1. /\ op' = op /\ inStep' = inStep /\ store' = store /\ result = "running"
      /\ store' \in [Blocks -> Data]
  <2>1. op' = op /\ inStep' = inStep /\ store' = store
    BY DEF DriverStep, Attempt, DmaArm, DmaIssue, DmaCommand, DmaWait, PioIssue,
           PioCommand, PioRead, PioWrite, PlainStep, Local, CardAlone
  <2>2. pc # "Idle"
    BY DEF DriverStep, Attempt, DmaArm, DmaIssue, DmaCommand, DmaWait, PioIssue,
           PioCommand, PioRead, PioWrite, PlainStep, PlainCommand, PlainAnswer
  <2> QED
    BY <2>1, <2>2, Runs DEF DwInv, TypeOK, CallsTypeOK
<1>2. CASE moved' = moved
  BY <1>1, <1>2, ControlStep, AsideStep
<1>3. CASE moved' # moved
  <2>1. PioRead
    BY <1>3 DEF DriverStep, Attempt, DmaArm, DmaIssue, DmaCommand, DmaWait, PioIssue,
                PioCommand, PioWrite, PlainStep
  <2>2. /\ ~host.error /\ Filled /\ at < Count /\ Moved(at + 1, Head(host.fifo))
        /\ pc = "PioRead" /\ result' = result
    BY <1>3, <2>1 DEF PioRead, Goto
  <2>3. op.count > 0 /\ op.kind \in ReadKinds \cup {"switch"}
    BY <2>2 DEF DwInv, CallInv, TransferPcs, PioPcs, BlockKinds
  <2>4. CASE op.kind = "switch"
    BY <1>1, <2>4, SilentStep DEF IsBlockCall
  <2>5. CASE op.kind \in ReadKinds
    <3>1. IsBlockCall
      BY <2>5 DEF IsBlockCall, ReadKinds
    <3>2. CASE InStep
      <4>1. Agreed
        BY <3>2 DEF StepInv
      <4>2. InPhase
        BY <2>2, <4>1 DEF Agreed, RestInv, Filled
      <4> QED
        BY <1>1, <2>2, <2>3, <2>5, <4>1, <4>2, TakeStep
    <3>3. CASE ~InStep
      BY <1>1, <3>1, <3>3, UnpromisedStep
    <3> QED
      BY <3>2, <3>3
  <2> QED
    BY <2>3, <2>4, <2>5
<1> QED
  BY <1>2, <1>3

\* A call that begins, or a bring-up.
LEMMA UserImplements == ASSUME DwInv, User PROVE Abstract!Next \/ UNCHANGED Abstract!vars
<1>1. CASE HandleIrq
  BY <1>1, UnseenStep DEF HandleIrq, Local, CardAlone
<1>2. CASE \/ CallRead \/ CallWrite \/ CallDma \/ CallErase \/ CallOther
           \/ \E reset \in BOOLEAN : BringUp(reset)
  <2>1. /\ pc = "Idle" /\ moved' = <<>> /\ store' = store
        /\ result' = "running" \/ op'.kind \in {"init", "reset"}
    <3>1. CASE CallRead \/ CallWrite \/ CallDma \/ CallErase \/ CallOther
      BY <3>1, CallsBegin DEF CallBegins
    <3>2. CASE \E reset \in BOOLEAN : BringUp(reset)
      BY <3>2 DEF BringUp, BringUpCall
    <3> QED
      BY <1>2, <3>1, <3>2
  <2>2. SeenReply # "running" /\ SeenMoved' = <<>>
    BY <2>1, Runs DEF SeenReply, SeenMoved
  <2>3. CASE IsBlockCall'
    <3>1. SeenReply' = "running"
      BY <2>1, <2>3 DEF SeenReply, IsBlockCall
    <3> QED
      BY <2>1, <2>2, <3>1
      DEF Abstract!Next, Abstract!Begin, SeenReply, SeenMoved, IsBlockCall
  <2>4. CASE ~IsBlockCall'
    <3>1. SeenReply' = "none"
      BY <2>4 DEF SeenReply
    <3> QED
      BY <2>1, <2>2, <3>1, OtherStep
  <2> QED
    BY <2>3, <2>4
<1> QED
  BY <1>1, <1>2 DEF User

\* Every step is one of BlockDevice, or does not change what it sees.
LEMMA StepImplements ==
    /\ DwInv /\ StepInv
    /\ (DwInv /\ StepInv)'
    /\ [Next]_vars
    => [Abstract!Next]_(Abstract!vars)
<1> SUFFICES ASSUME DwInv, DwInv', StepInv, [Next]_vars
             PROVE  Abstract!Next \/ UNCHANGED Abstract!vars
  BY Zenon
<1>1. CASE UNCHANGED vars
  BY <1>1, UnseenStep DEF vars
<1> QED
  BY <1>1, DriverImplements, UserImplements, HardwareImplements DEF Next

\* While controller and card are in step a block call moves the blocks of its range
\* in order, by the engine, by the CPU or first by one and then by the other; an
\* erase erases its range or nothing; a call that fails has moved a prefix: for
\* every card, call, depth of the FIFO and fault.
THEOREM BlocksImplemented == Spec => ImplementsBlockDevice
<1>1. Init => Abstract!Init
  BY InitialStep DEF Init
<1> QED
  BY <1>1, StepImplements, Inductive, PTL
  DEF Spec, ImplementsBlockDevice, Abstract!Spec
=============================================================================
