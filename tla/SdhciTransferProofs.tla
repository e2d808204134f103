------------------------ MODULE SdhciTransferProofs ------------------------
(***************************************************************************)
(* Proofs about SdhciTransfer, for every set of cards, of addresses and of *)
(* faults, every size of card, block, register and descriptor table.       *)
(***************************************************************************)
EXTENDS SdhciTransfer, BlockCallsProofs, TLAPS

-----------------------------------------------------------------------------
(* What holds at every step.                                               *)

\* The steps before a data command and those of its data phase.
IssuePcs == {"Attempt", "DmaIssue", "PioIssue"}
PhasePcs == {"DmaWait", "PioBlock", "PioWait"}

\* A step belongs to the call it is a step of.
CallInv ==
    /\ pc = "Idle" <=> result # "running"
    /\ pc \in IssuePcs \cup PhasePcs => op.kind \in BlockKinds \cup {"switch"}
    /\ pc \in {"DmaIssue", "DmaWait"} => op.kind \in BlockKinds /\ Count <= DescLimit
    /\ pc \in {"PioIssue", "PioBlock", "PioWait"} => op.kind \notin DmaKinds
    /\ pc \in {"DmaIssue", "PioIssue"} \cup PhasePcs => op.count > 0
    /\ pc = "Cmd12" => op.kind \in {"readBlocksInto", "writeBlocks"}
    /\ pc = "Cmd13" => op.kind = "status"
    /\ pc \in {"Cmd32", "Cmd33", "Cmd38"} => op.kind = "erase"

\* How many blocks a call has, and has moved.
MovedInv ==
    /\ op.kind \in {"readBlock", "writeBlock", "switch"} => op.count = 1
    /\ op.kind = "erase" => op.count > 0
    /\ op.kind \in WriteKinds => op.count = Len(op.data) /\ op.count > 0
    /\ base > 0 => op.kind = "readBlocks" /\ base < op.count
    /\ base <= Len(moved)
    /\ pc \in PhasePcs => base + at <= Len(moved) /\ at <= Count

\* What BLOCK_COUNT is told.
Asked == Count % CountLimit

Direction == IF op.kind \in WriteKinds THEN "write" ELSE "read"

\* In a data phase controller and card carry out the command that was issued, the
\* card is at the block that is moved next, and the engine stops only at the end.
PhaseInv ==
    pc \in PhasePcs =>
        /\ pc = "PioBlock" => at < Count
        /\ pc = "PioWait" => at = Count
        /\ host.dat \in {Direction, "idle"}
        /\ host.dat = "idle" =>
              host.complete /\ dev.state = "tran" /\ at = Asked
        /\ host.dat # "idle" =>
              /\ ~host.complete /\ (host.dma <=> pc = "DmaWait")
              /\ at + host.left = Asked
              /\ dev.state \in IF op.kind \in WriteKinds THEN {"rcv", "prg", "tran"}
                              ELSE IF op.kind = "switch" THEN {"status"} ELSE {"data", "tran"}
              /\ dev.state = "prg" => host.left = 0
              /\ dev.state \in {"data", "rcv"} => dev.block = Start + at

\* Between the turns of read_blocks nothing writes to the card.
TurnInv == base > 0 /\ pc \in IssuePcs => host.dat \in {"idle", "read"}

\* What a call has moved so far is what the card stores.
Progress == base + (IF pc \in PhasePcs THEN at ELSE 0)
ContentInv ==
    /\ result = "running" /\ op.kind \in BlockKinds =>
          \A i \in 1 .. Progress : moved[i] = store[op.first + i - 1]
    /\ pc \in PhasePcs /\ op.kind \in WriteKinds =>
          \A i \in 1 .. at : moved[i] = op.data[i]

\* A call that has transferred everything leaves the lines free and the card
\* waiting.
DoneInv ==
    pc = "Cmd12" \/ (result = "ok" /\ op.kind \in BlockKinds /\ op.count > 0) =>
        dev.state = "tran" /\ host.dat = "idle"

SdhciInv ==
    /\ TypeOK /\ CallInv /\ MovedInv /\ PhaseInv /\ TurnInv /\ ContentInv /\ DoneInv
-----------------------------------------------------------------------------
(* What the types say.                                                     *)

\* The calls and the card are well-formed, whichever the controller.
LEMMA CallsTyped == TypeOK => CallsTypeOK
BY DEF TypeOK

\* BLOCK_COUNT takes every count that it has room for.
LEMMA Asking ==
    ASSUME TypeOK
    PROVE  /\ Asked \in Nat /\ Asked \in 0 .. CountLimit - 1 /\ Asked <= Count
           /\ Count < CountLimit => Asked = Count
<1>1. CountLimit \in Nat \ {0} /\ Count \in Nat
  BY LimitsAssumption, CallsTyped, Counts
<1> QED
  BY <1>1 DEF Asked

-----------------------------------------------------------------------------
(* How a call goes on.                                                     *)

(* The three parts of TypeOK.                                              *)
ControlTyped ==
    pc \in PcSet /\ result \in {"none", "running", "ok", "err"} /\ base \in Nat
CallTyped ==
    /\ op \in Operation /\ at \in Nat /\ calls \in Nat /\ inStep \in BOOLEAN
    /\ moved \in Seq(Data \cup {"switched"}) /\ Len(moved) <= op.count
    /\ setup \in [highCapacity : BOOLEAN, dma : BOOLEAN]
WireTyped == host \in Host /\ dev \in Device /\ store \in [Blocks -> Data]

\* The parts make the whole.
LEMMA TypeFromParts == ControlTyped' /\ CallTyped' /\ WireTyped' => TypeOK'
BY DEF TypeOK, CallsTypeOK, ControlTyped, CallTyped, WireTyped

\* However a call goes on, control keeps its type.
LEMMA Controls ==
    ASSUME TypeOK
    PROVE  /\ \A p \in PcSet : Goto(p) => ControlTyped'
           /\ Fail => ControlTyped'
           /\ Finish => ControlTyped'
           /\ Retry => ControlTyped'
           /\ Transferred => ControlTyped'
<1>1. \A p \in PcSet : Goto(p) => ControlTyped'
  BY DEF TypeOK, CallsTypeOK, ControlTyped, Goto
<1>2. (Fail => ControlTyped') /\ (Finish => ControlTyped')
  BY DEF TypeOK, CallsTypeOK, ControlTyped, Fail, Finish, PcSet
<1>3. Retry => ControlTyped'
  BY <1>1, <1>2 DEF Retry, PcSet
<1>4. "Attempt" \in PcSet /\ "Cmd12" \in PcSet
  BY DEF PcSet
<1>5. base \in Nat /\ result \in {"none", "running", "ok", "err"}
  BY DEF TypeOK, CallsTypeOK
<1>6. Transferred => \/ pc' = "Attempt" /\ base' = base + 1 /\ result' = result
                     \/ Goto("Cmd12") \/ Finish
  BY DEF Transferred
<1>7. Transferred => ControlTyped'
  BY <1>1, <1>2, <1>4, <1>5, <1>6 DEF ControlTyped
<1> QED
  BY <1>1, <1>2, <1>3, <1>7

\* The parts of the invariant besides the types.
Rest == CallInv /\ MovedInv /\ PhaseInv /\ TurnInv /\ ContentInv /\ DoneInv

\* An error ends a call, and nothing is claimed of it.
LEMMA Fails == ASSUME SdhciInv, Fail, op' = op, moved' = moved PROVE Rest'
<1>1. pc' = "Idle" /\ result' = "err" /\ base' = base
  BY DEF Fail
<1>2. CallInv'
  BY <1>1 DEF CallInv, IssuePcs, PhasePcs
<1>3. MovedInv'
  BY <1>1 DEF SdhciInv, MovedInv, PhasePcs
<1>4. PhaseInv' /\ TurnInv' /\ ContentInv' /\ DoneInv'
  BY <1>1 DEF PhaseInv, TurnInv, ContentInv, DoneInv, PhasePcs, IssuePcs
<1> QED
  BY <1>2, <1>3, <1>4 DEF Rest

\* A call issues its data command, perhaps again.
LEMMA Issues ==
    ASSUME SdhciInv, pc \in IssuePcs \cup PhasePcs, op.count > 0,
           Goto("PioIssue") \/ Goto("DmaIssue"), op' = op, moved' = moved, store' = store,
           pc' = "PioIssue" => op.kind \notin DmaKinds,
           pc' = "DmaIssue" => op.kind \in BlockKinds /\ Count <= DescLimit,
           base > 0 => host'.dat \in {"idle", "read"}
    PROVE  Rest'
<1>1. pc' \in {"PioIssue", "DmaIssue"} /\ result' = result /\ base' = base /\ Count' = Count
  BY DEF Goto, Count
<1>2. CallInv'
  BY <1>1 DEF SdhciInv, CallInv, IssuePcs, PhasePcs
<1>3. MovedInv'
  BY <1>1 DEF SdhciInv, MovedInv, PhasePcs
<1>4. ContentInv'
  <2>1. base \in Nat /\ at \in Nat /\ pc' \notin PhasePcs
    BY <1>1 DEF SdhciInv, TypeOK, CallsTypeOK, PhasePcs
  <2>2. Progress' = base /\ Progress \in Nat /\ base <= Progress
    BY <1>1, <2>1 DEF Progress
  <2>3. ContentInv
    BY DEF SdhciInv
  <2> QED
    BY <1>1, <2>1, <2>2, <2>3 DEF ContentInv
<1>5. PhaseInv' /\ TurnInv' /\ DoneInv'
  <2>1. result' = "running"
    BY <1>1 DEF SdhciInv, CallInv, IssuePcs, PhasePcs
  <2> QED
    BY <1>1, <2>1 DEF PhaseInv, TurnInv, DoneInv, PhasePcs
<1> QED
  BY <1>2, <1>3, <1>4, <1>5 DEF Rest

\* After a failed attempt with DMA the command is issued again, or the call ends.
LEMMA Retries ==
    ASSUME SdhciInv, pc \in IssuePcs \cup PhasePcs, op.count > 0, Retry,
           op' = op, moved' = moved, store' = store,
           base > 0 => host'.dat \in {"idle", "read"}
    PROVE  Rest'
<1>1. CASE op.kind \in DmaKinds
  BY <1>1, Fails DEF Retry
<1>2. CASE op.kind \notin DmaKinds
  <2>1. Goto("PioIssue") /\ pc' = "PioIssue"
    BY <1>2 DEF Retry, Goto
  <2> QED
    BY <1>2, <2>1, Issues
<1> QED
  BY <1>1, <1>2

\* A data phase that is complete leaves the card waiting, and the next turn or the
\* stop of the call to come; or the call returns.
LEMMA Completes ==
    ASSUME SdhciInv, pc \in {"DmaWait", "PioWait"}, host.complete, Transferred,
           op' = op, moved' = moved, at' = at, store' = store, dev' = dev,
           host' = [host EXCEPT !.complete = FALSE]
    PROVE  Rest'
<1>0. TypeOK /\ CallInv /\ MovedInv /\ PhaseInv /\ ContentInv
  BY DEF SdhciInv
<1>1. Count \in Nat /\ at \in Nat /\ base \in Nat /\ op.count \in Nat /\ Len(moved) \in Nat
  BY <1>0, CallsTyped, Counts DEF TypeOK, CallsTypeOK
<1>2. host.dat = "idle" /\ dev.state = "tran" /\ at = Count
  <2>1. host.dat = "idle" /\ dev.state = "tran" /\ at = Asked
    BY <1>0 DEF PhaseInv, PhasePcs
  <2>2. pc = "DmaWait" => Count < CountLimit
    BY <1>0, <1>1, LimitsAssumption DEF CallInv
  <2>3. pc = "PioWait" => at = Count
    BY <1>0 DEF PhaseInv, PhasePcs
  <2> QED
    BY <1>0, <1>1, <2>1, <2>2, <2>3, Asking
<1>3. host'.dat = "idle" /\ dev'.state = "tran"
  BY <1>0, <1>2 DEF TypeOK, Host
<1>4. base + at <= Len(moved) /\ op.count > 0
  BY <1>0 DEF MovedInv, CallInv, PhasePcs
<1>5. result = "running" /\ op.kind \in BlockKinds \cup {"switch"}
  BY <1>0 DEF CallInv, IssuePcs, PhasePcs
<1>6. CASE pc' = "Attempt" /\ base' = base + 1 /\ result' = result /\ op.kind = "readBlocks"
           /\ base + 1 < op.count
  <2>1. at = 1
    BY <1>2, <1>6 DEF Count
  <2>2. CallInv'
    BY <1>5, <1>6 DEF CallInv, IssuePcs, PhasePcs, BlockKinds, ReadKinds
  <2>3. MovedInv'
    BY <1>0, <1>1, <1>4, <1>6, <2>1 DEF MovedInv, PhasePcs, WriteKinds
  <2>4. Progress' = Progress
    BY <1>1, <1>6, <2>1 DEF Progress, PhasePcs
  <2>5. ContentInv'
    BY <1>0, <1>5, <1>6, <2>4 DEF ContentInv, PhasePcs
  <2>6. PhaseInv' /\ TurnInv' /\ DoneInv'
    BY <1>3, <1>5, <1>6 DEF PhaseInv, TurnInv, DoneInv, PhasePcs
  <2> QED
    BY <2>2, <2>3, <2>5, <2>6 DEF Rest
<1>7. CASE Goto("Cmd12") /\ op.kind \in {"readBlocksInto", "writeBlocks"}
  <2>1. pc' = "Cmd12" /\ result' = result /\ base' = base /\ base = 0
    BY <1>0, <1>1, <1>7 DEF Goto, MovedInv
  <2>2. CallInv'
    BY <1>5, <1>7, <2>1 DEF CallInv, IssuePcs, PhasePcs
  <2>3. MovedInv'
    BY <1>0, <2>1 DEF MovedInv, PhasePcs
  <2>4. ContentInv'
    BY <2>1 DEF ContentInv, Progress, PhasePcs
  <2>5. PhaseInv' /\ TurnInv' /\ DoneInv'
    BY <1>3, <2>1 DEF PhaseInv, TurnInv, DoneInv, PhasePcs, IssuePcs
  <2> QED
    BY <2>2, <2>3, <2>4, <2>5 DEF Rest
<1>8. CASE Finish
  <2>1. pc' = "Idle" /\ result' = "ok" /\ base' = base
    BY <1>8 DEF Finish
  <2>2. CallInv'
    BY <2>1 DEF CallInv, IssuePcs, PhasePcs
  <2>3. MovedInv'
    BY <1>0, <2>1 DEF MovedInv, PhasePcs
  <2>4. PhaseInv' /\ TurnInv' /\ ContentInv' /\ DoneInv'
    BY <1>3, <2>1 DEF PhaseInv, TurnInv, ContentInv, DoneInv, PhasePcs, IssuePcs
  <2> QED
    BY <2>2, <2>3, <2>4 DEF Rest
<1> QED
  BY <1>6, <1>7, <1>8 DEF Transferred

-----------------------------------------------------------------------------
(* A block passes.                                                         *)

\* What the driver and the end of a transfer make of the controller.
LEMMA HostTypes ==
    ASSUME TypeOK
    PROVE  /\ Quiet \in Host /\ Quiet.dat = "idle"
           /\ LET h == [Quiet EXCEPT !.complete = TRUE]
              IN  h \in Host /\ h.dat = "idle" /\ h.complete
           /\ [Quiet EXCEPT !.dat = "busy"] \in Host
           /\ LET h == [host EXCEPT !.complete = FALSE]
              IN  /\ h \in Host /\ h.dat = host.dat /\ h.left = host.left
                  /\ h.dma = host.dma /\ ~h.complete
           /\ LET h == [host EXCEPT !.left = 0] IN h \in Host /\ h.dat = host.dat
<1>1. 0 \in 0 .. CountLimit - 1
  BY LimitsAssumption
<1>2. Quiet \in Host /\ Quiet.dat = "idle"
  BY <1>1 DEF Quiet, Host
<1>3. host \in Host
  BY DEF TypeOK
<1> QED
  BY <1>1, <1>2, <1>3 DEF Host

\* The last block read ends the transfer and frees the lines; any other leaves the
\* controller with one less to move, and the card at the next, or programming.
LEMMA Passes ==
    ASSUME TypeOK, CanRead \/ CanWrite, BlockPasses
    PROVE  /\ dev' \in Device /\ host' \in Host
           /\ \/ /\ host.dat = "read" /\ host.left = 1
                 /\ host'.dat = "idle" /\ host'.complete /\ dev'.state = "tran"
              \/ /\ host'.dat = host.dat /\ host'.dma = host.dma
                 /\ host'.complete = host.complete /\ host'.left = host.left - 1
                 /\ \/ dev'.state = dev.state /\ dev'.block = dev.block + 1
                    \/ host.dat = "write" /\ host.left = 1 /\ dev'.state = "prg"
<1> DEFINE last == host.left = 1
           more == [dev EXCEPT !.block = @ + 1]
           done == Do(IF host.dat = "read" THEN "tran" ELSE "prg")
           lower == [host EXCEPT !.left = host.left - 1]
<1>1. host \in Host /\ host.left \in Nat /\ host.left > 0 /\ CountLimit \in Nat \ {0, 1}
  BY LimitsAssumption DEF TypeOK, Host, CanRead, CanWrite
<1>2. host.dat = "read" \/ host.dat = "write"
  BY DEF CanRead, CanWrite
<1>3. more \in Device /\ more.state = dev.state /\ more.block = dev.block + 1
  BY CallsTyped, NextBlock
<1>4. /\ done \in Device
      /\ done.state = IF host.dat = "read" THEN "tran" ELSE "prg"
  BY CallsTyped, Becomes DEF CardStates
<1>5. /\ lower \in Host /\ lower.left = host.left - 1 /\ lower.dat = host.dat
      /\ lower.dma = host.dma /\ lower.complete = host.complete
  <2>1. host.left - 1 \in 0 .. CountLimit - 1
    BY <1>1 DEF Host
  <2> HIDE DEF last
  <2> QED
    BY <1>1, <2>1 DEF Host
<1>6. last => lower = [host EXCEPT !.left = 0]
  BY <1>1
<1>7. LET h == [Quiet EXCEPT !.complete = TRUE]
      IN  h \in Host /\ h.dat = "idle" /\ h.complete
  BY HostTypes
<1>8. \/ /\ last /\ dev' = done
         /\ host' = IF host.dat = "write" THEN [host EXCEPT !.left = 0]
                    ELSE [Quiet EXCEPT !.complete = TRUE]
      \/ last /\ dev' = more /\ host' = [host EXCEPT !.left = 0]
      \/ ~last /\ dev' = more /\ host' = lower
  BY DEF BlockPasses
<1> HIDE DEF more, done, lower
<1>9. CASE /\ last /\ dev' = done /\ host.dat = "write" /\ host' = lower
  BY <1>1, <1>4, <1>5, <1>9
<1>10. CASE /\ last /\ dev' = done /\ host.dat = "read"
            /\ host' = [Quiet EXCEPT !.complete = TRUE]
  BY <1>4, <1>7, <1>10
<1>11. CASE dev' = more /\ host' = lower
  BY <1>3, <1>5, <1>11
<1> QED
  BY <1>2, <1>6, <1>8, <1>9, <1>10, <1>11

\* The block of the call that is moved next.
Place == base + at + 1

\* In a data phase that has not ended, that block is within the call, the card is at
\* it, and a write takes it from the call's data.
LEMMA InPhase ==
    ASSUME SdhciInv, pc \in {"DmaWait", "PioBlock"}, CanRead \/ CanWrite
    PROVE  /\ Place \in Nat /\ Place > 0 /\ Place <= op.count /\ Place <= Len(moved) + 1
           /\ op.count > 0 /\ result = "running" /\ base + at <= Len(moved)
           /\ ~host.complete /\ (host.dma <=> pc = "DmaWait")
           /\ host.dat = Direction /\ at + host.left = Asked
           /\ at + 1 <= Count /\ Asked \in Nat
           /\ op.kind \in WriteKinds =>
                 base = 0 /\ op.data[at + 1] \in Data /\ Count = op.count
           /\ dev.state \in {"data", "rcv"} => dev.block = op.first + Place - 1
           /\ op.kind \in WriteKinds => dev.state \in {"rcv", "prg", "tran"}
           /\ op.kind \notin WriteKinds /\ op.kind # "switch" => dev.state \in {"data", "tran"}
           /\ op.kind = "switch" => dev.state = "status"
<1>0. TypeOK /\ CallInv /\ MovedInv /\ PhaseInv /\ ContentInv
  BY DEF SdhciInv
<1>1. /\ Count \in Nat /\ at \in Nat /\ base \in Nat /\ op.count \in Nat
      /\ op.first \in Nat /\ Start = op.first + base /\ Len(moved) \in Nat
      /\ host.left \in Nat /\ host \in Host
  BY <1>0, CallsTyped, Counts DEF TypeOK, CallsTypeOK, Host, Start
<1>2. /\ pc \in PhasePcs /\ result = "running" /\ op.count > 0
      /\ base + at <= Len(moved) /\ Len(moved) <= op.count
  BY <1>0 DEF CallInv, PhasePcs, IssuePcs, MovedInv, TypeOK, CallsTypeOK
<1>3. /\ host.dat # "idle" /\ host.left > 0 /\ ~host.complete
      /\ host.dma <=> pc = "DmaWait"
      /\ host.dat = Direction /\ at + host.left = Asked
  BY <1>0, <1>2 DEF PhaseInv, CanRead, CanWrite
<1>4. at + 1 <= Count /\ Asked \in Nat
  <2>1. Asked \in Nat /\ Asked <= Count
    BY <1>0, Asking
  <2> QED
    BY <1>1, <1>3, <2>1
<1>5. Place <= op.count
  <2>1. CASE op.kind = "readBlocks"
    <3>1. base < op.count /\ at = 0
      BY <1>0, <1>1, <1>2, <1>4, <2>1 DEF Count, MovedInv
    <3> QED
      BY <1>1, <3>1 DEF Place
  <2>2. CASE op.kind # "readBlocks"
    <3>1. base = 0 /\ Count = op.count
      BY <1>0, <1>1, <2>2 DEF Count, MovedInv
    <3> QED
      BY <1>1, <1>4, <3>1 DEF Place
  <2> QED
    BY <2>1, <2>2
<1>6. op.kind \in WriteKinds => base = 0 /\ op.data[at + 1] \in Data /\ Count = op.count
  <2> SUFFICES ASSUME op.kind \in WriteKinds
               PROVE  base = 0 /\ op.data[at + 1] \in Data /\ Count = op.count
    OBVIOUS
  <2>1. base = 0 /\ Count = op.count /\ op.count = Len(op.data)
    BY <1>0, <1>1 DEF MovedInv, WriteKinds, Count
  <2>2. op.data \in Seq(Data)
    BY <1>0 DEF TypeOK, CallsTypeOK, Operation
  <2> QED
    BY <1>1, <1>4, <2>1, <2>2
<1>7. /\ dev.state \in {"data", "rcv"} => dev.block = op.first + Place - 1
      /\ op.kind \in WriteKinds => dev.state \in {"rcv", "prg", "tran"}
      /\ op.kind \notin WriteKinds /\ op.kind # "switch" => dev.state \in {"data", "tran"}
      /\ op.kind = "switch" => dev.state = "status"
  <2>1. dev.state \in {"data", "rcv"} => dev.block = Start + at
    BY <1>0, <1>2, <1>3 DEF PhaseInv
  <2>2. op.first + base + at = op.first + Place - 1
    BY <1>1 DEF Place
  <2>3. op.kind \in WriteKinds => op.kind # "switch"
    BY DEF WriteKinds
  <2> QED
    BY <1>0, <1>1, <1>2, <1>3, <2>1, <2>2, <2>3 DEF PhaseInv
<1>8. Place \in Nat /\ Place > 0 /\ Place <= Len(moved) + 1
  BY <1>1, <1>2 DEF Place
<1> QED
  BY <1>2, <1>3, <1>4, <1>5, <1>6, <1>7, <1>8

\* The block has passed: it is the next of the call's in its buffer, and the same in
\* the card.
BlockMoved(v) ==
    /\ moved' = IF Place <= Len(moved) THEN [moved EXCEPT ![Place] = v] ELSE Append(moved, v)
    /\ op.kind \in WriteKinds =>
          v = op.data[at + 1] /\ store' = [store EXCEPT ![dev.block] = v]
    /\ op.kind \notin WriteKinds => store' = store
    /\ op.kind \in ReadKinds => v = store[op.first + Place - 1]
    /\ op.kind \in BlockKinds => dev.block = op.first + Place - 1 /\ dev.block \in Blocks

\* TakeBlock and GiveBlock pass such a block.
LEMMA PassedBlock ==
    ASSUME SdhciInv, pc \in {"DmaWait", "PioBlock"},
           (CanRead /\ TakeBlock) \/ (CanWrite /\ GiveBlock)
    PROVE  \E v \in Data \cup {"switched"} : BlockMoved(v)
<1>0. TypeOK /\ base \in Nat /\ at \in Nat
  BY DEF SdhciInv, TypeOK, CallsTypeOK
<1>1. base + (at + 1) = Place
  BY <1>0 DEF Place
<1>2. CASE CanRead /\ TakeBlock
  <2>1. op.kind \notin WriteKinds
    BY <1>2, InPhase DEF CanRead, Direction
  <2>2. Content \in Data \cup {"switched"}
    BY <1>0, <1>2 DEF Content, CanRead, TypeOK, CallsTypeOK
  <2>3. op.kind \in BlockKinds =>
           /\ dev.state = "data" /\ op.kind \in ReadKinds /\ dev.block \in Blocks
           /\ dev.block = op.first + Place - 1
    BY <1>2, <2>1, InPhase DEF CanRead, BlockKinds, ReadKinds
  <2>4. moved' = IF Place <= Len(moved) THEN [moved EXCEPT ![Place] = Content]
                 ELSE Append(moved, Content)
    BY <1>1, <1>2 DEF TakeBlock, Moved
  <2>5. store' = store
    BY <1>2 DEF TakeBlock
  <2> QED
    BY <2>1, <2>2, <2>3, <2>4, <2>5 DEF BlockMoved, Content, BlockKinds
<1>3. CASE CanWrite /\ GiveBlock
  <2>1. op.kind \in WriteKinds /\ op.kind \notin ReadKinds
    BY <1>3, InPhase DEF CanWrite, Direction, WriteKinds, ReadKinds
  <2>2. /\ dev.state = "rcv" /\ dev.block \in Blocks /\ dev.block = op.first + Place - 1
        /\ op.data[at + 1] \in Data
    BY <1>3, <2>1, InPhase DEF CanWrite
  <2>3. moved' = IF Place <= Len(moved) THEN [moved EXCEPT ![Place] = op.data[at + 1]]
                 ELSE Append(moved, op.data[at + 1])
    BY <1>1, <1>3 DEF GiveBlock, Moved
  <2>4. store' = [store EXCEPT ![dev.block] = op.data[at + 1]]
    BY <1>3 DEF GiveBlock
  <2> QED
    BY <2>1, <2>2, <2>3, <2>4 DEF BlockMoved
<1> QED
  BY <1>2, <1>3

\* What it changes in the call's buffer and in the card, and what it leaves.
LEMMA BlockEffect ==
    ASSUME SdhciInv, pc \in {"DmaWait", "PioBlock"}, CanRead \/ CanWrite,
           NEW v \in Data \cup {"switched"}, BlockMoved(v)
    PROVE  /\ moved' \in Seq(Data \cup {"switched"}) /\ Len(moved) <= Len(moved')
           /\ Place <= Len(moved') /\ Len(moved') <= op.count
           /\ Len(moved') = Len(moved) \/ Len(moved') = Place
           /\ moved'[Place] = v
           /\ \A i \in 1 .. Len(moved) : i # Place => moved'[i] = moved[i]
           /\ store' \in [Blocks -> Data]
           /\ op.kind \in BlockKinds => v = store'[op.first + Place - 1]
           /\ op.kind \in BlockKinds =>
                 \A i \in Nat : i # Place => store'[op.first + i - 1] = store[op.first + i - 1]
<1>1. /\ moved \in Seq(Data \cup {"switched"}) /\ store \in [Blocks -> Data]
      /\ op.first \in Nat /\ op.count \in Nat /\ Len(moved) <= op.count
  BY DEF SdhciInv, TypeOK, CallsTypeOK, Operation
<1>2. Place \in Nat /\ Place > 0 /\ Place <= op.count /\ Place <= Len(moved) + 1
  BY InPhase
<1>3. /\ moved' \in Seq(Data \cup {"switched"}) /\ Len(moved) <= Len(moved')
      /\ Place <= Len(moved') /\ (Len(moved') = Len(moved) \/ Len(moved') = Place)
      /\ moved'[Place] = v
      /\ \A i \in 1 .. Len(moved) : i # Place => moved'[i] = moved[i]
  <2>1. moved' = IF Place <= Len(moved) THEN [moved EXCEPT ![Place] = v]
                 ELSE Append(moved, v)
    BY DEF BlockMoved
  <2> QED
    BY <1>1, <1>2, <2>1, PutInSequence
<1>4. CASE op.kind \in WriteKinds
  <2>1. v \in Data /\ op.kind \in BlockKinds
    BY <1>4, InPhase DEF BlockMoved, BlockKinds
  <2>2. /\ store' = [store EXCEPT ![dev.block] = v] /\ dev.block = op.first + Place - 1
        /\ dev.block \in Blocks
    BY <1>4, <2>1 DEF BlockMoved
  <2>3. store' \in [Blocks -> Data] /\ store'[dev.block] = v
    BY <1>1, <2>1, <2>2
  <2>4. ASSUME NEW i \in Nat, i # Place
        PROVE  store'[op.first + i - 1] = store[op.first + i - 1]
    <3> DEFINE j == op.first + i - 1
    <3>1. j # dev.block
      BY <1>1, <1>2, <2>2, <2>4
    <3> HIDE DEF j
    <3>2. store'[j] = store[j]
      BY <1>1, <2>2, <3>1
    <3> QED
      BY <3>2 DEF j
  <2> QED
    BY <1>1, <1>2, <1>3, <2>2, <2>3, <2>4
<1>5. CASE op.kind \notin WriteKinds
  <2>1. store' = store /\ (op.kind \in BlockKinds => v = store[op.first + Place - 1])
    BY <1>5 DEF BlockMoved, BlockKinds
  <2> QED
    BY <1>1, <1>2, <1>3, <2>1
<1> QED
  BY <1>4, <1>5

\* In a data phase: what has passed is the same in the card and in the call's buffer
\* afterwards, and both are at the next block.
LEMMA Passing ==
    ASSUME SdhciInv, pc \in {"DmaWait", "PioBlock"},
           (CanRead /\ TakeBlock) \/ (CanWrite /\ GiveBlock), BlockPasses, op' = op,
           base' = base, result' = result, calls' = calls, inStep' = inStep,
           setup' = setup,
           \/ pc = "DmaWait" /\ pc' = "DmaWait"
           \/ pc = "PioBlock" /\ pc' = IF at' = Count THEN "PioWait" ELSE "PioBlock"
    PROVE  TypeOK' /\ Rest'
<1>0. TypeOK /\ CallInv /\ MovedInv /\ PhaseInv /\ ContentInv
  BY DEF SdhciInv
<1>1. /\ Count \in Nat /\ at \in Nat /\ base \in Nat /\ op.count \in Nat
      /\ op.first \in Nat /\ Start = op.first + base /\ Len(moved) \in Nat
      /\ host.left \in Nat
  BY <1>0, CallsTyped, Counts DEF TypeOK, CallsTypeOK, Host, Start
<1>2. /\ pc \in PhasePcs /\ pc' \in PhasePcs /\ result = "running" /\ op.count > 0
      /\ base + at <= Len(moved)
      /\ CanRead \/ CanWrite
  BY InPhase DEF PhasePcs
<1>3. /\ ~host.complete
      /\ host.dma <=> pc = "DmaWait"
      /\ host.dat = Direction /\ at + host.left = Asked
  BY InPhase
<1>4. at + 1 <= Count /\ Asked \in Nat /\ Place <= op.count
  BY InPhase
<1>6. op.kind \in WriteKinds => base = 0
  BY InPhase
<1>7. /\ dev.state \in {"data", "rcv"} => dev.block = op.first + Place - 1
      /\ op.kind \in WriteKinds => dev.state \in {"rcv", "prg", "tran"}
      /\ op.kind \notin WriteKinds /\ op.kind # "switch" => dev.state \in {"data", "tran"}
      /\ op.kind = "switch" => dev.state = "status"
  BY InPhase
<1>9. at' = at + 1 /\ Count' = Count /\ Start' = Start
  BY DEF TakeBlock, GiveBlock, Count, Start
<1>10. PICK v \in Data \cup {"switched"} : BlockMoved(v)
  BY PassedBlock
<1>11. /\ moved' \in Seq(Data \cup {"switched"}) /\ Len(moved) <= Len(moved')
       /\ Place <= Len(moved') /\ Len(moved') <= op.count /\ moved'[Place] = v
       /\ \A i \in 1 .. Len(moved) : i # Place => moved'[i] = moved[i]
  BY <1>2, <1>10, BlockEffect
<1>12. /\ store' \in [Blocks -> Data]
       /\ op.kind \in BlockKinds => v = store'[op.first + Place - 1]
       /\ op.kind \in BlockKinds =>
             \A i \in Nat : i # Place => store'[op.first + i - 1] = store[op.first + i - 1]
  BY <1>2, <1>10, BlockEffect
<1>13. TypeOK'
  <2>1. ControlTyped'
    BY <1>0, <1>2 DEF ControlTyped, PhasePcs, PcSet, TypeOK, CallsTypeOK
  <2>2. CallTyped'
    BY <1>0, <1>1, <1>9, <1>11 DEF CallTyped, TypeOK, CallsTypeOK
  <2>3. WireTyped'
    BY <1>0, <1>12, Passes DEF WireTyped
  <2> QED
    BY <2>1, <2>2, <2>3, TypeFromParts
<1>14. CallInv'
  <2>1. /\ pc' = "DmaWait" <=> pc = "DmaWait"
        /\ pc' \in {"DmaWait", "PioBlock", "PioWait"}
    BY <1>2
  <2> QED
    BY <1>0, <1>2, <1>9, <2>1 DEF CallInv, PhasePcs, IssuePcs
<1>15. Len(moved') \in Nat
  BY <1>11
<1>16. base' + at' = Place /\ Place \in Nat
  BY <1>1, <1>9 DEF Place
<1>17. MovedInv'
  <2>1. base' <= Len(moved') /\ base' + at' <= Len(moved') /\ at' <= Count'
    BY <1>1, <1>4, <1>9, <1>11, <1>15, <1>16
  <2> QED
    BY <1>0, <2>1 DEF MovedInv
<1>18. ContentInv'
  <2>1. Progress' = Place /\ Progress = Place - 1 /\ Progress \in Nat
    BY <1>1, <1>2, <1>9, <1>16 DEF Progress, Place
  <2>2. Place - 1 <= Len(moved)
    BY <1>1, <1>2 DEF Place
  <2>3. ASSUME op.kind \in BlockKinds, NEW i \in 1 .. Place
        PROVE  moved'[i] = store'[op.first + i - 1]
    <3>1. CASE i = Place
      BY <1>11, <1>12, <2>3, <3>1
    <3>2. CASE i # Place
      <4>1. i \in 1 .. Place - 1 /\ i \in 1 .. Len(moved) /\ i \in Nat
        BY <1>1, <1>16, <2>2, <3>2
      <4>2. moved[i] = store[op.first + i - 1]
        BY <1>0, <1>2, <2>1, <2>3, <4>1 DEF ContentInv
      <4>3. moved'[i] = moved[i]
        BY <1>11, <3>2, <4>1
      <4>4. store'[op.first + i - 1] = store[op.first + i - 1]
        BY <1>12, <2>3, <3>2, <4>1
      <4> QED
        BY <4>2, <4>3, <4>4
    <3> QED
      BY <3>1, <3>2
  <2>4. ASSUME op.kind \in WriteKinds, NEW i \in 1 .. at'
        PROVE  moved'[i] = op.data[i]
    <3>1. Place = at + 1
      BY <1>1, <1>6, <2>4 DEF Place
    <3>2. CASE i = at + 1
      BY <1>10, <1>11, <2>4, <3>1, <3>2 DEF BlockMoved
    <3>3. CASE i \in 1 .. at
      <4>1. moved[i] = op.data[i]
        BY <1>0, <1>2, <2>4, <3>3 DEF ContentInv
      <4>2. i \in 1 .. Len(moved) /\ i # Place
        BY <1>1, <2>2, <3>1, <3>3
      <4> QED
        BY <1>11, <4>1, <4>2
    <3> QED
      BY <1>1, <1>9, <3>2, <3>3
  <2> QED
    BY <2>1, <2>3, <2>4 DEF ContentInv
<1>19. PhaseInv'
  <2>1. Direction' = Direction /\ Asked' = Asked
    BY <1>9 DEF Direction, Asked
  <2>2. (pc' = "PioBlock" => at' < Count) /\ (pc' = "PioWait" => at' = Count)
    BY <1>1, <1>4, <1>9
  <2>3. CASE /\ host.left = 1
             /\ host'.dat = "idle" /\ host'.complete /\ dev'.state = "tran"
    BY <1>1, <1>3, <1>9, <2>1, <2>2, <2>3 DEF PhaseInv
  <2>4. CASE /\ host'.dat = host.dat /\ host'.dma = host.dma
             /\ host'.complete = host.complete /\ host'.left = host.left - 1
             /\ \/ dev'.state = dev.state /\ dev'.block = dev.block + 1
                \/ host.dat = "write" /\ host.left = 1 /\ dev'.state = "prg"
    <3>1. at' + host'.left = Asked
      <4>1. host'.left = host.left - 1 /\ at' = at + 1 /\ at + host.left = Asked
        BY <1>3, <1>9, <2>4
      <4>2. at \in Nat /\ host.left \in Nat /\ Asked \in Nat
        BY <1>1, <1>4
      <4> QED
        BY <4>1, <4>2
    <3>2. host'.dma <=> pc' = "DmaWait"
      BY <1>3, <2>4
    <3>3. dev.state # "prg"
      BY DEF CanRead, CanWrite
    <3>4. CASE dev'.state = dev.state /\ dev'.block = dev.block + 1
      <4>1. dev'.state \in {"data", "rcv"} => dev'.block = Start + at'
        <5>1. Start + at' = (op.first + Place - 1) + 1
          <6>1. Start = op.first + base /\ at' = at + 1
            BY <1>1, <1>9
          <6>2. op.first \in Nat /\ base \in Nat /\ at \in Nat
            BY <1>1
          <6> QED
            BY <6>1, <6>2 DEF Place
        <5> QED
          BY <1>7, <3>4, <5>1
      <4> QED
        BY <1>0, <1>2, <1>3, <1>9, <2>1, <2>2, <2>4, <3>1, <3>2, <3>3, <3>4, <4>1
        DEF PhaseInv
    <3>5. CASE host.dat = "write" /\ host.left = 1 /\ dev'.state = "prg"
      <4>1. op.kind \in WriteKinds /\ host'.left = 0
        BY <1>3, <2>4, <3>5 DEF Direction
      <4> QED
        BY <1>3, <1>9, <2>1, <2>2, <2>4, <3>1, <3>2, <3>5, <4>1 DEF PhaseInv
    <3> QED
      BY <2>4, <3>4, <3>5
  <2> QED
    BY <1>0, <2>3, <2>4, Passes
<1>20. TurnInv' /\ DoneInv'
  BY <1>2 DEF TurnInv, DoneInv, PhasePcs, IssuePcs
<1> QED
  BY <1>13, <1>14, <1>17, <1>18, <1>19, <1>20 DEF Rest

-----------------------------------------------------------------------------
(* The steps of the driver.                                                *)

\* The parts that TypeOK is made of.
LEMMA Parts == TypeOK => ControlTyped /\ CallTyped /\ WireTyped
BY DEF TypeOK, CallsTypeOK, ControlTyped, CallTyped, WireTyped

\* What does not touch a call or the wire keeps their types.
LEMMA CallKept ==
    TypeOK /\ UNCHANGED <<op, at, moved, calls, inStep, setup>> => CallTyped'
BY DEF TypeOK, CallsTypeOK, CallTyped

\* A call that makes an attempt issues its command, completes it or gives up.
LEMMA Attempts == SdhciInv /\ Attempt => TypeOK' /\ Rest'
<1> SUFFICES ASSUME SdhciInv, Attempt PROVE TypeOK' /\ Rest'
  OBVIOUS
<1>0. TypeOK /\ CallInv /\ MovedInv /\ TurnInv /\ pc = "Attempt"
  BY DEF SdhciInv, Attempt
<1>1. UNCHANGED <<op, at, moved, calls, inStep, setup, host, dev, store>>
  BY DEF Attempt
<1>2. TypeOK'
  <2>1. ControlTyped'
    BY <1>0, Controls DEF Attempt, PcSet
  <2>2. CallTyped' /\ WireTyped'
    BY <1>0, <1>1, CallKept, Parts DEF WireTyped
  <2> QED
    BY <2>1, <2>2, TypeFromParts
<1>3. base > 0 => host'.dat \in {"idle", "read"}
  BY <1>0, <1>1 DEF TurnInv, IssuePcs
<1>4. CASE op.count = 0 /\ Finish
  <2>1. pc' = "Idle" /\ result' = "ok" /\ base' = base
    BY <1>4 DEF Finish
  <2>2. CallInv' /\ MovedInv'
    BY <1>0, <1>1, <2>1 DEF CallInv, MovedInv, IssuePcs, PhasePcs
  <2>3. PhaseInv' /\ TurnInv' /\ ContentInv' /\ DoneInv'
    BY <1>1, <1>4, <2>1
    DEF PhaseInv, TurnInv, ContentInv, DoneInv, IssuePcs, PhasePcs, Operation
  <2> QED
    BY <1>2, <2>2, <2>3 DEF Rest
<1>5. CASE /\ op.count > 0
           /\ setup.dma \/ op.kind \in DmaKinds
           /\ op.kind # "switch" /\ Count <= DescLimit /\ Goto("DmaIssue")
  <2>1. op.kind \in BlockKinds /\ op.count > 0 /\ pc' = "DmaIssue" /\ pc' # "PioIssue"
    <3>1. op.count > 0
      <4>1. op.count = 0 \/ op.count > 0
        BY <1>0 DEF TypeOK, CallsTypeOK, Operation
      <4> QED
        BY <1>5, <4>1 DEF Attempt, Finish, Goto, Retry, Fail
    <3> QED
      BY <1>0, <1>5, <3>1 DEF CallInv, IssuePcs, Goto
  <2> QED
    BY <1>0, <1>1, <1>2, <1>3, <1>5, <2>1, Issues DEF IssuePcs
<1>6. CASE op.count > 0 /\ Retry
  BY <1>0, <1>1, <1>2, <1>3, <1>6, Retries DEF IssuePcs
<1> QED
  BY <1>4, <1>5, <1>6 DEF Attempt

\* A data command that was heard starts its data phase.
LEMMA Starts ==
    ASSUME SdhciInv, NEW dma \in BOOLEAN, at' = 0, op' = op, moved' = moved,
           store' = store, calls' = calls, inStep' = inStep, setup' = setup,
           dev' = Obeyed(TransferCommand), host' = Programmed(dma),
           \/ pc = "DmaIssue" /\ dma /\ Goto("DmaWait")
           \/ pc = "PioIssue" /\ ~dma /\ Goto("PioBlock")
    PROVE  TypeOK' /\ Rest'
<1>0. TypeOK /\ CallInv /\ MovedInv /\ ContentInv
  BY DEF SdhciInv
<1>1. /\ Count \in Nat /\ op.count \in Nat /\ op.first \in Nat /\ base \in Nat
      /\ Start \in Nat /\ at \in Nat /\ Len(moved) \in Nat
  BY <1>0, CallsTyped, Counts DEF TypeOK, CallsTypeOK
<1>2. /\ pc \in {"DmaIssue", "PioIssue"} /\ pc' \in {"DmaWait", "PioBlock"}
      /\ result' = result /\ base' = base /\ (pc' = "DmaWait" <=> pc = "DmaIssue")
      /\ (dma <=> pc' = "DmaWait") /\ Count' = Count /\ Start' = Start
      /\ Direction' = Direction
  BY DEF Goto, Count, Start, Direction
<1>3. op.count > 0 /\ op.kind \in BlockKinds \cup {"switch"} /\ result = "running"
  BY <1>0, <1>2 DEF CallInv, IssuePcs, PhasePcs
<1>4. Count > 0
  BY <1>1, <1>3 DEF Count
<1>5. /\ host'.dat = Direction /\ host'.left = Asked /\ ~host'.complete
      /\ (host'.dma <=> dma) /\ host' \in Host
  <2>1. Asked \in 0 .. CountLimit - 1
    BY <1>0, Asking
  <2>2. host' = [dat |-> Direction, left |-> Asked, dma |-> dma, complete |-> FALSE]
    BY DEF Programmed, Direction, Asked
  <2> QED
    BY <2>1, <2>2 DEF Direction, Host
<1>6. /\ dev' \in Device
      /\ op.kind \in ReadKinds => dev'.state \in {"data", "tran"}
      /\ op.kind \in WriteKinds => dev'.state \in {"rcv", "tran"}
      /\ op.kind = "switch" => dev'.state = "status"
      /\ dev'.state \in {"data", "rcv"} => dev'.block = Start
  BY <1>0, CallsTyped, ObeyedData DEF BlockKinds, ReadKinds, WriteKinds
<1>7. TypeOK'
  <2>1. ControlTyped'
    BY <1>0, Controls DEF PcSet
  <2>2. CallTyped' /\ WireTyped'
    BY <1>0, <1>5, <1>6 DEF CallTyped, WireTyped, TypeOK, CallsTypeOK
  <2> QED
    BY <2>1, <2>2, TypeFromParts
<1>8. CallInv' /\ MovedInv'
  <2>1. CallInv'
    BY <1>0, <1>2, <1>3 DEF CallInv, IssuePcs, PhasePcs
  <2>2. base' + at' <= Len(moved') /\ at' <= Count'
    BY <1>0, <1>1, <1>2 DEF MovedInv
  <2>3. MovedInv'
    BY <1>0, <1>2, <2>2 DEF MovedInv
  <2> QED
    BY <2>1, <2>3
<1>9. PhaseInv'
  <2>1. /\ host'.dat \in {Direction', "idle"} /\ host'.dat # "idle"
        /\ at' + host'.left = Asked'
        /\ dev'.state \in {"data", "rcv"} => dev'.block = Start' + at'
        /\ at' < Count'
    <3>1. Asked \in Nat /\ Asked' = Asked
      BY <1>0, <1>2, Asking DEF Asked
    <3> QED
      BY <1>1, <1>2, <1>4, <1>5, <1>6, <3>1 DEF Direction
  <2>2. /\ dev'.state # "prg"
        /\ dev'.state \in IF op.kind \in WriteKinds THEN {"rcv", "prg", "tran"}
                         ELSE IF op.kind = "switch" THEN {"status"} ELSE {"data", "tran"}
    BY <1>3, <1>6 DEF BlockKinds, ReadKinds, WriteKinds
  <2> QED
    BY <1>2, <1>5, <2>1, <2>2 DEF PhaseInv
<1>10. ContentInv'
  <2>1. Progress' = base /\ Progress = base
    BY <1>1, <1>2 DEF Progress, PhasePcs
  <2> QED
    BY <1>0, <1>2, <1>3, <2>1 DEF ContentInv
<1>11. TurnInv' /\ DoneInv'
  BY <1>2, <1>3 DEF TurnInv, DoneInv, IssuePcs
<1> QED
  BY <1>7, <1>8, <1>9, <1>10, <1>11 DEF Rest

\* One that was not, or not understood, is issued again or ends the call.
LEMMA NotStarted ==
    ASSUME SdhciInv, pc \in {"DmaIssue", "PioIssue"}, Retry \/ Fail, op' = op,
           moved' = moved, store' = store, calls' = calls, inStep' = inStep,
           setup' = setup, at' \in {at, 0}, dev' \in {dev, Obeyed(TransferCommand)},
           host' \in {host, Quiet}
    PROVE  TypeOK' /\ Rest'
<1>0. TypeOK /\ CallInv /\ TurnInv
  BY DEF SdhciInv
<1>1. TypeOK'
  <2>1. ControlTyped'
    BY <1>0, Controls
  <2>2. CallTyped'
    BY <1>0 DEF CallTyped, TypeOK, CallsTypeOK
  <2>3. WireTyped'
    BY <1>0, Parts, CallsTyped, ObeyedData, HostTypes DEF WireTyped
  <2> QED
    BY <2>1, <2>2, <2>3, TypeFromParts
<1>2. op.count > 0
  BY <1>0 DEF CallInv
<1>3. base > 0 => host'.dat \in {"idle", "read"}
  BY <1>0, HostTypes DEF TurnInv, IssuePcs
<1> QED
  BY <1>1, <1>2, <1>3, Retries, Fails DEF IssuePcs

\* A data command with DMA starts a data phase, or the attempt ends.
LEMMA DmaIssues == SdhciInv /\ DmaIssue => TypeOK' /\ Rest'
<1> SUFFICES ASSUME SdhciInv, DmaIssue PROVE TypeOK' /\ Rest'
  OBVIOUS
<1>1. /\ pc = "DmaIssue" /\ op' = op /\ moved' = moved /\ store' = store
      /\ calls' = calls /\ inStep' = inStep /\ setup' = setup
  BY DEF DmaIssue
<1>2. \/ /\ Retry /\ at' \in {at, 0} /\ dev' \in {dev, Obeyed(TransferCommand)}
         /\ host' \in {host, Quiet}
      \/ /\ Goto("DmaWait") /\ at' = 0 /\ dev' = Obeyed(TransferCommand)
         /\ host' = Programmed(TRUE)
  BY DEF DmaIssue, DataCommand
<1> QED
  BY <1>1, <1>2, Starts, NotStarted

\* A data command without DMA does the same.
LEMMA PioIssues == SdhciInv /\ PioIssue => TypeOK' /\ Rest'
<1> SUFFICES ASSUME SdhciInv, PioIssue PROVE TypeOK' /\ Rest'
  OBVIOUS
<1>1. /\ pc = "PioIssue" /\ op' = op /\ moved' = moved /\ store' = store
      /\ calls' = calls /\ inStep' = inStep /\ setup' = setup
  BY DEF PioIssue
<1>2. \/ /\ Fail /\ at' \in {at, 0} /\ dev' \in {dev, Obeyed(TransferCommand)}
         /\ host' \in {host, Quiet}
      \/ /\ Goto("PioBlock") /\ at' = 0 /\ dev' = Obeyed(TransferCommand)
         /\ host' = Programmed(FALSE)
  BY DEF PioIssue, DataCommand
<1> QED
  BY <1>1, <1>2, Starts, NotStarted

\* The wait for the end of a transfer with DMA.
LEMMA DmaWaits == SdhciInv /\ DmaWait => TypeOK' /\ Rest'
<1> SUFFICES ASSUME SdhciInv, DmaWait PROVE TypeOK' /\ Rest'
  OBVIOUS
<1>0. TypeOK /\ CallInv /\ MovedInv /\ PhaseInv /\ pc = "DmaWait"
  BY DEF SdhciInv, DmaWait
<1>1. /\ op' = op /\ moved' = moved /\ store' = store /\ at' = at /\ calls' = calls
      /\ setup' = setup /\ op.count > 0 /\ pc \in PhasePcs
  BY <1>0 DEF DmaWait, CallInv, PhasePcs
<1>2. CallTyped' <=> inStep' \in BOOLEAN
  BY <1>0, <1>1 DEF CallTyped, TypeOK, CallsTypeOK
<1>3. base > 0 => host.dat \in {"idle", "read"}
  BY <1>0, <1>1 DEF PhaseInv, MovedInv, Direction, WriteKinds
<1>4. CASE /\ host.complete /\ Transferred /\ host' = [host EXCEPT !.complete = FALSE]
           /\ UNCHANGED <<inStep, dev>>
  <2>1. ControlTyped' /\ CallTyped' /\ WireTyped'
    BY <1>0, <1>1, <1>2, <1>4, Controls, Parts, HostTypes
    DEF WireTyped, CallTyped
  <2> QED
    BY <1>0, <1>1, <1>4, <2>1, TypeFromParts, Completes
<1>5. CASE /\ Retry /\ (inStep' <=> inStep /\ Stuck) /\ inStep' \in BOOLEAN
           /\ UNCHANGED <<host, dev>>
  <2>1. ControlTyped' /\ CallTyped' /\ WireTyped'
    BY <1>0, <1>1, <1>2, <1>5, Controls, Parts DEF WireTyped
  <2> QED
    BY <1>0, <1>1, <1>3, <1>5, <2>1, TypeFromParts, Retries
<1>6. CASE /\ dev' = BlockLost /\ host' \in {Quiet, [host EXCEPT !.left = 0]} /\ Retry
           /\ UNCHANGED inStep
  <2>1. ControlTyped' /\ CallTyped' /\ WireTyped'
    BY <1>0, <1>1, <1>2, <1>6, Controls, Parts, HostTypes, CallsTyped, Loses
    DEF WireTyped, CallTyped
  <2>2. base > 0 => host'.dat \in {"idle", "read"}
    BY <1>0, <1>3, <1>6, HostTypes
  <2> QED
    BY <1>0, <1>1, <1>6, <2>1, <2>2, TypeFromParts, Retries
<1>7. inStep \in BOOLEAN /\ Stuck \in BOOLEAN
  BY <1>0 DEF TypeOK, CallsTypeOK, Stuck
<1> QED
  BY <1>0, <1>4, <1>5, <1>6, <1>7 DEF DmaWait

\* A block through the data port, or the end of the attempt.
LEMMA PioBlocks == SdhciInv /\ PioBlock => TypeOK' /\ Rest'
<1> SUFFICES ASSUME SdhciInv, PioBlock PROVE TypeOK' /\ Rest'
  OBVIOUS
<1>0. TypeOK /\ pc = "PioBlock"
  BY DEF SdhciInv, PioBlock
<1>1. op' = op /\ calls' = calls /\ inStep' = inStep /\ setup' = setup
  BY DEF PioBlock
<1>2. CASE /\ (CanRead /\ TakeBlock) \/ (CanWrite /\ GiveBlock)
           /\ BlockPasses
           /\ Goto(IF at' = Count THEN "PioWait" ELSE "PioBlock")
  <2>1. /\ base' = base /\ result' = result
        /\ pc' = IF at' = Count THEN "PioWait" ELSE "PioBlock"
    BY <1>2 DEF Goto
  <2> QED
    BY <1>0, <1>1, <1>2, <2>1, Passing
<1>3. CASE /\ Fail /\ UNCHANGED <<at, moved, store>> /\ host' = Quiet
           /\ dev' \in {dev, BlockLost}
  <2>1. ControlTyped' /\ CallTyped' /\ WireTyped'
    BY <1>0, <1>1, <1>3, Controls, CallKept, Parts, HostTypes, CallsTyped, Loses DEF WireTyped
  <2> QED
    BY <1>1, <1>3, <2>1, TypeFromParts, Fails
<1> QED
  BY <1>2, <1>3 DEF PioBlock

\* The wait for the end of a transfer through the data port.
LEMMA PioWaits == SdhciInv /\ PioWait => TypeOK' /\ Rest'
<1> SUFFICES ASSUME SdhciInv, PioWait PROVE TypeOK' /\ Rest'
  OBVIOUS
<1>0. TypeOK /\ pc = "PioWait"
  BY DEF SdhciInv, PioWait
<1>1. UNCHANGED <<op, at, moved, calls, inStep, setup, dev, store>>
  BY DEF PioWait
<1>2. CASE host.complete /\ Transferred /\ host' = [host EXCEPT !.complete = FALSE]
  <2>1. ControlTyped' /\ CallTyped' /\ WireTyped'
    BY <1>0, <1>1, <1>2, Controls, CallKept, Parts, HostTypes DEF WireTyped
  <2> QED
    BY <1>0, <1>1, <1>2, <2>1, TypeFromParts, Completes
<1>3. CASE host' = Quiet /\ Fail
  <2>1. ControlTyped' /\ CallTyped' /\ WireTyped'
    BY <1>0, <1>1, <1>3, Controls, CallKept, Parts, HostTypes DEF WireTyped
  <2> QED
    BY <1>1, <1>3, <2>1, TypeFromParts, Fails
<1> QED
  BY <1>2, <1>3 DEF PioWait

-----------------------------------------------------------------------------
(* The commands without data.                                              *)

\* What a command without data may leave on the wire, whether heard or not.
Sent(cmd) ==
    /\ dev' = dev \/ (Legal(cmd) /\ dev' = Obeyed(cmd))
    /\ store' \in {store, StoreAfter(cmd)}
    /\ host' \in {[host EXCEPT !.complete = FALSE], Quiet, [Quiet EXCEPT !.dat = "busy"]}

\* It is well-formed.
LEMMA SentTyped ==
    ASSUME TypeOK, NEW index \in PlainIndex, NEW addr \in Nat, Sent(Command(index, addr))
    PROVE  WireTyped'
BY CallsTyped, ObeyedPlain, HostTypes, Parts DEF Sent, WireTyped

\* A call that moves no blocks goes on, or returns.
LEMMA GoesOn ==
    ASSUME SdhciInv, op.kind \in {"status", "erase"}, op' = op, moved' = moved,
           \/ Finish
           \/ pc # "Idle" /\ op.kind = "erase" /\ (Goto("Cmd33") \/ Goto("Cmd38"))
    PROVE  Rest'
<1>0. CallInv /\ MovedInv /\ op.kind \notin BlockKinds
  BY DEF SdhciInv, BlockKinds, ReadKinds, WriteKinds
<1>1. \/ pc' = "Idle" /\ result' = "ok" /\ base' = base
      \/ /\ pc' \in {"Cmd33", "Cmd38"} /\ result' = "running" /\ base' = base
         /\ op.kind = "erase"
  BY <1>0 DEF Finish, Goto, CallInv
<1>2. CallInv' /\ MovedInv'
  BY <1>0, <1>1 DEF CallInv, MovedInv, IssuePcs, PhasePcs
<1>3. PhaseInv' /\ TurnInv' /\ ContentInv' /\ DoneInv'
  BY <1>0, <1>1 DEF PhaseInv, TurnInv, ContentInv, DoneInv, IssuePcs, PhasePcs
<1> QED
  BY <1>2, <1>3 DEF Rest

\* CMD12 finds a card that waits for a command: it gets no answer.
LEMMA Cmd12s == SdhciInv /\ Cmd12 => TypeOK' /\ Rest'
<1> SUFFICES ASSUME SdhciInv, Cmd12 PROVE TypeOK' /\ Rest'
  OBVIOUS
<1> DEFINE c == Command("stop", 0)
<1>0. TypeOK /\ UNCHANGED <<op, at, moved, calls, inStep, setup>>
  BY DEF SdhciInv, Cmd12, Plain
<1>1. ~Legal(c)
  BY DEF SdhciInv, DoneInv, Cmd12, Legal, Command
<1>2. Fail /\ Sent(c)
  BY <1>1 DEF Cmd12, Send, Sent
<1>3. WireTyped'
  BY <1>0, <1>2, SentTyped DEF PlainIndex
<1> QED
  BY <1>0, <1>2, <1>3, Controls, CallKept, TypeFromParts, Fails

\* A command of status or of erase.
LEMMA PlainStep ==
    ASSUME SdhciInv, NEW index \in PlainIndex, NEW addr \in Nat,
           op.kind \in {"status", "erase"}, Plain, Sent(Command(index, addr)),
           \/ Fail \/ Finish
           \/ pc # "Idle" /\ op.kind = "erase" /\ (Goto("Cmd33") \/ Goto("Cmd38"))
    PROVE  TypeOK' /\ Rest'
<1>0. TypeOK /\ UNCHANGED <<op, at, moved, calls, inStep, setup>>
  BY DEF SdhciInv, Plain
<1>1. ControlTyped' /\ CallTyped' /\ WireTyped'
  BY <1>0, Controls, CallKept, SentTyped DEF PcSet
<1> QED
  BY <1>0, <1>1, TypeFromParts, Fails, GoesOn

\* The status command ends its call.
LEMMA Cmd13s == SdhciInv /\ Cmd13 => TypeOK' /\ Rest'
<1> SUFFICES ASSUME SdhciInv, Cmd13 PROVE TypeOK' /\ Rest'
  OBVIOUS
<1>1. op.kind = "status"
  BY DEF SdhciInv, CallInv, Cmd13
<1>2. Sent(Command("status", 0)) /\ (Fail \/ Finish)
  BY DEF Cmd13, Send, Sent
<1> QED
  BY <1>1, <1>2, PlainStep DEF PlainIndex, Cmd13

\* CMD38 erases the range and ends its call.
LEMMA Cmd38s == SdhciInv /\ Cmd38 => TypeOK' /\ Rest'
<1> SUFFICES ASSUME SdhciInv, Cmd38 PROVE TypeOK' /\ Rest'
  OBVIOUS
<1>1. op.kind = "erase"
  BY DEF SdhciInv, CallInv, Cmd38
<1>2. Sent(Command("erase", 0)) /\ (Fail \/ Finish)
  BY DEF Cmd38, Send, Sent
<1> QED
  BY <1>1, <1>2, PlainStep DEF PlainIndex, Cmd38

\* CMD32 names the first block of the range.
LEMMA Cmd32s == SdhciInv /\ Cmd32 => TypeOK' /\ Rest'
<1> SUFFICES ASSUME SdhciInv, Cmd32 PROVE TypeOK' /\ Rest'
  OBVIOUS
<1>1. op.kind = "erase" /\ pc # "Idle" /\ op.first \in Nat
  BY CallsTyped, Counts DEF SdhciInv, CallInv, Cmd32
<1>2. Sent(Command("eraseStart", op.first)) /\ (Fail \/ Goto("Cmd33"))
  BY DEF Cmd32, Send, Sent
<1> QED
  BY <1>1, <1>2, PlainStep DEF PlainIndex, Cmd32

\* CMD33 names the last block of the range.
LEMMA Cmd33s == SdhciInv /\ Cmd33 => TypeOK' /\ Rest'
<1> SUFFICES ASSUME SdhciInv, Cmd33 PROVE TypeOK' /\ Rest'
  OBVIOUS
<1> DEFINE end == op.first + op.count - 1
<1>1. op.kind = "erase" /\ pc # "Idle" /\ op.first \in Nat /\ op.count \in Nat /\ op.count > 0
  BY CallsTyped, Counts DEF SdhciInv, CallInv, MovedInv, Cmd33
<1>2. Sent(Command("eraseEnd", end)) /\ (Fail \/ Goto("Cmd38")) /\ Plain
  BY DEF Cmd33, Send, Sent
<1>3. end \in Nat
  BY <1>1
<1> HIDE DEF end
<1> QED
  BY <1>1, <1>2, <1>3, PlainStep DEF PlainIndex

-----------------------------------------------------------------------------
(* The callers.                                                            *)

\* A call that begins has moved nothing.
LEMMA Begins ==
    ASSUME SdhciInv, inStep' \in BOOLEAN, CallBegins
    PROVE  TypeOK' /\ Rest'
<1>0. TypeOK
  BY DEF SdhciInv
<1>1. /\ pc' \in {"Attempt", "Cmd13", "Cmd32"} /\ result' = "running" /\ moved' = <<>>
      /\ base' = 0 /\ at' = 0 /\ calls' = calls + 1 /\ UNCHANGED <<setup, host, dev, store>>
  BY DEF CallBegins
<1>2. /\ op' \in Operation /\ Len(moved') = 0 /\ Len(moved') <= op'.count
      /\ moved' \in Seq(Data \cup {"switched"})
  BY <1>1 DEF CallBegins, Operation
<1>3. TypeOK'
  <2>1. ControlTyped' /\ WireTyped'
    BY <1>0, <1>1, Parts DEF ControlTyped, WireTyped, PcSet
  <2>2. CallTyped'
    BY <1>0, <1>1, <1>2 DEF CallTyped, TypeOK, CallsTypeOK
  <2> QED
    BY <2>1, <2>2, TypeFromParts
<1>4. CallInv' /\ MovedInv'
  BY <1>1, <1>2 DEF CallBegins, CallInv, MovedInv, IssuePcs, PhasePcs
<1>5. PhaseInv' /\ TurnInv' /\ DoneInv'
  BY <1>1 DEF PhaseInv, TurnInv, DoneInv, PhasePcs
<1>6. ContentInv'
  <2>1. Progress' = 0 /\ pc' \notin PhasePcs
    BY <1>1 DEF Progress, PhasePcs
  <2> QED
    BY <2>1 DEF ContentInv
<1> QED
  BY <1>3, <1>4, <1>5, <1>6 DEF Rest

\* A bring-up is no block call.
LEMMA BringsUp == SdhciInv /\ (\E reset \in BOOLEAN : BringUp(reset)) => TypeOK' /\ Rest'
<1> SUFFICES ASSUME SdhciInv, NEW reset \in BOOLEAN, BringUp(reset) PROVE TypeOK' /\ Rest'
  OBVIOUS
<1>0. TypeOK
  BY DEF SdhciInv
<1>1. /\ op' = [kind |-> IF reset THEN "reset" ELSE "init", first |-> 0, count |-> 0,
                data |-> <<>>]
      /\ pc' = "Idle" /\ result' = "ok" /\ moved' = <<>> /\ base' = 0 /\ at' = 0
      /\ calls' = calls + 1 /\ inStep' = FALSE /\ UNCHANGED <<setup, store>>
      /\ dev' = Do("tran") /\ host' \in {Quiet, [host EXCEPT !.complete = FALSE]}
  BY DEF BringUp, BringUpCall
<1>2. /\ op' \in Operation /\ op'.kind \in {"reset", "init"} /\ op'.count = 0
      /\ Len(moved') = 0 /\ moved' \in Seq(Data \cup {"switched"})
  BY <1>1 DEF Operation, Kinds
<1>3. TypeOK'
  <2>1. ControlTyped'
    BY <1>1 DEF ControlTyped, PcSet
  <2>2. CallTyped'
    <3>1. at' \in Nat /\ calls' \in Nat
      BY <1>0, <1>1 DEF TypeOK, CallsTypeOK
    <3>3. inStep' \in BOOLEAN
      BY <1>1
    <3>2. setup' \in [highCapacity : BOOLEAN, dma : BOOLEAN] /\ Len(moved') <= op'.count
      BY <1>0, <1>1, <1>2 DEF TypeOK, CallsTypeOK
    <3> QED
      BY <1>2, <3>1, <3>2, <3>3 DEF CallTyped
  <2>3. WireTyped'
    BY <1>0, <1>1, CallsTyped, Becomes, HostTypes, Parts DEF WireTyped, CardStates
  <2> QED
    BY <2>1, <2>2, <2>3, TypeFromParts
<1>4. CallInv' /\ MovedInv'
  BY <1>1, <1>2 DEF CallInv, MovedInv, IssuePcs, PhasePcs, WriteKinds
<1>5. PhaseInv' /\ TurnInv' /\ ContentInv' /\ DoneInv'
  BY <1>1, <1>2
  DEF PhaseInv, TurnInv, ContentInv, DoneInv, IssuePcs, PhasePcs, BlockKinds, ReadKinds,
      WriteKinds
<1> QED
  BY <1>3, <1>4, <1>5 DEF Rest

-----------------------------------------------------------------------------
(* The hardware.                                                           *)

\* handle_irq and a card that sends its one block to nobody: neither happens in a
\* data phase that has not ended.
LEMMA Acknowledges == SdhciInv /\ HandleIrq => TypeOK' /\ Rest'
<1> SUFFICES ASSUME SdhciInv, HandleIrq PROVE TypeOK' /\ Rest'
  OBVIOUS
<1>0. TypeOK /\ CallInv /\ MovedInv /\ DoneInv
  BY DEF SdhciInv
<1>1. /\ UNCHANGED <<pc, op, result, base, at, moved, calls, inStep, setup, dev, store>>
      /\ pc = "Idle" /\ host' = [host EXCEPT !.complete = FALSE]
  BY DEF HandleIrq
<1>2. host' \in Host /\ host'.dat = host.dat /\ result # "running"
  BY <1>0, <1>1, HostTypes DEF CallInv
<1>3. TypeOK'
  BY <1>0, <1>1, <1>2 DEF TypeOK, CallsTypeOK
<1>4. CallInv' /\ MovedInv'
  BY <1>0, <1>1 DEF CallInv, MovedInv, IssuePcs, PhasePcs, Count
<1>5. PhaseInv' /\ TurnInv' /\ ContentInv' /\ DoneInv'
  BY <1>0, <1>1, <1>2 DEF PhaseInv, TurnInv, ContentInv, DoneInv, IssuePcs, PhasePcs
<1> QED
  BY <1>3, <1>4, <1>5 DEF Rest

\* What the hardware does between the steps of the driver leaves the call alone.
LEMMA Behind ==
    ASSUME SdhciInv, UNCHANGED <<pc, op, result, base, at, moved, calls, inStep, setup>>,
           WireTyped', PhaseInv', TurnInv', ContentInv', DoneInv'
    PROVE  TypeOK' /\ Rest'
<1>0. TypeOK /\ CallInv /\ MovedInv
  BY DEF SdhciInv
<1>1. ControlTyped' /\ CallTyped'
  BY <1>0, Parts DEF ControlTyped, CallTyped
<1>2. CallInv' /\ MovedInv'
  BY <1>0 DEF CallInv, MovedInv, IssuePcs, PhasePcs, Count
<1> QED
  BY <1>1, <1>2, TypeFromParts DEF Rest

\* The end of a busy period leaves what the driver knows as it is.
LEMMA Busies == SdhciInv /\ BusyEnds => TypeOK' /\ Rest'
<1> SUFFICES ASSUME SdhciInv, BusyEnds PROVE TypeOK' /\ Rest'
  OBVIOUS
<1>0. TypeOK /\ CallInv /\ MovedInv /\ PhaseInv /\ TurnInv /\ ContentInv /\ DoneInv
  BY DEF SdhciInv
<1>1. /\ UNCHANGED <<pc, op, result, base, at, moved, calls, inStep, setup, store>>
      /\ dev.state = "prg"
      /\ host' = IF CanEnd THEN [Quiet EXCEPT !.complete = TRUE] ELSE host
  BY DEF BusyEnds
<1>2. dev' \in Device /\ dev'.state = "tran"
  BY <1>0 DEF BusyEnds, TypeOK, CallsTypeOK, Device, CardStates
<1>3. CanEnd => host' \in Host /\ host'.dat = "idle" /\ host'.complete
  BY <1>0, <1>1, HostTypes
<1>4. ~CanEnd => host' = host
  BY <1>1
<1>5. WireTyped'
  BY <1>0, <1>1, <1>2, <1>3, <1>4, Parts DEF WireTyped
<1>6. TurnInv' /\ DoneInv'
  BY <1>0, <1>1, <1>2, <1>3, <1>4 DEF TurnInv, DoneInv
<1>7. ContentInv'
  BY <1>0, <1>1 DEF ContentInv, Progress
<1>8. PhaseInv'
  <2> SUFFICES ASSUME pc \in PhasePcs PROVE PhaseInv'
    BY <1>1 DEF PhaseInv
  <2>1. /\ Count' = Count /\ Start' = Start /\ Direction' = Direction /\ Asked' = Asked
        /\ at \in Nat /\ Count \in Nat /\ Asked \in Nat
    BY <1>0, <1>1, CallsTyped, Counts, Asking
    DEF Count, Start, Direction, Asked, TypeOK, CallsTypeOK
  <2>2. /\ host.dat # "idle" /\ host.left = 0 /\ at + host.left = Asked
        /\ op.kind \in WriteKinds /\ host.dat = "write"
    BY <1>0, <1>1 DEF PhaseInv, Direction
  <2>3. CanEnd /\ at = Asked
    BY <1>1, <2>1, <2>2 DEF CanEnd
  <2> QED
    BY <1>0, <1>1, <1>2, <1>3, <2>1, <2>3 DEF PhaseInv
<1> QED
  BY <1>1, <1>5, <1>6, <1>7, <1>8, Behind

\* A data phase nobody waits for ends behind the driver's back.
LEMMA GoesUnheard == SdhciInv /\ Unheard => TypeOK' /\ Rest'
<1> SUFFICES ASSUME SdhciInv, Unheard PROVE TypeOK' /\ Rest'
  OBVIOUS
<1>0. TypeOK /\ PhaseInv /\ TurnInv /\ ContentInv /\ DoneInv
  BY DEF SdhciInv
<1>1. /\ UNCHANGED <<pc, op, result, base, at, moved, calls, inStep, setup, host, store>>
      /\ dev.state \in {"status", "data"} /\ host.dat # "read" /\ dev' = Do("tran")
  BY DEF Unheard
<1>2. dev' \in Device /\ dev'.state = "tran"
  BY <1>0, <1>1, CallsTyped, Becomes DEF CardStates
<1>3. WireTyped'
  BY <1>0, <1>1, <1>2, Parts DEF WireTyped
<1>4. pc \notin PhasePcs
  BY <1>0, <1>1 DEF PhaseInv, Direction
<1>5. TurnInv' /\ DoneInv' /\ PhaseInv' /\ ContentInv'
  BY <1>0, <1>1, <1>2, <1>4 DEF TurnInv, DoneInv, PhaseInv, ContentInv, Progress
<1> QED
  BY <1>1, <1>3, <1>5, Behind

\* The engine moves a block while the driver waits for it, or behind its back: then
\* no call is reading or writing, or it has moved nothing it relies on yet.
LEMMA EngineSteps == SdhciInv /\ EngineMoves => TypeOK' /\ Rest'
<1> SUFFICES ASSUME SdhciInv, EngineMoves PROVE TypeOK' /\ Rest'
  OBVIOUS
<1>0. TypeOK /\ CallInv /\ MovedInv /\ PhaseInv /\ TurnInv /\ ContentInv /\ DoneInv
  BY DEF SdhciInv
<1>1. UNCHANGED <<pc, op, result, base, calls, inStep, setup>> /\ BlockPasses /\ host.dma
  BY DEF EngineMoves
<1>2. CASE pc = "DmaWait"
  <2>1. (CanRead /\ TakeBlock) \/ (CanWrite /\ GiveBlock)
    BY <1>2 DEF EngineMoves
  <2> QED
    BY <1>1, <1>2, <2>1, Passing
<1>3. CASE pc # "DmaWait"
  <2>1. /\ CanRead \/ CanWrite
        /\ moved' = moved /\ at' = at
        /\ \/ store' = store
           \/ CanWrite /\ \E d \in Data : store' = [store EXCEPT ![dev.block] = d]
    BY <1>3 DEF EngineMoves
  <2>2. host.dat \in {"read", "write"} /\ (CanWrite => host.dat = "write")
    BY <2>1 DEF CanRead, CanWrite
  <2>3. pc \notin PhasePcs
    BY <1>0, <1>1, <1>3, <2>2 DEF PhaseInv
  <2>4. dev' \in Device /\ host' \in Host /\ (host'.dat = host.dat \/ host'.dat = "idle")
    BY <1>0, <1>1, <2>1, Passes
  <2>5. store' \in [Blocks -> Data]
    <3>1. store \in [Blocks -> Data]
      BY <1>0 DEF TypeOK, CallsTypeOK
    <3> QED
      BY <2>1, <3>1
  <2>6. WireTyped'
    BY <2>4, <2>5 DEF WireTyped
  <2>7. PhaseInv' /\ TurnInv' /\ DoneInv'
    BY <1>0, <1>1, <2>2, <2>3, <2>4 DEF PhaseInv, TurnInv, DoneInv
  <2>8. ContentInv'
    <3>1. Progress' = base /\ Progress = base /\ base \in Nat
      BY <1>0, <1>1, <2>3 DEF Progress, TypeOK, CallsTypeOK
    <3>2. CASE store' = store
      BY <1>0, <1>1, <2>1, <2>3, <3>1, <3>2 DEF ContentInv
    <3>3. CASE host.dat = "write"
      <4>1. result = "running" /\ op.kind \in BlockKinds => base = 0
        <5>1. ASSUME result = "running", op.kind \in BlockKinds, base > 0 PROVE FALSE
          <6>1. pc \notin IssuePcs
            BY <1>0, <3>3, <5>1 DEF TurnInv
          <6>2. op.kind = "readBlocks"
            BY <1>0, <5>1 DEF MovedInv
          <6> QED
            BY <1>0, <2>3, <5>1, <6>1, <6>2
            DEF CallInv, IssuePcs, PhasePcs, TypeOK, CallsTypeOK, PcSet
        <5> QED
          BY <3>1, <5>1
      <4> QED
        BY <1>1, <2>3, <3>1, <4>1 DEF ContentInv
    <3> QED
      BY <2>1, <2>2, <3>2, <3>3
  <2> QED
    BY <1>1, <2>1, <2>6, <2>7, <2>8, Behind
<1> QED
  BY <1>2, <1>3

-----------------------------------------------------------------------------
(* The invariant, and what follows from it.                                *)

\* It holds before the first call.
LEMMA InitEstablishes == Init => SdhciInv
<1> SUFFICES ASSUME Init PROVE SdhciInv
  OBVIOUS
<1>1. /\ pc = "Idle" /\ result = "none" /\ base = 0 /\ at = 0 /\ moved = <<>>
      /\ calls = 0 /\ inStep = FALSE /\ store \in Contents
      /\ op = [kind |-> "init", first |-> 0, count |-> 0, data |-> <<>>]
      /\ setup \in [highCapacity : HighCapacity, dma : DmaInstalled]
      /\ dev = [state |-> "tran", block |-> 0, multi |-> FALSE, seq |-> <<>>]
      /\ host = Quiet
  BY DEF Init, CallsInit
<1>2. /\ op \in Operation /\ op.kind = "init" /\ op.count = 0 /\ Len(moved) = 0
      /\ moved \in Seq(Data \cup {"switched"}) /\ dev \in Device
  BY <1>1 DEF Operation, Kinds, Device, CardStates
<1>3. setup \in [highCapacity : BOOLEAN, dma : BOOLEAN] /\ store \in [Blocks -> Data]
  BY <1>1, SetupAssumption, ContentsAssumption
<1>4. host \in Host
  <2>1. 0 \in 0 .. CountLimit - 1
    BY LimitsAssumption
  <2> QED
    BY <1>1, <2>1 DEF Quiet, Host
<1>5. TypeOK
  <2>1. CallsTypeOK
    <3>1. inStep \in BOOLEAN /\ result \in {"none", "running", "ok", "err"}
      BY <1>1
    <3>2. base \in Nat /\ at \in Nat /\ calls \in Nat /\ Len(moved) <= op.count
      BY <1>1, <1>2
    <3> QED
      BY <1>2, <1>3, <3>1, <3>2 DEF CallsTypeOK
  <2> QED
    BY <1>1, <1>4, <2>1 DEF TypeOK, PcSet
<1>6. CallInv /\ MovedInv
  BY <1>1, <1>2 DEF CallInv, MovedInv, IssuePcs, PhasePcs, WriteKinds
<1>7. PhaseInv /\ TurnInv /\ ContentInv /\ DoneInv
  BY <1>1 DEF PhaseInv, TurnInv, ContentInv, DoneInv, IssuePcs, PhasePcs
<1> QED
  BY <1>5, <1>6, <1>7 DEF SdhciInv

\* Every step keeps the invariant.
LEMMA NextPreserves == SdhciInv /\ [Next]_vars => SdhciInv'
<1> SUFFICES ASSUME SdhciInv, [Next]_vars PROVE SdhciInv'
  OBVIOUS
<1>1. CASE Next
  <2>1. CASE DriverStep
    BY <2>1, Attempts, DmaIssues, DmaWaits, PioIssues, PioBlocks, PioWaits, Cmd12s, Cmd13s,
       Cmd32s, Cmd33s, Cmd38s
    DEF DriverStep, SdhciInv, Rest
  <2>2. CASE User
    <3>1. Ready \in BOOLEAN
      BY DEF Ready
    <3>2. inStep' = Ready => inStep' \in BOOLEAN
      BY <3>1
    <3> QED
      BY <2>2, <3>2, CallsBegin, Begins, BringsUp, Acknowledges DEF User, SdhciInv, Rest
  <2>3. CASE Hardware
    BY <2>3, EngineSteps, Busies, GoesUnheard DEF Hardware, SdhciInv, Rest
  <2> QED
    BY <1>1, <2>1, <2>2, <2>3 DEF Next
<1>2. CASE UNCHANGED vars
  <2>1. UNCHANGED <<pc, op, result, base, at, moved, calls, inStep, setup, host, dev, store>>
    BY <1>2 DEF vars
  <2>2. /\ TypeOK /\ CallInv /\ MovedInv /\ PhaseInv /\ TurnInv /\ ContentInv /\ DoneInv
    BY DEF SdhciInv
  <2>3. TypeOK'
    BY <2>1, <2>2 DEF TypeOK, CallsTypeOK
  <2>4. WireTyped'
    BY <2>1, <2>2, Parts DEF WireTyped
  <2>5. PhaseInv' /\ TurnInv' /\ ContentInv' /\ DoneInv'
    BY <2>1, <2>2
    DEF PhaseInv, TurnInv, ContentInv, DoneInv, Progress, Count, Start, Direction, Asked
  <2> QED
    BY <2>1, <2>4, <2>5, Behind DEF SdhciInv, Rest
<1> QED
  BY <1>1, <1>2

\* The inductive invariant holds in every reachable state.
THEOREM Inductive == Spec => []SdhciInv
<1>1. Init => SdhciInv
  BY InitEstablishes
<1>2. SdhciInv /\ [Next]_vars => SdhciInv'
  BY NextPreserves
<1> QED
  BY <1>1, <1>2, PTL DEF Spec

\* Every variable keeps its type.
THEOREM TypeCorrect == Spec => []TypeOK
<1>1. SdhciInv => TypeOK
  BY DEF SdhciInv
<1> QED
  BY <1>1, Inductive, PTL

\* After a block call that succeeded the next one can begin: the card waits for a
\* command and nothing occupies the data lines.
THEOREM CardReady == Spec => []LeavesCardReady
<1>1. SdhciInv => LeavesCardReady
  BY DEF SdhciInv, DoneInv, LeavesCardReady, BlockKinds
<1> QED
  BY <1>1, Inductive, PTL

\* A data phase that completes the call has moved all of its blocks.
LEMMA MovedAll ==
    ASSUME SdhciInv, pc \in {"DmaWait", "PioWait"}, host.complete, Transferred,
           op.kind \in BlockKinds, result' = "ok"
    PROVE  /\ Len(moved) = op.count
           /\ \A i \in 1 .. op.count : moved[i] = store[op.first + i - 1]
           /\ op.kind \in WriteKinds => moved = op.data
<1>0. TypeOK /\ CallInv /\ MovedInv /\ PhaseInv /\ ContentInv
  BY DEF SdhciInv
<1>1. Count \in Nat /\ at \in Nat /\ base \in Nat /\ op.count \in Nat /\ Len(moved) \in Nat
  BY <1>0, CallsTyped, Counts DEF TypeOK, CallsTypeOK
<1>2. result = "running" /\ op.count > 0 /\ pc \in PhasePcs
  BY <1>0 DEF CallInv, PhasePcs
<1>3. at = Count
  <2>1. host.dat = "idle" /\ at = Asked
    BY <1>0, <1>2 DEF PhaseInv
  <2>2. pc = "DmaWait" => Count < CountLimit
    BY <1>0, <1>1, LimitsAssumption DEF CallInv
  <2>3. pc = "PioWait" => at = Count
    BY <1>0, <1>2 DEF PhaseInv
  <2> QED
    BY <1>0, <1>1, <2>1, <2>2, <2>3, Asking
<1>4. ~(op.kind = "readBlocks" /\ base + 1 < op.count)
  BY <1>2 DEF Transferred
<1>5. base + at = op.count
  <2>1. CASE op.kind = "readBlocks"
    <3>1. base < op.count
      BY <1>0, <1>1, <1>2 DEF MovedInv
    <3> QED
      BY <1>1, <1>3, <1>4, <2>1, <3>1 DEF Count
  <2>2. CASE op.kind # "readBlocks"
    BY <1>0, <1>1, <1>3, <2>2 DEF MovedInv, Count
  <2> QED
    BY <2>1, <2>2
<1>6. Len(moved) = op.count
  BY <1>0, <1>1, <1>2, <1>5 DEF MovedInv, TypeOK, CallsTypeOK
<1>7. \A i \in 1 .. op.count : moved[i] = store[op.first + i - 1]
  BY <1>0, <1>2, <1>5 DEF ContentInv, Progress
<1>8. op.kind \in WriteKinds => moved = op.data
  <2> SUFFICES ASSUME op.kind \in WriteKinds PROVE moved = op.data
    OBVIOUS
  <2>1. op.data \in Seq(Data) /\ moved \in Seq(Data \cup {"switched"})
    BY <1>0 DEF TypeOK, CallsTypeOK, Operation
  <2>2. Len(op.data) = op.count /\ at = op.count
    BY <1>0, <1>1, <1>3 DEF MovedInv, Count, WriteKinds
  <2>3. \A i \in 1 .. op.count : moved[i] = op.data[i]
    BY <1>0, <1>2, <2>2 DEF ContentInv
  <2> QED
    BY <1>1, <1>6, <2>1, <2>2, <2>3
<1> QED
  BY <1>6, <1>7, <1>8

\* What a call that returns success reports is true of the card, whatever attempts
\* failed before, whatever the hardware did behind the driver's back.
THEOREM OkIsTrueHolds == Spec => OkIsTrue
<1> DEFINE Claim == result = "running" /\ result' = "ok" /\ op.kind \in BlockKinds =>
                       /\ Len(moved) = op.count
                       /\ \A i \in 1 .. op.count : moved[i] = store[op.first + i - 1]
                       /\ op.kind \in WriteKinds => moved = op.data
<1>1. SdhciInv /\ [Next]_vars => Claim
  <2> SUFFICES ASSUME SdhciInv, [Next]_vars, result = "running", result' = "ok",
                      op.kind \in BlockKinds
               PROVE  /\ Len(moved) = op.count
                      /\ \A i \in 1 .. op.count : moved[i] = store[op.first + i - 1]
                      /\ op.kind \in WriteKinds => moved = op.data
    OBVIOUS
  <2>0. TypeOK /\ CallInv /\ MovedInv /\ DoneInv /\ pc # "Idle"
    BY DEF SdhciInv, CallInv
  <2>1. result' # result /\ Next
    BY DEF vars
  <2>2. DriverStep
    <3>1. ~User
      BY <2>0, <2>1
      DEF User, CallRead, CallWrite, CallDma, CallErase, CallOther, Call, BringUp,
          BringUpCall, HandleIrq
    <3>2. ~Hardware
      BY <2>1 DEF Hardware, EngineMoves, BusyEnds, Unheard
    <3> QED
      BY <2>1, <3>1, <3>2 DEF Next
  <2>3. ~Fail /\ (\A p \in PcSet : ~Goto(p))
    BY <2>1 DEF Fail, Goto
  <2>4. ~Retry
    BY <2>3 DEF Retry, PcSet
  <2>5. CASE Attempt
    <3>1. op.count = 0
      BY <2>3, <2>4, <2>5 DEF Attempt, PcSet
    <3>2. op.kind \notin WriteKinds
      BY <2>0, <3>1 DEF MovedInv
    <3>3. Len(moved) \in Nat /\ Len(moved) <= op.count
      BY <2>0 DEF TypeOK, CallsTypeOK
    <3> QED
      BY <3>1, <3>2, <3>3
  <2>6. CASE DmaIssue \/ PioIssue
    BY <2>3, <2>4, <2>6 DEF DmaIssue, PioIssue, DataCommand, PcSet
  <2>7. CASE DmaWait \/ PioWait
    <3>1. pc \in {"DmaWait", "PioWait"} /\ host.complete /\ Transferred
      BY <2>3, <2>4, <2>7 DEF DmaWait, PioWait
    <3> QED
      BY <3>1, MovedAll
  <2>8. CASE PioBlock
    BY <2>3, <2>8 DEF PioBlock, PcSet
  <2>9. CASE Cmd12
    <3>1. ~Legal(Command("stop", 0))
      BY <2>0, <2>9 DEF DoneInv, Cmd12, Legal, Command
    <3> QED
      BY <2>3, <2>9, <3>1 DEF Cmd12, Send
  <2>10. CASE Cmd13 \/ Cmd32 \/ Cmd33 \/ Cmd38
    BY <2>0, <2>10
    DEF CallInv, Cmd13, Cmd32, Cmd33, Cmd38, BlockKinds, ReadKinds, WriteKinds
  <2> QED
    BY <2>2, <2>5, <2>6, <2>7, <2>8, <2>9, <2>10 DEF DriverStep
<1>2. SdhciInv /\ [Next]_vars =>
         [result = "running" /\ result' = "ok" /\ op.kind \in ReadKinds \cup WriteKinds =>
             /\ Len(moved) = op.count
             /\ \A i \in 1 .. op.count : moved[i] = store[op.first + i - 1]
             /\ op.kind \in WriteKinds => moved = op.data]_vars
  BY <1>1 DEF BlockKinds
<1> QED
  BY <1>2, Inductive, PTL DEF OkIsTrue, Spec

-----------------------------------------------------------------------------
(* What holds besides while a call is in step.                             *)

\* Nothing moves blocks but the data phase of the call.
AloneInv == InStep /\ pc \notin PhasePcs => ~CanRead /\ ~CanWrite

\* What earlier attempts have moved is as it was; the call's own blocks are next.
KeptInv ==
    InStep /\ result = "running" /\ op.kind \in BlockKinds =>
        \A i \in 1 .. Len(moved) :
            /\ moved[i] = store[op.first + i - 1]
            /\ op.kind \in WriteKinds => moved[i] = op.data[i]

\* The card has the range of the erase, or none.
RangeInv ==
    /\ pc = "Cmd33" => dev.seq \in {<<>>, <<op.first>>}
    /\ pc = "Cmd38" /\ Len(dev.seq) = 2 =>
          dev.seq[1] = op.first /\ dev.seq[2] = op.first + op.count - 1

StepInv == AloneInv /\ KeptInv /\ RangeInv

\* What is so of a card or a controller that has nothing to move.
LEMMA LinesFree ==
    ASSUME \/ host'.dat \notin {"read", "write"} \/ host'.left = 0
           \/ dev'.state \in {"tran", "prg"} \/ pc' \in PhasePcs \/ ~InStep'
    PROVE  AloneInv'
BY DEF AloneInv, CanRead, CanWrite

\* A step that starts nothing leaves the card and the controller alone.
LEMMA StaysAlone ==
    ASSUME AloneInv, pc \notin PhasePcs, InStep' => InStep, dev' = dev,
           host'.dat = host.dat, host'.left = host.left
    PROVE  AloneInv'
BY DEF AloneInv, CanRead, CanWrite

\* What a call has moved stays as it is.
LEMMA StaysKept ==
    ASSUME KeptInv, op' = op, moved' = moved, InStep' => InStep,
           result' = "running" /\ op.kind \in BlockKinds => result = "running" /\ store' = store
    PROVE  KeptInv'
BY DEF KeptInv

\* A step that is not one of an erase, or leaves its range to the card or takes it away.
LEMMA NoRange == pc' \notin {"Cmd33", "Cmd38"} => RangeInv'
BY DEF RangeInv

\* A step that changes neither the call nor the card keeps the range.
LEMMA SameRange ==
    ASSUME TypeOK, RangeInv, pc' = pc, op' = op, dev'.seq \in {dev.seq, <<>>}
    PROVE  RangeInv'
BY DEF RangeInv

\* A block that passes leaves the list of blocks to erase, or forgets it.
LEMMA SeqOfPass == TypeOK /\ BlockPasses => dev'.seq \in {dev.seq, <<>>}
<1> SUFFICES ASSUME TypeOK, BlockPasses PROVE dev'.seq \in {dev.seq, <<>>}
  OBVIOUS
<1>1. [dev EXCEPT !.block = @ + 1].seq = dev.seq
  BY DEF TypeOK, CallsTypeOK, Device
<1>2. Do("tran").seq = <<>> /\ Do("prg").seq = <<>>
  BY CallsTyped, Forgets DEF CardStates
<1>3. dev' \in {Do("tran"), Do("prg"), [dev EXCEPT !.block = @ + 1]}
  BY DEF BlockPasses
<1> QED
  BY <1>1, <1>2, <1>3

\* A block that passes in a data phase is one more that is kept.
LEMMA PassKeeps ==
    ASSUME SdhciInv, KeptInv, pc \in {"DmaWait", "PioBlock"},
           (CanRead /\ TakeBlock) \/ (CanWrite /\ GiveBlock), op' = op, inStep' = inStep,
           result' = result
    PROVE  KeptInv'
<1> SUFFICES ASSUME InStep, op.kind \in BlockKinds, NEW i \in 1 .. Len(moved')
             PROVE  /\ moved'[i] = store'[op.first + i - 1]
                    /\ op.kind \in WriteKinds => moved'[i] = op.data[i]
  BY DEF KeptInv, InStep
<1>1. PICK v \in Data \cup {"switched"} : BlockMoved(v)
  BY PassedBlock
<1>2. /\ moved' \in Seq(Data \cup {"switched"})
      /\ Len(moved') = Len(moved) \/ Len(moved') = Place
      /\ Place <= Len(moved')
      /\ moved'[Place] = v
      /\ \A k \in 1 .. Len(moved) : k # Place => moved'[k] = moved[k]
      /\ v = store'[op.first + Place - 1]
      /\ \A k \in Nat : k # Place => store'[op.first + k - 1] = store[op.first + k - 1]
  BY <1>1, BlockEffect
<1>3. /\ Place \in Nat /\ Place <= Len(moved) + 1 /\ result = "running"
      /\ op.kind \in WriteKinds => base = 0
  BY InPhase
<1>4. /\ base \in Nat /\ at \in Nat /\ Len(moved) \in Nat /\ Len(moved') \in Nat /\ i \in Nat
  BY <1>2 DEF SdhciInv, TypeOK, CallsTypeOK
<1>5. CASE i = Place
  <2>1. op.kind \in WriteKinds => Place = at + 1 /\ v = op.data[at + 1]
    BY <1>1, <1>3, <1>4 DEF Place, BlockMoved
  <2> QED
    BY <1>2, <1>5, <2>1
<1>6. CASE i # Place
  <2>1. i \in 1 .. Len(moved)
    BY <1>2, <1>3, <1>4, <1>6
  <2>2. /\ moved[i] = store[op.first + i - 1]
        /\ op.kind \in WriteKinds => moved[i] = op.data[i]
    BY <1>3, <2>1 DEF KeptInv
  <2> QED
    BY <1>2, <1>4, <1>6, <2>1, <2>2
<1> QED
  BY <1>5, <1>6

\* The steps before a data phase, and those that end one.
LEMMA AttemptKeeps == SdhciInv /\ StepInv /\ Attempt => StepInv'
<1> SUFFICES ASSUME SdhciInv, StepInv, Attempt PROVE StepInv'
  OBVIOUS
<1>1. /\ pc = "Attempt" /\ UNCHANGED <<op, moved, inStep, host, dev, store>>
      /\ pc' \in {"Idle", "DmaIssue", "PioIssue"} /\ result = "running"
  BY DEF Attempt, Finish, Goto, Retry, Fail, SdhciInv, CallInv, IssuePcs
<1>2. pc \notin PhasePcs /\ (InStep' => InStep)
  BY <1>1 DEF PhasePcs, InStep
<1> QED
  BY <1>1, <1>2, StaysAlone, StaysKept, NoRange DEF StepInv

\* The steps that issue a data command.
LEMMA IssueKeeps == SdhciInv /\ StepInv /\ (DmaIssue \/ PioIssue) => StepInv'
<1> SUFFICES ASSUME SdhciInv, StepInv, DmaIssue \/ PioIssue PROVE StepInv'
  OBVIOUS
<1>1. /\ pc \in {"DmaIssue", "PioIssue"} /\ UNCHANGED <<op, moved, inStep, store>>
      /\ pc' \in {"Idle", "PioIssue", "DmaWait", "PioBlock"} /\ result = "running"
  BY DEF DmaIssue, PioIssue, DataCommand, Goto, Retry, Fail, SdhciInv, CallInv, IssuePcs
<1>2. pc \notin PhasePcs /\ (InStep' => InStep)
  BY <1>1 DEF PhasePcs, InStep
<1>3. AloneInv'
  <2>1. \/ pc' \in PhasePcs \/ host' = Quiet \/ (host' = host /\ dev' = dev)
    BY DEF DmaIssue, PioIssue, DataCommand, Goto, PhasePcs
  <2>2. Quiet.dat = "idle"
    BY DEF Quiet
  <2> QED
    BY <1>2, <2>1, <2>2, LinesFree, StaysAlone DEF StepInv
<1> QED
  BY <1>1, <1>2, <1>3, StaysKept, NoRange DEF StepInv

\* The steps that wait for a data phase to end.
LEMMA WaitKeeps == SdhciInv /\ StepInv /\ (DmaWait \/ PioWait) => StepInv'
<1> SUFFICES ASSUME SdhciInv, StepInv, DmaWait \/ PioWait PROVE StepInv'
  OBVIOUS
<1>0. TypeOK /\ CallInv /\ PhaseInv
  BY DEF SdhciInv
<1>1. /\ pc \in {"DmaWait", "PioWait"} /\ UNCHANGED <<op, moved, store>>
      /\ (inStep' => inStep) /\ result = "running"
      /\ pc' \in {"Idle", "Attempt", "PioIssue", "Cmd12"}
  <2>1. /\ pc \in {"DmaWait", "PioWait"} /\ UNCHANGED <<op, moved, store>>
        /\ Transferred \/ Retry \/ Fail
    BY DEF DmaWait, PioWait
  <2>2. inStep' => inStep
    BY DEF DmaWait, PioWait
  <2>3. result = "running"
    BY <1>0, <2>1 DEF CallInv, PhasePcs
  <2>4. pc' \in {"Idle", "Attempt", "PioIssue", "Cmd12"}
    BY <2>1 DEF Transferred, Finish, Goto, Retry, Fail
  <2> QED
    BY <2>1, <2>2, <2>3, <2>4
<1>2. InStep' => InStep
  BY <1>1 DEF InStep
<1>3. AloneInv'
  <2>1. CASE host.complete /\ host' = [host EXCEPT !.complete = FALSE]
    <3>1. host.dat = "idle"
      BY <1>0, <1>1, <2>1 DEF PhaseInv, PhasePcs
    <3>2. host'.dat = "idle"
      BY <1>0, <2>1, <3>1, HostTypes
    <3> QED
      BY <3>2, LinesFree
  <2>2. CASE (inStep' => Stuck) /\ UNCHANGED <<host, dev>>
    BY <2>2 DEF Stuck, AloneInv, InStep, CanRead, CanWrite
  <2>3. CASE host' \in {Quiet, [host EXCEPT !.left = 0]}
    <3>1. host'.dat \notin {"read", "write"} \/ host'.left = 0
      BY <1>0, <2>3 DEF Quiet, TypeOK, Host
    <3> QED
      BY <3>1, LinesFree
  <2> QED
    BY <2>1, <2>2, <2>3 DEF DmaWait, PioWait
<1> QED
  BY <1>1, <1>2, <1>3, StaysKept, NoRange DEF StepInv

\* The step that moves a block through the data port.
LEMMA BlockKeeps == SdhciInv /\ StepInv /\ PioBlock => StepInv'
<1> SUFFICES ASSUME SdhciInv, StepInv, PioBlock PROVE StepInv'
  OBVIOUS
<1>1. pc = "PioBlock" /\ UNCHANGED <<op, inStep>> /\ pc' \notin {"Cmd33", "Cmd38"}
  BY DEF PioBlock, Goto, Fail
<1>2. CASE Fail
  <2>1. ~InStep'
    BY <1>2 DEF Fail, InStep
  <2>2. KeptInv'
    BY <2>1 DEF KeptInv
  <2> QED
    BY <1>1, <2>1, <2>2, LinesFree, NoRange DEF StepInv
<1>3. CASE ~Fail
  <2>1. /\ (CanRead /\ TakeBlock) \/ (CanWrite /\ GiveBlock)
        /\ result' = result /\ pc' \in PhasePcs
    BY <1>3 DEF PioBlock, Goto, PhasePcs
  <2> QED
    BY <1>1, <2>1, PassKeeps, LinesFree, NoRange DEF StepInv
<1> QED
  BY <1>2, <1>3

\* A command without data that was obeyed leaves card and controller alone.
LEMMA SentAlone ==
    ASSUME TypeOK, AloneInv, pc \notin PhasePcs, InStep' => InStep,
           NEW index \in PlainIndex, NEW addr \in Nat, Sent(Command(index, addr))
    PROVE  AloneInv'
<1>1. \/ dev' = dev \/ dev'.state \in {"tran", "prg"}
  BY CallsTyped, PlainLeaves DEF Sent
<1>2. CASE dev' = dev /\ host' = [host EXCEPT !.complete = FALSE]
  BY <1>2, HostTypes, StaysAlone
<1>3. CASE host' \in {Quiet, [Quiet EXCEPT !.dat = "busy"]}
  <2>1. host'.dat \in {"idle", "busy"}
    BY <1>3 DEF Quiet
  <2> QED
    BY <2>1, LinesFree
<1> QED
  BY <1>1, <1>2, <1>3, LinesFree DEF Sent

\* The commands of an erase name its range to the card; no command without data
\* touches what a block call has moved.
LEMMA PlainKeeps ==
    SdhciInv /\ StepInv /\ (Cmd12 \/ Cmd13 \/ Cmd32 \/ Cmd33 \/ Cmd38) => StepInv'
<1> SUFFICES ASSUME SdhciInv, StepInv, Cmd12 \/ Cmd13 \/ Cmd32 \/ Cmd33 \/ Cmd38
             PROVE  StepInv'
  OBVIOUS
<1>0. TypeOK /\ CallInv /\ MovedInv /\ DoneInv /\ AloneInv /\ KeptInv /\ RangeInv
  BY DEF SdhciInv, StepInv
<1>1. /\ UNCHANGED <<op, at, moved, calls, inStep, setup>> /\ result = "running"
      /\ pc \in {"Cmd12", "Cmd13", "Cmd32", "Cmd33", "Cmd38"}
  BY <1>0 DEF Cmd12, Cmd13, Cmd32, Cmd33, Cmd38, Plain, CallInv
<1>2. pc \notin PhasePcs /\ (InStep' => InStep)
  BY <1>1 DEF PhasePcs, InStep
<1>3. (op.first \in Nat /\ op.first + op.count - 1 \in Nat) \/ op.kind # "erase"
  BY <1>0, CallsTyped, Counts DEF MovedInv
<1>4. CASE Cmd12
  <2>1. ~Legal(Command("stop", 0))
    BY <1>0, <1>4 DEF DoneInv, Cmd12, Legal, Command
  <2>2. Fail /\ UNCHANGED store
    BY <1>4, <2>1 DEF Cmd12, Send
  <2>3. pc' = "Idle" /\ ~InStep' /\ result' = "err"
    BY <2>2 DEF Fail, InStep
  <2> QED
    BY <1>0, <1>1, <1>2, <2>3, LinesFree, StaysKept, NoRange DEF StepInv
<1>5. CASE Cmd13
  <2>1. Sent(Command("status", 0)) /\ pc' = "Idle" /\ op.kind = "status"
    BY <1>0, <1>5 DEF Cmd13, Send, Sent, Fail, Finish, CallInv
  <2>2. KeptInv'
    BY <1>1, <2>1 DEF KeptInv, BlockKinds, ReadKinds, WriteKinds
  <2> QED
    BY <1>0, <1>1, <1>2, <2>1, <2>2, SentAlone, NoRange DEF StepInv, PlainIndex
<1>6. CASE Cmd32 \/ Cmd33 \/ Cmd38
  <2>1. op.kind = "erase"
    BY <1>0, <1>6 DEF CallInv, Cmd32, Cmd33, Cmd38
  <2>2. KeptInv'
    BY <1>1, <2>1 DEF KeptInv, BlockKinds, ReadKinds, WriteKinds
  <2>3. CASE Cmd32
    <3> DEFINE c == Command("eraseStart", op.first)
    <3>1. Sent(c)
      BY <2>3 DEF Cmd32, Send, Sent
    <3>2. AloneInv'
      BY <1>0, <1>2, <1>3, <2>1, <3>1, CallsTyped, Counts, SentAlone DEF PlainIndex
    <3>3. c.index = "eraseStart" /\ c.block = op.first
      BY <1>0, CallsTyped, Counts, Addressing DEF Command
    <3>4. pc' = "Cmd33" => dev' = Obeyed(c)
      BY <2>3 DEF Cmd32, Send, Fail
    <3> HIDE DEF c
    <3>5. pc' = "Cmd33" => dev'.seq \in {<<>>, <<op.first>>}
      <4>1. Obeyed(c) = Named(<<>>, op.first)
        BY <3>3 DEF Obeyed
      <4>2. Append(<<>>, op.first) = <<op.first>>
        OBVIOUS
      <4> QED
        BY <1>0, <3>4, <4>1, <4>2 DEF Named, TypeOK, CallsTypeOK, Device
    <3>6. pc' # "Cmd38"
      BY <2>3 DEF Cmd32, Send, Fail, Goto
    <3> QED
      BY <1>1, <2>2, <3>2, <3>5, <3>6 DEF StepInv, RangeInv
  <2>4. CASE Cmd33
    <3> DEFINE end == op.first + op.count - 1
               c == Command("eraseEnd", end)
    <3>0. end \in Nat
      BY <1>3, <2>1
    <3> HIDE DEF end
    <3>1. Sent(c)
      BY <2>4 DEF Cmd33, Send, Sent, end
    <3>2. AloneInv'
      BY <1>0, <1>2, <2>1, <3>0, <3>1, SentAlone DEF PlainIndex
    <3>3. c.index = "eraseEnd" /\ c.block = end
      BY <3>0, Addressing DEF Command
    <3>4. pc' = "Cmd38" => dev' = Obeyed(c)
      BY <2>4 DEF Cmd33, Send, Fail, end
    <3>5. dev.seq \in {<<>>, <<op.first>>}
      BY <1>0, <2>4 DEF RangeInv, Cmd33
    <3> HIDE DEF c
    <3>6. ASSUME pc' = "Cmd38", Len(dev'.seq) = 2
          PROVE  dev'.seq[1] = op.first /\ dev'.seq[2] = end
      <4>1. Do("tran").seq = <<>> /\ Len(<<>>) = 0
        BY <1>0, CallsTyped, Forgets DEF CardStates
      <4>2. Len(dev.seq) = 1 /\ dev' = Named(dev.seq, end)
        BY <3>3, <3>4, <3>6, <4>1 DEF Obeyed
      <4>3. dev.seq = <<op.first>>
        BY <3>5, <4>2
      <4>4. dev'.seq \in {<<>>, Append(<<op.first>>, end)}
        BY <1>0, <4>2, <4>3 DEF Named, TypeOK, CallsTypeOK, Device
      <4>5. dev'.seq = <<op.first, end>>
        BY <3>6, <4>1, <4>4
      <4> QED
        BY <4>5
    <3>7. pc' # "Cmd33"
      BY <2>4 DEF Cmd33, Send, Fail, Goto
    <3> QED
      BY <1>1, <2>2, <3>2, <3>6, <3>7 DEF StepInv, RangeInv, end
  <2>5. CASE Cmd38
    <3>1. Sent(Command("erase", 0)) /\ pc' = "Idle"
      BY <2>5 DEF Cmd38, Send, Sent, Fail, Finish
    <3> QED
      BY <1>0, <1>2, <2>2, <3>1, SentAlone, NoRange DEF StepInv, PlainIndex
  <2> QED
    BY <1>6, <2>3, <2>4, <2>5
<1> QED
  BY <1>4, <1>5, <1>6

\* A call begins on a controller at rest, or out of step.
LEMMA UserKeeps == SdhciInv /\ StepInv /\ User => StepInv'
<1> SUFFICES ASSUME SdhciInv, StepInv, User PROVE StepInv'
  OBVIOUS
<1>0. TypeOK
  BY DEF SdhciInv
<1>1. CASE /\ CallRead \/ CallWrite \/ CallDma \/ CallErase \/ CallOther
           /\ inStep' = Ready
  <2>1. /\ moved' = <<>> /\ host' = host /\ pc' \in {"Attempt", "Cmd32", "Cmd13"}
    BY <1>1 DEF CallRead, CallWrite, CallDma, CallErase, CallOther, Call
  <2>2. InStep' => host'.dat = "idle"
    BY <1>1, <2>1 DEF InStep, Ready
  <2>3. Len(moved') = 0
    BY <2>1
  <2>4. KeptInv'
    BY <2>3 DEF KeptInv
  <2> QED
    BY <2>1, <2>2, <2>4, LinesFree, NoRange DEF StepInv
<1>2. CASE \E reset \in BOOLEAN : BringUp(reset)
  <2>1. ~InStep' /\ pc' = "Idle"
    BY <1>2 DEF BringUp, BringUpCall, InStep
  <2> QED
    BY <2>1, LinesFree, NoRange DEF StepInv, KeptInv
<1>3. CASE HandleIrq
  <2>1. /\ UNCHANGED <<pc, op, result, base, at, moved, calls, inStep, setup, dev, store>>
        /\ pc = "Idle" /\ host' = [host EXCEPT !.complete = FALSE]
    BY <1>3 DEF HandleIrq
  <2>2. host'.dat = host.dat /\ host'.left = host.left
    BY <1>0, <2>1, HostTypes
  <2> QED
    BY <2>1, <2>2, StaysAlone, StaysKept, NoRange DEF StepInv, InStep, PhasePcs
<1> QED
  BY <1>1, <1>2, <1>3 DEF User

\* What the hardware does between the steps of the driver.
LEMMA HardwareKeeps == SdhciInv /\ StepInv /\ Hardware => StepInv'
<1> SUFFICES ASSUME SdhciInv, StepInv, Hardware PROVE StepInv'
  OBVIOUS
<1>0. TypeOK /\ AloneInv /\ KeptInv /\ RangeInv
  BY DEF SdhciInv, StepInv
<1>1. CASE EngineMoves
  <2>1. UNCHANGED <<pc, op, result, base, calls, inStep, setup>> /\ BlockPasses
    BY <1>1 DEF EngineMoves
  <2>2. RangeInv'
    BY <1>0, <2>1, SeqOfPass, SameRange
  <2>3. CASE pc = "DmaWait"
    <3>1. (CanRead /\ TakeBlock) \/ (CanWrite /\ GiveBlock)
      BY <1>1, <2>3 DEF EngineMoves
    <3>2. KeptInv'
      BY <1>0, <2>1, <2>3, <3>1, PassKeeps
    <3> QED
      BY <2>1, <2>2, <2>3, <3>2, LinesFree DEF StepInv, PhasePcs
  <2>4. CASE pc # "DmaWait"
    <3>1. pc \notin PhasePcs
      BY <1>1, <2>4, InPhase DEF EngineMoves, SdhciInv, PhaseInv, CanRead, CanWrite
    <3>2. ~InStep'
      BY <1>0, <1>1, <2>1, <3>1 DEF AloneInv, InStep, EngineMoves
    <3> QED
      BY <2>2, <3>2, LinesFree DEF StepInv, KeptInv
  <2> QED
    BY <2>3, <2>4
<1>2. CASE BusyEnds \/ Unheard
  <2>1. UNCHANGED <<pc, op, result, base, at, moved, calls, inStep, setup, store>>
    BY <1>2 DEF BusyEnds, Unheard
  <2>2. dev' \in {[dev EXCEPT !.state = "tran"], Do("tran")}
    BY <1>2 DEF BusyEnds, Unheard
  <2>3. dev'.state = "tran" /\ dev'.seq \in {dev.seq, <<>>}
    BY <1>0, <2>2, CallsTyped, Becomes, Forgets DEF CardStates, TypeOK, CallsTypeOK, Device
  <2>4. KeptInv'
    BY <1>0, <2>1, StaysKept DEF InStep
  <2>5. AloneInv'
    BY <2>3, LinesFree
  <2> QED
    BY <1>0, <2>1, <2>3, <2>4, <2>5, SameRange DEF StepInv
<1> QED
  BY <1>1, <1>2 DEF Hardware

\* Every step keeps the part of the invariant about calls in step.
LEMMA StepInvPreserved == SdhciInv /\ StepInv /\ [Next]_vars => StepInv'
<1> SUFFICES ASSUME SdhciInv, StepInv, [Next]_vars PROVE StepInv'
  OBVIOUS
<1>1. CASE Next
  BY <1>1, AttemptKeeps, IssueKeeps, WaitKeeps, BlockKeeps, PlainKeeps, UserKeeps,
     HardwareKeeps
  DEF Next, DriverStep
<1>2. CASE UNCHANGED vars
  BY <1>2
  DEF vars, StepInv, AloneInv, KeptInv, RangeInv, InStep, CanRead, CanWrite
<1> QED
  BY <1>1, <1>2

\* The part of the invariant that is about calls in step.
LEMMA InStepInvariant == Spec => []StepInv
<1>1. Init => StepInv
  BY DEF Init, CallsInit, StepInv, AloneInv, KeptInv, RangeInv, InStep
<1> QED
  BY <1>1, StepInvPreserved, Inductive, PTL DEF Spec

-----------------------------------------------------------------------------
(* The block calls implement BlockDevice.                                  *)

\* A block that passes in step is the next of the call's, or one that has been moved
\* before and is moved again as it is.
LEMMA PassStep ==
    ASSUME SdhciInv, StepInv, pc \in {"DmaWait", "PioBlock"},
           (CanRead /\ TakeBlock) \/ (CanWrite /\ GiveBlock),
           op' = op, inStep' = inStep, result' = result
    PROVE  Abstract!Next \/ UNCHANGED Abstract!vars
<1>0. TypeOK /\ CallInv /\ KeptInv
  BY DEF SdhciInv, StepInv
<1>1. PICK v \in Data \cup {"switched"} : BlockMoved(v)
  BY PassedBlock
<1>2. /\ result = "running" /\ op.kind \in BlockKinds \cup {"switch"}
      /\ store' \in [Blocks -> Data]
      /\ Place \in Nat /\ Place > 0 /\ Place <= op.count /\ Place <= Len(moved) + 1
      /\ op.kind \in WriteKinds => base = 0
  BY <1>0, <1>1, InPhase, BlockEffect DEF CallInv, PhasePcs
<1>3. /\ Len(moved) \in Nat /\ Len(moved) <= op.count /\ op.count \in Nat /\ op.first \in Nat
      /\ base \in Nat /\ at \in Nat /\ moved \in Seq(Data \cup {"switched"})
      /\ store \in [Blocks -> Data]
  BY <1>0, CallsTyped, Counts DEF TypeOK, CallsTypeOK
<1>4. CASE op.kind = "switch"
  <2>1. ~IsBlockCall /\ store' = store
    BY <1>1, <1>4 DEF IsBlockCall, BlockMoved, WriteKinds
  <2> QED
    BY <1>4, <2>1, SilentStep
<1>5. CASE op.kind \in BlockKinds /\ ~InStep
  <2>1. IsBlockCall
    BY <1>5 DEF IsBlockCall, BlockKinds, ReadKinds, WriteKinds
  <2> QED
    BY <1>2, <1>5, <2>1, UnpromisedStep
<1>6. CASE op.kind \in BlockKinds /\ InStep
  <2>1. IsBlockCall
    BY <1>6 DEF IsBlockCall, BlockKinds, ReadKinds, WriteKinds
  <2>2. /\ dev.block = op.first + Place - 1 /\ dev.block \in Blocks
        /\ op.kind \in ReadKinds => v = store[dev.block] /\ store' = store
        /\ op.kind \in WriteKinds =>
              v = op.data[at + 1] /\ store' = [store EXCEPT ![dev.block] = v]
    BY <1>1, <1>6 DEF BlockMoved, ReadKinds, WriteKinds
  <2>3. op.kind \in WriteKinds => Place = at + 1
    BY <1>2, <1>3 DEF Place
  <2>4. CASE Place <= Len(moved)
    <3>1. /\ moved[Place] = store[op.first + Place - 1]
          /\ op.kind \in WriteKinds => moved[Place] = op.data[Place]
      BY <1>0, <1>2, <1>3, <1>6, <2>4 DEF KeptInv
    <3>2. v = moved[Place] /\ v = store[dev.block]
      BY <1>6, <2>2, <2>3, <3>1 DEF BlockKinds
    <3>3. moved' = [moved EXCEPT ![Place] = moved[Place]]
      BY <1>1, <2>4, <3>2 DEF BlockMoved
    <3>4. moved' = moved
      BY <1>3, <3>3
    <3>5. store' = store
      BY <1>3, <1>6, <2>2, <3>2 DEF BlockKinds
    <3> QED
      BY <3>4, <3>5, UnseenStep
  <2>5. CASE ~(Place <= Len(moved))
    <3>1. Place = Len(moved) + 1 /\ Len(moved) # op.count
      BY <1>2, <1>3, <2>5
    <3>2. dev.block = op.first + Len(moved)
      BY <1>3, <2>2, <3>1
    <3>3. moved' = Append(moved, v)
      BY <1>1, <2>5 DEF BlockMoved
    <3>4. CASE op.kind \in ReadKinds
      BY <1>2, <2>1, <2>2, <3>1, <3>2, <3>3, <3>4, DeliverStep
    <3>5. CASE op.kind \in WriteKinds
      <4>1. at + 1 = Len(moved) + 1
        BY <2>3, <3>1, <3>5
      <4> QED
        BY <1>2, <2>1, <2>2, <3>1, <3>2, <3>3, <3>5, <4>1, StoreStep
    <3> QED
      BY <1>6, <3>4, <3>5 DEF BlockKinds
  <2> QED
    BY <2>4, <2>5
<1> QED
  BY <1>2, <1>4, <1>5, <1>6

\* A step of the driver that moves no block.
LEMMA ControlStep ==
    ASSUME SdhciInv,
           Attempt \/ DmaIssue \/ DmaWait \/ PioIssue \/ (PioBlock /\ Fail) \/ PioWait
    PROVE  Abstract!Next
<1>0. TypeOK /\ CallInv /\ MovedInv
  BY DEF SdhciInv
<1>1. CASE PioBlock /\ Fail
  <2>1. /\ UNCHANGED <<op, inStep>> /\ result = "running" /\ result' = "err"
        /\ op.kind \in BlockKinds \cup {"switch"}
    BY <1>0, <1>1 DEF PioBlock, Fail, CallInv, PhasePcs
  <2>2. moved' = moved /\ store' = store
    BY <1>1 DEF PioBlock, Fail, Goto
  <2>3. CASE op.kind = "switch"
    BY <2>1, <2>2, <2>3, SilentStep DEF IsBlockCall
  <2>4. CASE op.kind \in BlockKinds
    <3>1. IsBlockCall
      BY <2>4 DEF IsBlockCall, BlockKinds, ReadKinds, WriteKinds
    <3> QED
      BY <2>1, <2>2, <3>1, ReturnStep
  <2> QED
    BY <2>1, <2>3, <2>4
<1>2. CASE Attempt \/ DmaIssue \/ DmaWait \/ PioIssue \/ PioWait
  <2>1. /\ op' = op /\ moved' = moved /\ store' = store /\ (inStep' => inStep)
        /\ pc \in IssuePcs \cup PhasePcs
    <3>1. op' = op /\ moved' = moved /\ store' = store
      BY <1>2 DEF Attempt, DmaIssue, DmaWait, PioIssue, PioWait
    <3>2. inStep' => inStep
      BY <1>2 DEF Attempt, DmaIssue, DmaWait, PioIssue, PioWait
    <3>3. pc \in {"Attempt", "DmaIssue", "DmaWait", "PioIssue", "PioWait"}
      BY <1>2 DEF Attempt, DmaIssue, DmaWait, PioIssue, PioWait
    <3> QED
      BY <3>1, <3>2, <3>3 DEF IssuePcs, PhasePcs
  <2>2. result = "running" /\ op.kind \in BlockKinds \cup {"switch"}
    BY <1>0, <2>1 DEF CallInv, IssuePcs, PhasePcs
  <2>3. CASE op.kind = "switch"
    BY <2>1, <2>3, SilentStep DEF IsBlockCall
  <2>4. CASE op.kind \in BlockKinds
    <3>1. IsBlockCall
      BY <2>4 DEF IsBlockCall, BlockKinds, ReadKinds, WriteKinds
    <3>2. \/ result' = "running"
          \/ result' = "ok" /\ Len(moved') = op.count
          \/ result' = "err"
      <4>1. CASE Attempt
        <5>1. Len(moved) \in Nat /\ Len(moved) <= op.count
          BY <1>0 DEF TypeOK, CallsTypeOK
        <5>2. op.count = 0 => Len(moved) = op.count
          BY <5>1
        <5>3. \/ op.count = 0 /\ result' = "ok"
              \/ result' = result \/ result' = "err"
          BY <4>1 DEF Attempt, Finish, Goto, Retry, Fail
        <5> QED
          BY <2>1, <2>2, <5>2, <5>3
      <4>2. CASE DmaIssue \/ PioIssue
        BY <2>2, <4>2 DEF DmaIssue, PioIssue, DataCommand, Goto, Retry, Fail
      <4>3. CASE DmaWait \/ PioWait
        <5>1. pc \in {"DmaWait", "PioWait"} /\ ((host.complete /\ Transferred) \/ Retry \/ Fail)
          BY <4>3 DEF DmaWait, PioWait
        <5>2. CASE host.complete /\ Transferred
          <6>1. result' = "ok" => Len(moved) = op.count
            BY <2>4, <5>1, <5>2, MovedAll
          <6>2. result' = "ok" \/ result' = result
            BY <5>2 DEF Transferred, Finish, Goto
          <6> QED
            BY <2>1, <2>2, <6>1, <6>2
        <5>3. CASE Retry \/ Fail
          BY <2>2, <5>3 DEF Retry, Fail, Goto
        <5> QED
          BY <5>1, <5>2, <5>3
      <4> QED
        BY <1>2, <4>1, <4>2, <4>3
    <3> QED
      BY <2>1, <2>2, <3>1, <3>2, ReturnStep
  <2> QED
    BY <2>2, <2>3, <2>4
<1> QED
  BY <1>1, <1>2

\* A command without data.
LEMMA PlainImplements ==
    ASSUME SdhciInv, StepInv, Cmd12 \/ Cmd13 \/ Cmd32 \/ Cmd33 \/ Cmd38
    PROVE  Abstract!Next
<1>0. TypeOK /\ CallInv /\ MovedInv /\ DoneInv /\ RangeInv
  BY DEF SdhciInv, StepInv
<1>1. UNCHANGED <<op, moved, inStep>> /\ result = "running"
  BY <1>0 DEF Cmd12, Cmd13, Cmd32, Cmd33, Cmd38, Plain, CallInv
<1>2. CASE Cmd12
  <2>1. ~Legal(Command("stop", 0))
    BY <1>0, <1>2 DEF DoneInv, Cmd12, Legal, Command
  <2>2. result' = "err" /\ store' = store
    BY <1>2, <2>1 DEF Cmd12, Send, Fail
  <2>3. IsBlockCall
    BY <1>0, <1>2 DEF CallInv, Cmd12, IsBlockCall
  <2> QED
    BY <1>1, <2>2, <2>3, ReturnStep
<1>3. CASE Cmd13
  <2>1. op.kind = "status" /\ store' = store
    BY <1>0, <1>3 DEF CallInv, Cmd13, Send, StoreAfter, Command
  <2> QED
    BY <1>1, <2>1, SilentStep DEF IsBlockCall
<1>4. CASE Cmd32 \/ Cmd33
  <2>1. op.kind = "erase" /\ IsBlockCall
    BY <1>0, <1>4 DEF CallInv, Cmd32, Cmd33, IsBlockCall
  <2>2. store' = store
    BY <1>4 DEF Cmd32, Cmd33, Send, StoreAfter, Command
  <2>3. result' = "running" \/ result' = "err"
    BY <1>1, <1>4 DEF Cmd32, Cmd33, Send, Goto, Fail
  <2> QED
    BY <1>1, <2>1, <2>2, <2>3, ReturnStep
<1>5. CASE Cmd38
  <2>1. op.kind = "erase" /\ IsBlockCall
    BY <1>0, <1>5 DEF CallInv, Cmd38, IsBlockCall
  <2>2. result' \in {"ok", "err"}
    BY <1>5 DEF Cmd38, Send, Finish, Fail
  <2>3. CASE store' = store
    BY <1>1, <2>1, <2>2, <2>3, ReturnStep
  <2>4. CASE store' = StoreAfter(Command("erase", 0)) /\ store' # store
    <3>1. /\ Len(dev.seq) = 2
          /\ store' = [b \in Blocks |->
                         IF b \in dev.seq[1] .. dev.seq[2] THEN Erased ELSE store[b]]
      BY <2>4 DEF StoreAfter, Command
    <3>2. dev.seq[1] = op.first /\ dev.seq[2] = op.first + op.count - 1
      BY <1>0, <1>5, <3>1 DEF RangeInv, Cmd38
    <3> QED
      BY <1>1, <2>1, <2>2, <3>1, <3>2, EraseStep
  <2>5. store' = store \/ store' = StoreAfter(Command("erase", 0))
    BY <1>5 DEF Cmd38, Send
  <2> QED
    BY <2>3, <2>4, <2>5
<1> QED
  BY <1>2, <1>3, <1>4, <1>5

\* A call that begins, or a bring-up.
LEMMA UserImplements == ASSUME SdhciInv, User PROVE Abstract!Next \/ UNCHANGED Abstract!vars
<1>0. CallInv
  BY DEF SdhciInv
<1>1. CASE HandleIrq
  BY <1>1, UnseenStep DEF HandleIrq
<1>2. CASE \/ CallRead \/ CallWrite \/ CallDma \/ CallErase \/ CallOther
           \/ \E reset \in BOOLEAN : BringUp(reset)
  <2>1. pc = "Idle" /\ moved' = <<>> /\ store' = store
    BY <1>2
    DEF CallRead, CallWrite, CallDma, CallErase, CallOther, Call, BringUp, BringUpCall
  <2>2. SeenReply # "running" /\ SeenMoved' = <<>>
    BY <1>0, <2>1 DEF CallInv, SeenReply, SeenMoved
  <2>3. CASE IsBlockCall'
    <3>1. result' = "running"
      BY <1>2, <2>3
      DEF CallRead, CallWrite, CallDma, CallErase, CallOther, Call, BringUp, BringUpCall,
          IsBlockCall
    <3>2. SeenReply' = "running"
      BY <2>3, <3>1 DEF SeenReply
    <3> QED
      BY <2>1, <2>2, <3>2
      DEF Abstract!Next, Abstract!Begin, SeenReply, SeenMoved, IsBlockCall
  <2>4. CASE ~IsBlockCall'
    <3>1. SeenReply' = "none"
      BY <2>4 DEF SeenReply
    <3> QED
      BY <2>1, <2>2, <3>1, OtherStep
  <2> QED
    BY <2>3, <2>4
<1> QED
  BY <1>1, <1>2 DEF User

\* The engine, in the data phase of the call or behind its back: that is never in step.
LEMMA HardwareImplements ==
    ASSUME SdhciInv, StepInv, Hardware, store' \in [Blocks -> Data]
    PROVE  Abstract!Next \/ UNCHANGED Abstract!vars
<1>0. TypeOK /\ CallInv /\ AloneInv
  BY DEF SdhciInv, StepInv
<1>1. CASE BusyEnds \/ Unheard
  BY <1>1, UnseenStep DEF BusyEnds, Unheard
<1>2. CASE EngineMoves
  <2>1. UNCHANGED <<pc, op, result, base, calls, inStep, setup>>
    BY <1>2 DEF EngineMoves
  <2>2. CASE pc = "DmaWait"
    <3>1. (CanRead /\ TakeBlock) \/ (CanWrite /\ GiveBlock)
      BY <1>2, <2>2 DEF EngineMoves
    <3> QED
      BY <2>1, <2>2, <3>1, PassStep
  <2>3. CASE pc # "DmaWait"
    <3>1. pc \notin PhasePcs
      BY <1>2, <2>3, InPhase DEF EngineMoves, SdhciInv, PhaseInv, CanRead, CanWrite
    <3>2. ~InStep /\ ~InStep' /\ moved' = moved
      BY <1>0, <1>2, <2>1, <2>3, <3>1 DEF AloneInv, InStep, EngineMoves
    <3>3. CASE ~IsBlockCall
      BY <2>1, <3>2, <3>3, SilentStep
    <3>4. CASE IsBlockCall /\ result = "running"
      BY <2>1, <3>2, <3>4, UnpromisedStep
    <3>5. CASE IsBlockCall /\ result # "running"
      <4>1. SeenReply # "running" /\ SeenReply' = SeenReply /\ SeenMoved' = SeenMoved
        BY <2>1, <3>2, <3>5 DEF SeenReply, SeenMoved, IsBlockCall
      <4> QED
        BY <3>2, <4>1, OtherStep
    <3> QED
      BY <3>3, <3>4, <3>5
  <2> QED
    BY <2>2, <2>3
<1> QED
  BY <1>1, <1>2 DEF Hardware

\* Every step is one of BlockDevice, or does not change what it sees.
LEMMA StepImplements ==
    SdhciInv /\ SdhciInv' /\ StepInv /\ [Next]_vars => [Abstract!Next]_(Abstract!vars)
<1> SUFFICES ASSUME SdhciInv, SdhciInv', StepInv, [Next]_vars
             PROVE  Abstract!Next \/ UNCHANGED Abstract!vars
  BY Zenon
<1>1. store' \in [Blocks -> Data]
  BY DEF SdhciInv, TypeOK, CallsTypeOK
<1>2. CASE DriverStep
  <2>1. CASE PioBlock /\ ~Fail
    <3>1. /\ pc = "PioBlock" /\ UNCHANGED <<op, inStep>> /\ result' = result
          /\ (CanRead /\ TakeBlock) \/ (CanWrite /\ GiveBlock)
      BY <2>1 DEF PioBlock, Goto
    <3> QED
      BY <3>1, PassStep
  <2> QED
    BY <1>2, <2>1, ControlStep, PlainImplements DEF DriverStep
<1>3. CASE UNCHANGED vars
  BY <1>3, UnseenStep DEF vars
<1> QED
  BY <1>1, <1>2, <1>3, UserImplements, HardwareImplements DEF Next

\* While controller and card are in step a block call moves the blocks of its range
\* in order, with DMA, by the CPU or first one and then the other; an erase erases its
\* range or nothing; a call that fails has moved a prefix: for every card, call and
\* fault.
THEOREM BlocksImplemented == Spec => ImplementsBlockDevice
<1>1. Init => Abstract!Init
  BY InitialStep DEF Init
<1> QED
  BY <1>1, StepImplements, Inductive, InStepInvariant, PTL
  DEF Spec, ImplementsBlockDevice, Abstract!Spec
=============================================================================
