----------------------------- MODULE BlockDevice -----------------------------
(***************************************************************************)
(* What the block calls of a driver promise: a call moves the blocks of    *)
(* its range in order, one at a time; a read that succeeds has delivered   *)
(* what the card stores and a write that succeeds has stored all of it; a  *)
(* call that fails has moved a prefix and nothing else.  The promise holds *)
(* while driver and card are in step.  An error ends that; whether they    *)
(* are in step again is decided when a call begins.                        *)
(*                                                                         *)
(* An erase is all or nothing, and a success does not say which: nobody    *)
(* looks at the error bits of the card's answer.                           *)
(***************************************************************************)
EXTENDS Naturals, Sequences

CONSTANTS
    Blocks,
    Data,
    Erased     \* the content of a block after an erase

VARIABLES
    store,     \* the content of the card
    call,      \* the last block call: what it moves or erases, and where
    moved,     \* the blocks it has moved so far
    reply,     \* "none", "running", "ok" or "err"
    inStep     \* driver and card agree on where they are

vars == <<store, call, moved, reply, inStep>>

Complete(blocks) == Len(blocks) = call.count

Init == reply = "none" /\ moved = <<>> /\ ~inStep

\* Whatever happens between the block calls: init, other commands, options, a
\* change of the card.  A card is exchanged only out of step.
Other ==
    /\ reply # "running"
    /\ reply' \in {reply, "none"}
    /\ moved' \in {moved, <<>>}
    /\ store' # store => ~inStep'

Begin ==
    /\ reply # "running"
    /\ reply' = "running" /\ moved' = <<>>
    /\ UNCHANGED store

\* How a call may stand after a step of it.
Outcome ==
    /\ UNCHANGED call
    /\ inStep' => inStep
    /\ \/ reply' = "running"
       \/ reply' = "ok" /\ (Complete(moved') \/ call.op = "erase")
       \/ reply' = "err" /\ ~inStep'

\* The block a call moves next.
Place == call.first + Len(moved)

Deliver ==
    /\ reply = "running" /\ call.op = "read" /\ ~Complete(moved)
    /\ Place \in Blocks
    /\ moved' = Append(moved, store[Place])
    /\ UNCHANGED store
    /\ Outcome

Store ==
    /\ reply = "running" /\ call.op = "write" /\ ~Complete(moved)
    /\ Place \in Blocks
    /\ LET next == call.data[Len(moved) + 1]
       IN  /\ moved' = Append(moved, next)
           /\ store' = [store EXCEPT ![Place] = next]
    /\ Outcome

Erase ==
    /\ reply = "running" /\ call.op = "erase"
    /\ store' = [b \in Blocks |->
                   IF b \in call.first .. call.first + call.count - 1
                   THEN Erased ELSE store[b]]
    /\ UNCHANGED moved
    /\ Outcome

Return ==
    /\ reply = "running"
    /\ UNCHANGED <<store, moved>>
    /\ Outcome

\* Out of step a call promises nothing, except to change blocks into blocks.
OutOfStep ==
    /\ reply = "running" /\ ~inStep /\ ~inStep'
    /\ store' \in [Blocks -> Data]
    /\ UNCHANGED call

Next == Other \/ Begin \/ Deliver \/ Store \/ Erase \/ Return \/ OutOfStep

Spec == Init /\ [][Next]_vars
=============================================================================
