------------------------------- MODULE BringUp -------------------------------
(***************************************************************************)
(* What SdioSdmmc::init promises its caller, without saying how: phases in *)
(* one order, an address and a width that change only in their phase, and  *)
(* the point after which nothing the host or the card does can make it     *)
(* fail.                                                                   *)
(***************************************************************************)
EXTENDS Naturals

VARIABLES
    phase,    \* how far the bring-up is
    rca,      \* the published address
    width     \* the published bus width

vars == <<phase, rca, width>>

Phases == {"Off", "Identifying", "Selected", "Negotiating", "Up", "Failed"}

Init == phase = "Off" /\ rca = 0 /\ width = "Bit1"

\* init may be called again at any time it is not running.
Begin ==
    /\ phase \in {"Off", "Up", "Failed"}
    /\ phase' = "Identifying"
    /\ UNCHANGED <<rca, width>>

Remove ==
    /\ phase \in {"Up", "Failed"}
    /\ phase' = "Off"
    /\ UNCHANGED <<rca, width>>

\* The card is addressed only while it is being identified.
Publish ==
    /\ phase = "Identifying"
    /\ rca' \in Nat \ {0}
    /\ UNCHANGED <<phase, width>>

Select ==
    /\ phase = "Identifying" /\ rca # 0
    /\ phase' = "Selected"
    /\ UNCHANGED <<rca, width>>

\* The mandatory part ends: from here on init cannot fail.
Negotiate ==
    /\ phase = "Selected"
    /\ phase' = "Negotiating"
    /\ UNCHANGED <<rca, width>>

\* The width only grows, and only once the card is selected.
Widen ==
    /\ phase \in {"Selected", "Negotiating"}
    /\ width' \in {"Bit4", "Bit8"}
    /\ phase' \in {phase, "Negotiating"} \cup (IF phase = "Negotiating" THEN {"Up"} ELSE {})
    /\ UNCHANGED rca

Succeed ==
    /\ phase \in {"Selected", "Negotiating"}
    /\ phase' = "Up"
    /\ UNCHANGED <<rca, width>>

Fail ==
    /\ phase \in {"Identifying", "Selected"}
    /\ phase' = "Failed"
    /\ UNCHANGED <<rca, width>>

Next == Begin \/ Remove \/ Publish \/ Select \/ Negotiate \/ Widen \/ Succeed \/ Fail

Spec == Init /\ [][Next]_vars
=============================================================================
