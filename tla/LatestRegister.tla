--------------------------- MODULE LatestRegister ---------------------------
(***************************************************************************)
(* What GET /v1/book promises of one pair: updates are numbered as they    *)
(* are produced, and the one shown only ever moves on to a later one.      *)
(* Updates may be skipped.                                                 *)
(***************************************************************************)
EXTENDS Naturals

VARIABLES produced, shown

Init == produced = 0 /\ shown = 0

Produce ==
    /\ produced' = produced + 1
    /\ shown' = shown

Show ==
    /\ shown' \in (shown + 1)..produced
    /\ produced' = produced

Next == Produce \/ Show

Spec == Init /\ [][Next]_<<produced, shown>>
=============================================================================
