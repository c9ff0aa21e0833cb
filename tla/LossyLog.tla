------------------------------ MODULE LossyLog ------------------------------
(***************************************************************************)
(* What a non-blocking audit sink promises: an event is accepted or lost,  *)
(* once; the log is always a prefix of what was accepted, in that order.   *)
(***************************************************************************)
EXTENDS Sequences, SequencesExt

CONSTANT Events

VARIABLES
    accepted,   \* the events the sink has taken, in order
    lost,       \* the events it has turned away
    written     \* the log

vars == <<accepted, lost, written>>

Known == ToSet(accepted) \cup lost

Init == accepted = <<>> /\ lost = {} /\ written = <<>>

Accept(e) ==
    /\ e \notin Known
    /\ accepted' = Append(accepted, e)
    /\ UNCHANGED <<lost, written>>

Lose(e) ==
    /\ e \notin Known
    /\ lost' = lost \cup {e}
    /\ UNCHANGED <<accepted, written>>

Write ==
    /\ Len(written) < Len(accepted)
    /\ written' = Append(written, accepted[Len(written) + 1])
    /\ UNCHANGED <<accepted, lost>>

Next == Write \/ \E e \in Events : Accept(e) \/ Lose(e)

Spec == Init /\ [][Next]_vars
=============================================================================
