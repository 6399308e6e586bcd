-------------------------- MODULE DurableRegister --------------------------
(***************************************************************************)
(* What the store of the diagnose state promises: a number that grows, of  *)
(* which a copy is stored now and then and is what there is when the       *)
(* program starts again.  A save that is alone stores all that there is.   *)
(* Saves that overlap may leave any copy, of something older or of         *)
(* nothing; the next save that is alone makes good for all of them.        *)
(***************************************************************************)
EXTENDS Integers

VARIABLES value, stored, promised, contended

registerVars == <<value, stored, promised, contended>>

Init == value = 0 /\ stored = 0 /\ promised = 0 /\ contended = FALSE

\* The number grows, and whoever adds to it may meet another who saves.
Grow ==
    /\ value' = value + 1 /\ contended' \in {contended, TRUE}
    /\ UNCHANGED <<stored, promised>>

SaveAlone ==
    /\ stored' = value /\ promised' = value /\ contended' = FALSE
    /\ UNCHANGED value

\* What overlapping saves may make of the copy.
Disturbed == stored' = stored \/ (contended /\ stored' \in 0..value)

SaveAmongOthers ==
    /\ contended /\ Disturbed /\ promised' \in {promised} \cup promised..value
    /\ UNCHANGED <<value, contended>>

Restart == Disturbed /\ value' = stored' /\ UNCHANGED <<promised, contended>>

Next == Grow \/ SaveAlone \/ SaveAmongOthers \/ Restart

Spec == Init /\ [][Next]_registerVars

\* A copy counts nothing that did not happen, and unless saves have overlapped since the
\* last that was alone, it is as new as was promised.
Kept == stored <= value /\ (~contended => promised <= stored)
=============================================================================
