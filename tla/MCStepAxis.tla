----------------------------- MODULE MCStepAxis -----------------------------
(* StepAxis on small sets: the extruder and an axis with one end switch,   *)
(* as X, Y and Z have on TDPRINTER_B.                                      *)
EXTENDS StepAxis

CONSTANTS X, E

MCEndStop == {<<X, FALSE>>}

(* Uneven ratios either way round, both directions, a retract, an axis     *)
(* that does not move.                                                     *)
MCMoves == {[i \in Axis |-> IF i = X THEN xe[1] ELSE xe[2]] :
               xe \in {<<5, 3>>, <<-3, 1>>, <<0, -2>>}}

\* No pressure, and the pressure of some rate.
MCAdvance == {0, 1}
=============================================================================
