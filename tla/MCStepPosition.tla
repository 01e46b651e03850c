--------------------------- MODULE MCStepPosition ---------------------------
(* StepPosition on two axes: X with microsteps, Z without, as param.c sets *)
(* them (16 and 1; 2 tells the units apart as well as 16).                 *)
EXTENDS StepPosition

CONSTANTS X, Z

MCMicroStep == [i \in Axis |-> IF i = X THEN 2 ELSE 1]

\* Half a step back, and a step forward.
MCWord == {-1, 2}
=============================================================================
