----------------------------- MODULE MCPlanner ------------------------------
(* Values for TLC.                                                         *)
EXTENDS Planner
MCMotion == {[nominal |-> 9, reach |-> r, ends |-> 1] : r \in {2, 20}}
            \cup {[nominal |-> 9, reach |-> 3, ends |-> 4],
                  [nominal |-> 3, reach |-> 6, ends |-> 4]}
=============================================================================
