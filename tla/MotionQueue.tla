---------------------------- MODULE MotionQueue ----------------------------
(***************************************************************************)
(* What the motion buffer promises to the layers above it: the motions     *)
(* handed to stepBlock_inputMotion are executed one at a time, each once,  *)
(* in the order they were handed over, and a stop drops the ones still     *)
(* waiting together with the one being executed.  StepBlock implements     *)
(* this specification as long as no update of its counter was lost; after  *)
(* a lost update nothing is promised (Fail).                               *)
(*                                                                         *)
(* The specification is only used as a property of StepBlock, never run on *)
(* its own: Accept constrains last' instead of choosing it from a set.     *)
(***************************************************************************)
EXTENDS Naturals, Sequences

CONSTANT Capacity           \* motions that may wait

VARIABLES queue,            \* motions accepted and not yet started
          running,          \* the motion being executed, 0 if none
          last,             \* the last motion accepted or given up
          failed            \* the counter of the implementation is wrong

qvars == <<queue, running, last, failed>>

Init == queue = <<>> /\ running = 0 /\ last = 0 /\ failed = FALSE

\* A motion is accepted when there is room; motions carry growing numbers.
Accept ==
    /\ Len(queue) < Capacity
    /\ last' > last
    /\ queue' = Append(queue, last')
    /\ UNCHANGED <<running, failed>>

\* A motion is given up before it is accepted.
Abandon ==
    /\ last' > last
    /\ UNCHANGED <<queue, running, failed>>

\* The oldest waiting motion replaces the one executed, which is complete.
Start ==
    /\ queue # <<>>
    /\ running' = Head(queue)
    /\ queue' = Tail(queue)
    /\ UNCHANGED <<last, failed>>

\* The last motion completes and nothing waits.
Finish ==
    /\ queue = <<>>
    /\ running' = 0
    /\ UNCHANGED <<queue, last, failed>>

\* A stop throws everything away.
Stop ==
    /\ queue' = <<>> /\ running' = 0
    /\ UNCHANGED <<last, failed>>

\* After a lost update of the counter no order is promised, until a stop.
Fail == failed' = TRUE
Repair == queue' = <<>> /\ running' = 0 /\ failed' = FALSE /\ UNCHANGED last

Next == \/ Fail \/ Repair
        \/ (~failed /\ (Accept \/ Abandon \/ Start \/ Finish \/ Stop))

Spec == Init /\ [][Next]_qvars
=============================================================================
