---------------------------- MODULE StepPosition ----------------------------
(***************************************************************************)
(* Positions (lib/libStepPosition): the G-code thread keeps, per axis, the *)
(* position commanded last in mm (mmDst), the one the last motion went to  *)
(* (mm) and its number of full steps (step); the pulse generator keeps     *)
(* hardPos, which stops the printer may read back.                         *)
(*                                                                         *)
(* Data.  A length is in units of half a full step, enough to tell apart   *)
(* what rounding keeps and drops.  The motions handed over are the         *)
(* microsteps still to be made forward and backward: their order is        *)
(* StepBlock's, their pulses StepAxis's; here they come in any order.      *)
(***************************************************************************)
EXTENDS Integers

CONSTANTS Axis,
          MicroStep,    \* param->microStep: microsteps of a full step
          Word,         \* bound: the numbers G-code gives
          MaxCmd        \* bound: motions, positions given and stops

ASSUME MicroStepAssumption == MicroStep \in [Axis -> Nat \ {0}]
ASSUME WordAssumption == Word \subseteq Int
ASSUME MaxCmdAssumption == MaxCmd \in Nat

VARIABLES
    mm, mmDst, step,    \* stepPosition_t, by axis
    relative,           \* g->relative
    hardPos,            \* stepAxis.hardPos
    fwd, back,          \* microsteps handed over and not yet made
    armed,              \* stepAxis.enableTrigger
    pc,                 \* where the G-code thread is
    cmds,               \* commands so far
    place,              \* external: the microsteps the motor stands away from
                        \* the zero last set
    cut,                \* history: the axis lost steps to its switch,
    shifted,            \*   was given a position while it moved,
    stopped             \*   was stopped, since its position was last set

belief == <<mm, mmDst, step>>
motors == <<hardPos, fwd, back, place>>
hist == <<cut, shifted, stopped>>
vars == <<belief, relative, motors, armed, pc, cmds, hist>>

Pending(i) == fwd[i] - back[i]
Idle == \A i \in Axis : fwd[i] = 0 /\ back[i] = 0

\* lround(mm2step * mm), half a step being rounded away from zero, and back.
mm2step(m) == IF m >= 0 THEN (m + 1) \div 2 ELSE -((1 - m) \div 2)
step2mm(n) == 2 * n

-----------------------------------------------------------------------------
Init ==
    /\ mm = [i \in Axis |-> 0] /\ mmDst = [i \in Axis |-> 0]
    /\ step = [i \in Axis |-> 0] /\ relative = [i \in Axis |-> FALSE]
    /\ hardPos = [i \in Axis |-> 0] /\ place = [i \in Axis |-> 0]
    /\ fwd = [i \in Axis |-> 0] /\ back = [i \in Axis |-> 0]
    /\ armed = FALSE /\ pc = "idle" /\ cmds = 0
    /\ cut = [i \in Axis |-> FALSE] /\ shifted = [i \in Axis |-> FALSE]
    /\ stopped = [i \in Axis |-> FALSE]

Command == pc = "idle" /\ cmds < MaxCmd /\ cmds' = cmds + 1

\* The value after the word w, where the mask names the axis.
Assign(old, mask, rel, w) ==
    [i \in Axis |-> IF i \notin mask THEN old[i]
                    ELSE IF rel[i] THEN old[i] + w ELSE w]

-----------------------------------------------------------------------------
(* G0, G1 and G28 up to inputMotion, where the thread may have to wait.    *)
\* stepPosition_setMmDst; a motion of no steps is dropped, not its mmDst.
SetDst(hand, after) ==
    /\ \E mask \in SUBSET Axis, w \in Word :
          mmDst' = Assign(mmDst, mask, relative, w)
    /\ pc' = IF \E i \in Axis : mm2step(mmDst'[i]) # step[i] THEN hand
             ELSE after
    /\ UNCHANGED <<mm, step, relative, motors, hist>>

Move == /\ Command /\ SetDst("handing", "idle")
        /\ UNCHANGED armed

Home == /\ Command /\ SetDst("handingHome", "homing")
        /\ armed' = TRUE

\* Mutants, here and below, stand before the definition they replace.
HandOverSigned ==       \* the steps backward keep their sign
    /\ pc \in {"handing", "handingHome"}
    /\ LET offset(i) == (mm2step(mmDst[i]) - step[i]) * MicroStep[i]
       IN /\ fwd' = [i \in Axis |-> IF offset(i) > 0 THEN fwd[i] + offset(i)
                                    ELSE fwd[i]]
          /\ back' = [i \in Axis |-> IF offset(i) < 0 THEN back[i] + offset(i)
                                     ELSE back[i]]
    /\ step' = [i \in Axis |-> mm2step(mmDst[i])] /\ mm' = mmDst
    /\ pc' = IF pc = "handingHome" THEN "homing" ELSE "idle"
    /\ UNCHANGED <<mmDst, relative, hardPos, place, armed, cmds, hist>>

HandOverNoSrc ==        \* stepPosition_updateSrc is not called
    /\ pc \in {"handing", "handingHome"}
    /\ LET offset(i) == (mm2step(mmDst[i]) - step[i]) * MicroStep[i]
       IN /\ fwd' = [i \in Axis |-> IF offset(i) > 0 THEN fwd[i] + offset(i)
                                    ELSE fwd[i]]
          /\ back' = [i \in Axis |-> IF offset(i) < 0 THEN back[i] - offset(i)
                                     ELSE back[i]]
    /\ pc' = IF pc = "handingHome" THEN "homing" ELSE "idle"
    /\ UNCHANGED <<belief, relative, hardPos, place, armed, cmds, hist>>

\* The motion is handed over, in microsteps; then stepPosition_updateSrc.
HandOver ==
    /\ pc \in {"handing", "handingHome"}
    /\ LET offset(i) == (mm2step(mmDst[i]) - step[i]) * MicroStep[i]
       IN /\ fwd' = [i \in Axis |-> IF offset(i) > 0 THEN fwd[i] + offset(i)
                                    ELSE fwd[i]]
          /\ back' = [i \in Axis |-> IF offset(i) < 0 THEN back[i] - offset(i)
                                     ELSE back[i]]
    /\ step' = [i \in Axis |-> mm2step(mmDst[i])] /\ mm' = mmDst
    /\ pc' = IF pc = "handingHome" THEN "homing" ELSE "idle"
    /\ UNCHANGED <<mmDst, relative, hardPos, place, armed, cmds, hist>>

\* G28 waits until the engine is idle and disarms the switches.
Homed ==
    /\ pc = "homing" /\ Idle
    /\ pc' = "idle" /\ armed' = FALSE
    /\ UNCHANGED <<belief, relative, motors, cmds, hist>>

\* G90, G91, M82, M83.
SetRelative ==
    /\ pc = "idle"
    /\ \E i \in Axis : relative' = [relative EXCEPT ![i] = ~@]
    /\ UNCHANGED <<belief, motors, armed, pc, cmds, hist>>

SetMmNoStore ==         \* stepPosition_storeToHardware is not called
    /\ Command
    /\ \E mask \in SUBSET Axis, w \in Word, r \in BOOLEAN :
          LET m == Assign(mm, mask, [i \in Axis |-> r], w)
              n == [i \in Axis |-> mm2step(m[i])]
          IN /\ step' = n
             /\ mm' = [i \in Axis |-> step2mm(n[i])] /\ mmDst' = mm'
             /\ place' = [i \in Axis |->
                   IF i \in mask THEN MicroStep[i] * n[i] - Pending(i)
                   ELSE place[i]]
             /\ cut' = [i \in Axis |-> cut[i] /\ i \notin mask]
             /\ stopped' = [i \in Axis |-> stopped[i] /\ i \notin mask]
             /\ shifted' = [i \in Axis |->
                   \/ Pending(i) # 0
                   \/ i \notin mask /\ (shifted[i] \/ cut[i])]
    /\ UNCHANGED <<hardPos, relative, fwd, back, armed, pc>>

(* G92 and M592: stepPosition_setMm, and stepPosition_storeToHardware for  *)
(* every axis, whether it was named or not and whether it moves or not.    *)
(* The zero of the axes named is where their position says.                *)
SetMm ==
    /\ Command
    /\ \E mask \in SUBSET Axis, w \in Word, r \in BOOLEAN :
          LET m == Assign(mm, mask, [i \in Axis |-> r], w)
              n == [i \in Axis |-> mm2step(m[i])]
          IN /\ step' = n /\ hardPos' = n
             /\ mm' = [i \in Axis |-> step2mm(n[i])] /\ mmDst' = mm'
             /\ place' = [i \in Axis |->
                   IF i \in mask THEN MicroStep[i] * n[i] - Pending(i)
                   ELSE place[i]]
             /\ cut' = [i \in Axis |-> cut[i] /\ i \notin mask]
             /\ stopped' = [i \in Axis |-> stopped[i] /\ i \notin mask]
             /\ shifted' = [i \in Axis |->
                   \/ Pending(i) # 0
                   \/ i \notin mask /\ (shifted[i] \/ cut[i])]
    /\ UNCHANGED <<relative, fwd, back, armed, pc>>

-----------------------------------------------------------------------------
StopKeepsStep ==        \* the position is not read back
    /\ fwd' = [i \in Axis |-> 0] /\ back' = [i \in Axis |-> 0]
    /\ cut' = [i \in Axis |-> FALSE] /\ stopped' = [i \in Axis |-> TRUE]
    /\ UNCHANGED <<belief, hardPos, place, armed, shifted>>

(* stepPosition_stop: the motor halts where it is, what waits is dropped,  *)
(* and the position is read back from hardPos.                             *)
Stop ==
    /\ fwd' = [i \in Axis |-> 0] /\ back' = [i \in Axis |-> 0]
    /\ step' = hardPos
    /\ mm' = [i \in Axis |-> step2mm(hardPos[i])] /\ mmDst' = mm'
    /\ cut' = [i \in Axis |-> FALSE] /\ stopped' = [i \in Axis |-> TRUE]
    /\ UNCHANGED <<hardPos, place, armed, shifted>>

\* M0 and M84, by the G-code thread.
StopCode == /\ Command /\ Stop
            /\ UNCHANGED <<relative, pc>>

(* stepGCode_stop, by another thread: the G-code thread is deleted where   *)
(* it is (in G28: the switches stay armed) and its modes are reset.        *)
StopPrint == /\ cmds < MaxCmd /\ cmds' = cmds + 1
             /\ Stop
             /\ pc' = "idle" /\ relative' = [i \in Axis |-> FALSE]

-----------------------------------------------------------------------------
(* The pulse generator: a microstep, or an axis cut off by its switch,     *)
(* which loses what is left of the motion.                                 *)
Pulse(i) ==
    /\ \/ /\ fwd[i] > 0 /\ fwd' = [fwd EXCEPT ![i] = @ - 1]
          /\ hardPos' = [hardPos EXCEPT ![i] = @ + 1]
          /\ place' = [place EXCEPT ![i] = @ + 1]
          /\ UNCHANGED back
       \/ /\ back[i] > 0 /\ back' = [back EXCEPT ![i] = @ - 1]
          /\ hardPos' = [hardPos EXCEPT ![i] = @ - 1]
          /\ place' = [place EXCEPT ![i] = @ - 1]
          /\ UNCHANGED fwd
    /\ UNCHANGED <<belief, relative, armed, pc, cmds, hist>>

CutOff(i) ==
    /\ armed
    /\ \/ /\ fwd[i] > 0 /\ UNCHANGED back
          /\ \E n \in 0 .. fwd[i] - 1 : fwd' = [fwd EXCEPT ![i] = n]
       \/ /\ back[i] > 0 /\ UNCHANGED fwd
          /\ \E n \in 0 .. back[i] - 1 : back' = [back EXCEPT ![i] = n]
    /\ cut' = [cut EXCEPT ![i] = TRUE]
    /\ UNCHANGED <<belief, relative, hardPos, place, armed, pc, cmds,
                   shifted, stopped>>

-----------------------------------------------------------------------------
Next == \/ Move \/ Home \/ HandOver \/ Homed \/ SetRelative \/ SetMm
        \/ StopCode \/ StopPrint
        \/ \E i \in Axis : Pulse(i) \/ CutOff(i)

Spec == Init /\ [][Next]_vars

-----------------------------------------------------------------------------
(* Properties.                                                             *)

\* Every variable has its type.
TypeOK ==
    /\ mm \in [Axis -> Int] /\ mmDst \in [Axis -> Int] /\ step \in [Axis -> Int]
    /\ relative \in [Axis -> BOOLEAN]
    /\ hardPos \in [Axis -> Int] /\ place \in [Axis -> Int]
    /\ fwd \in [Axis -> Nat] /\ back \in [Axis -> Nat]
    /\ armed \in BOOLEAN /\ pc \in {"idle", "handing", "handingHome", "homing"}
    /\ cmds \in 0 .. MaxCmd
    /\ cut \in [Axis -> BOOLEAN] /\ shifted \in [Axis -> BOOLEAN]
    /\ stopped \in [Axis -> BOOLEAN]

(* Between two motions the steps made are those of the position commanded: *)
(* the parts of a step that relative motions leave over add up and are not *)
(* lost, although a motion of no steps is dropped.                         *)
StepsFollowCommands ==
    /\ pc \in {"idle", "homing"} => \A i \in Axis : step[i] = mm2step(mmDst[i])
    /\ \A i \in Axis : step[i] = mm2step(mm[i])

(* hardPos is where the motor stands, as stepPosition_stop takes it to be, *)
(* on an axis without microsteps (Z) that was given its position at rest.  *)
HardPosTrue ==
    \A i \in Axis : MicroStep[i] = 1 /\ ~shifted[i] => hardPos[i] = place[i]

(* The motions handed over bring the motor to the position commanded last, *)
(* unless its switch cut it off, it was stopped while hardPos was not in   *)
(* full steps (microsteps), or was given a position while it moved.        *)
Trusted(i) == ~stopped[i] \/ (MicroStep[i] = 1 /\ ~shifted[i])
MotorGoesToStep ==
    \A i \in Axis : Trusted(i) /\ ~cut[i] =>
        place[i] + Pending(i) = MicroStep[i] * step[i]

(* "stop motion & read position from hardware" (libStepGCode.c:55): after  *)
(* a stop the position kept is the motor's, if it was set at rest.         *)
StopReadsPosition ==
    \A i \in Axis : stopped[i] /\ ~shifted[i] /\ ~cut[i] =>
        place[i] + Pending(i) = MicroStep[i] * step[i]

-----------------------------------------------------------------------------
\* The inductive invariant, proved in StepPositionProofs.
IInv == TypeOK /\ StepsFollowCommands /\ HardPosTrue /\ MotorGoesToStep
=============================================================================
