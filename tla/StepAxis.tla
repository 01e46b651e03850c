------------------------------ MODULE StepAxis ------------------------------
(***************************************************************************)
(* The pulse generator of lib/libStepAxis: one motion moves every axis a   *)
(* number of steps in masterStep ticks of TIM1, each axis by a Bresenham   *)
(* counter (stepAxis_step); end switches cut axes off while homing.  The   *)
(* extruder is not pulsed by TIM1: its steps, and those of the pressure    *)
(* advance, are added to extruderStep, which TIM4 works off one step at a  *)
(* time (stepAxis_AdvanceISR).                                             *)
(*                                                                         *)
(* Interleaving.  TIM1 and TIM4 have the same preemption priority, so each *)
(* interrupt is one action.  The first motion after idle is loaded by the  *)
(* G-code thread, which TIM4 may preempt between the load and the store of *)
(* `a->extruderStep+=...' (StartLoad, StartStore).                         *)
(* An advance is a whole number of steps, what ceilf makes of the float:   *)
(* currentAdvance + ceilf(advance - currentAdvance).                       *)
(***************************************************************************)
EXTENDS Integers

CONSTANTS Axis,         \* the stepper motors (STEPPER_NUM of them)
          Extruder,     \* axis 2
          EndStop,      \* the switches that are wired: <<axis, dir>>
                        \* (a trigger with fakeOutput always reads released)
          Moves,        \* bound: the motions, signed steps of each axis
          Advance,      \* bound: the advances the rates of a motion ask for
          MaxLoad       \* bound: motions loaded in a behaviour

ASSUME AxisAssumption == Extruder \in Axis
ASSUME EndStopAssumption == EndStop \subseteq (Axis \ {Extruder}) \X BOOLEAN
ASSUME MovesAssumption ==
    /\ Moves \subseteq [Axis -> Int]
    /\ \A s \in Moves : \E i \in Axis : s[i] # 0     \* libStepPosition.c:32
ASSUME MaxLoadAssumption == MaxLoad \in Nat
ASSUME AdvanceAssumption == Advance \subseteq Int /\ 0 \in Advance

VARIABLES
    timerOn,            \* TIM1 is enabled
    busyFlag,           \* the axes still moving
    masterStep, step, counter, stepNeed, dir,
    masterCounter,      \* ticks of this motion (libStepBlock)
    hardPos,            \* position kept by the pulse generator
    enableTrigger,      \* G28 is homing
    pressed,            \* the end switches that read pressed
    extruderStep, currentAdvance,
    loading, reg,       \* the thread is inside `a->extruderStep+=...': register
    motor,              \* external: the steps each motor has really made
    loads,              \* motions loaded so far
    cut,                \* history: axes this motion lost to their switch
    lostStep            \* history: an update of extruderStep was lost

motion == <<masterStep, step, counter, stepNeed, dir, masterCounter, cut>>
thread == <<loading, reg>>
vars == <<timerOn, busyFlag, motion, hardPos, enableTrigger, pressed,
          extruderStep, currentAdvance, thread, motor, loads, lostStep>>

Sign(d) == IF d THEN 1 ELSE -1

-----------------------------------------------------------------------------
Init ==
    /\ timerOn = FALSE /\ busyFlag = {}
    /\ masterStep = 0 /\ masterCounter = 0
    /\ step = [i \in Axis |-> 0] /\ counter = [i \in Axis |-> 0]
    /\ stepNeed = [i \in Axis |-> 0] /\ dir = [i \in Axis |-> FALSE]
    /\ hardPos = [i \in Axis |-> 0] /\ motor = [i \in Axis |-> 0]
    /\ enableTrigger = FALSE /\ pressed = {}
    /\ extruderStep = 0 /\ currentAdvance = 0
    /\ loading = FALSE /\ reg = 0
    /\ loads = 0 /\ cut = {} /\ lostStep = FALSE

-----------------------------------------------------------------------------
(* stepAxis_step: the axes that end at this tick, those that go on, and    *)
(* those among them that make a step.                                      *)
EndSwitch(i) == enableTrigger /\ <<i, dir[i]>> \in pressed
\* Mutants, here and below, stand before the definition they replace.
GoingShort == {i \in busyFlag : step[i] + 1 < stepNeed[i] /\ ~EndSwitch(i)}
GoingAgain == {i \in Axis : step[i] < stepNeed[i] /\ ~EndSwitch(i)}
Going == {i \in busyFlag : step[i] < stepNeed[i] /\ ~EndSwitch(i)}
SteppingLate == {i \in Going : counter[i] + stepNeed[i] > masterStep}
Stepping == {i \in Going : counter[i] + stepNeed[i] >= masterStep}

\* The axes whose switch ends them here, short of their last step.
SwitchedOff == {i \in busyFlag : step[i] < stepNeed[i] /\ EndSwitch(i)}

Move(p, S) == [i \in Axis |-> IF i \in S THEN p[i] + Sign(dir[i]) ELSE p[i]]

\* What the tick adds to extruderStep instead of pulsing the extruder.
ExtruderDda == IF Extruder \in Stepping THEN Sign(dir[Extruder]) ELSE 0

\* fillBlockSteps, then stepAxis_reload, for a motion of signed steps s.
Abs(n) == IF n < 0 THEN -n ELSE n
ReloadSigned(s) ==      \* the sign stays in the number of steps
    /\ loads < MaxLoad /\ loads' = loads + 1
    /\ stepNeed' = s
    /\ \E m \in Axis : /\ \A i \in Axis : Abs(s[i]) <= Abs(s[m])
                       /\ masterStep' = Abs(s[m])
    /\ dir' = [i \in Axis |-> s[i] > 0]
    /\ busyFlag' = {i \in Axis : s[i] # 0}
    /\ counter' = [i \in Axis |-> 0] /\ step' = [i \in Axis |-> 0]
    /\ masterCounter' = 0 /\ cut' = {}
ReloadKeepsCounter(s) ==
    /\ loads < MaxLoad /\ loads' = loads + 1
    /\ stepNeed' = [i \in Axis |-> Abs(s[i])]
    /\ \E m \in Axis : /\ \A i \in Axis : Abs(s[i]) <= Abs(s[m])
                       /\ masterStep' = Abs(s[m])
    /\ dir' = [i \in Axis |-> s[i] > 0]
    /\ busyFlag' = {i \in Axis : s[i] # 0}
    /\ counter' = counter /\ step' = [i \in Axis |-> 0]
    /\ masterCounter' = 0 /\ cut' = {}
Reload(s) ==
    /\ loads < MaxLoad /\ loads' = loads + 1
    /\ stepNeed' = [i \in Axis |-> Abs(s[i])]
    /\ \E m \in Axis : /\ \A i \in Axis : Abs(s[i]) <= Abs(s[m])
                       /\ masterStep' = Abs(s[m])
    /\ dir' = [i \in Axis |-> s[i] > 0]
    /\ busyFlag' = {i \in Axis : s[i] # 0}
    /\ counter' = [i \in Axis |-> 0] /\ step' = [i \in Axis |-> 0]
    /\ masterCounter' = 0 /\ cut' = {}

\* stepAxis_setAdvance to a, after the extruder's own steps are added.
SetAdvanceWhole(owed, a) == currentAdvance' = a /\ extruderStep' = owed + a
SetAdvance(owed, a) ==
    /\ currentAdvance' = a
    /\ extruderStep' = owed + (a - currentAdvance)

\* A motion that extrudes recomputes its advance from the rate at each tick.
FollowRate == \E a \in Advance \cup {currentAdvance} :
                 SetAdvance(extruderStep + ExtruderDda, a)

-----------------------------------------------------------------------------
TickUncut ==            \* the position advances for an axis its switch stops
    /\ timerOn /\ Going # {}
    /\ busyFlag' = Going
    /\ counter' = [i \in Axis |->
            IF i \in Stepping THEN counter[i] + stepNeed[i] - masterStep
            ELSE IF i \in Going THEN counter[i] + stepNeed[i]
            ELSE counter[i]]
    /\ step' = [i \in Axis |-> IF i \in Stepping THEN step[i] + 1 ELSE step[i]]
    /\ hardPos' = Move(hardPos, Stepping \cup {i \in busyFlag : EndSwitch(i)})
    /\ motor' = Move(motor, Stepping \ {Extruder})
    /\ masterCounter' = masterCounter + 1
    /\ cut' = cut \cup SwitchedOff
    /\ FollowRate
    /\ UNCHANGED <<timerOn, masterStep, stepNeed, dir, enableTrigger, pressed,
                   thread, loads, lostStep>>

(* TIM1, while some axis goes on moving after this tick.  When the motion  *)
(* extrudes, the advance follows the rate.                                 *)
Tick ==
    /\ timerOn /\ Going # {}
    /\ busyFlag' = Going
    /\ counter' = [i \in Axis |->
            IF i \in Stepping THEN counter[i] + stepNeed[i] - masterStep
            ELSE IF i \in Going THEN counter[i] + stepNeed[i]
            ELSE counter[i]]
    /\ step' = [i \in Axis |-> IF i \in Stepping THEN step[i] + 1 ELSE step[i]]
    /\ hardPos' = Move(hardPos, Stepping)
    /\ motor' = Move(motor, Stepping \ {Extruder})
    /\ masterCounter' = masterCounter + 1
    /\ cut' = cut \cup SwitchedOff
    /\ FollowRate
    /\ UNCHANGED <<timerOn, masterStep, stepNeed, dir, enableTrigger, pressed,
                   thread, loads, lostStep>>

(* TIM1, at the tick that finds every axis done: the next motion is loaded *)
(* by the interrupt, with its advance, or the timer is switched off.       *)
TickNext ==
    /\ timerOn /\ busyFlag # {} /\ Going = {}
    /\ \E s \in Moves : Reload(s)
    /\ \E a \in Advance : SetAdvance(extruderStep, a)
    /\ UNCHANGED <<timerOn, hardPos, enableTrigger, pressed, thread, motor,
                   lostStep>>

TickLastTimerOn ==      \* the timer is not switched off
    /\ timerOn /\ busyFlag # {} /\ Going = {}
    /\ busyFlag' = {}
    /\ masterCounter' = masterCounter + 1
    /\ cut' = cut \cup SwitchedOff
    /\ FollowRate
    /\ UNCHANGED <<timerOn, masterStep, step, counter, stepNeed, dir, hardPos,
                   enableTrigger, pressed, thread, motor, loads, lostStep>>

TickLast ==
    /\ timerOn /\ busyFlag # {} /\ Going = {}
    /\ busyFlag' = {} /\ timerOn' = FALSE
    /\ masterCounter' = masterCounter + 1
    /\ cut' = cut \cup SwitchedOff
    /\ FollowRate
    /\ UNCHANGED <<masterStep, step, counter, stepNeed, dir, hardPos,
                   enableTrigger, pressed, thread, motor, loads, lostStep>>

(* The G-code thread loads the first motion after idle.                    *)
StartLoad ==
    /\ ~timerOn /\ ~loading
    /\ \E s \in Moves : Reload(s)
    /\ loading' = TRUE /\ reg' = extruderStep
    /\ UNCHANGED <<timerOn, hardPos, enableTrigger, pressed, extruderStep,
                   currentAdvance, motor, lostStep>>

StartStore ==
    /\ loading
    /\ \E a \in Advance : SetAdvance(reg, a)
    /\ lostStep' = (lostStep \/ extruderStep # reg)
    /\ loading' = FALSE /\ timerOn' = TRUE
    /\ UNCHANGED <<reg, busyFlag, motion, hardPos, enableTrigger, pressed,
                   motor, loads>>

\* stepBlock_forceStop switches the timer off in the middle of a motion.
Halt ==
    /\ timerOn
    /\ timerOn' = FALSE
    /\ UNCHANGED <<busyFlag, motion, hardPos, enableTrigger, pressed,
                   extruderStep, currentAdvance, thread, motor, loads, lostStep>>

(* ... or stepGCode_stop deletes the thread inside `extruderStep+=...':    *)
(* currentAdvance may be updated and extruderStep not.                     *)
DeleteLoading ==
    /\ loading
    /\ loading' = FALSE
    /\ \E a \in Advance \cup {currentAdvance} :
          /\ currentAdvance' = a
          /\ lostStep' = (lostStep \/ a # currentAdvance)
    /\ UNCHANGED <<timerOn, busyFlag, motion, hardPos, enableTrigger, pressed,
                   extruderStep, reg, motor, loads>>

-----------------------------------------------------------------------------
(* TIM4 at 10 kHz: one step of the extruder, towards zero.                 *)
AdvanceISR ==
    /\ extruderStep # 0
    /\ extruderStep' = extruderStep - Sign(extruderStep > 0)
    /\ motor' = [motor EXCEPT ![Extruder] = @ + Sign(extruderStep > 0)]
    /\ UNCHANGED <<timerOn, busyFlag, motion, hardPos, enableTrigger, pressed,
                   currentAdvance, thread, loads, lostStep>>

(* G28 arms the switches while earlier motions may still run, and disarms  *)
(* them once the engine is idle.  A stop in between leaves them armed.     *)
SetTrigger ==
    /\ ~loading
    /\ enableTrigger => ~timerOn
    /\ enableTrigger' = ~enableTrigger
    /\ UNCHANGED <<timerOn, busyFlag, motion, hardPos, pressed, extruderStep,
                   currentAdvance, thread, motor, loads, lostStep>>

\* External: a switch is hit, released, or bounces.
Switch ==
    /\ enableTrigger
    /\ \E s \in EndStop :
          pressed' = IF s \in pressed THEN pressed \ {s} ELSE pressed \cup {s}
    /\ UNCHANGED <<timerOn, busyFlag, motion, hardPos, enableTrigger,
                   extruderStep, currentAdvance, thread, motor, loads, lostStep>>

TIM1 == Tick \/ TickNext \/ TickLast

Next == \/ TIM1 \/ StartLoad \/ StartStore \/ Halt \/ DeleteLoading
        \/ AdvanceISR \/ SetTrigger \/ Switch

(* Both timers interrupt while they are enabled; the thread goes on.       *)
Fairness == WF_vars(TIM1) /\ WF_vars(StartStore) /\ WF_vars(AdvanceISR)

Spec == Init /\ [][Next]_vars /\ Fairness

-----------------------------------------------------------------------------
(* Properties.                                                             *)

\* Every variable has its type.
TypeOK ==
    /\ timerOn \in BOOLEAN /\ busyFlag \subseteq Axis
    /\ masterStep \in Nat /\ masterCounter \in Nat
    /\ step \in [Axis -> Nat] /\ stepNeed \in [Axis -> Nat]
    /\ counter \in [Axis -> Nat] /\ dir \in [Axis -> BOOLEAN]
    /\ hardPos \in [Axis -> Int] /\ motor \in [Axis -> Int]
    /\ enableTrigger \in BOOLEAN
    /\ pressed \subseteq EndStop
    /\ extruderStep \in Int /\ currentAdvance \in Int
    /\ loading \in BOOLEAN /\ reg \in Int
    /\ loads \in 0 .. MaxLoad /\ cut \subseteq Axis /\ lostStep \in BOOLEAN

(* The Bresenham counter keeps every axis within one step of the straight  *)
(* line: after t ticks an axis still moving has made the whole part of     *)
(* t * stepNeed / masterStep, and the counter holds the remainder.         *)
OnTheLine ==
    \A i \in busyFlag :
       /\ counter[i] < masterStep
       /\ step[i] * masterStep + counter[i] = masterCounter * stepNeed[i]

(* All axes arrive together, at tick masterStep, and the motion ends at    *)
(* the tick after: no axis is ever busy for longer, none oversteps.        *)
ArriveTogether ==
    /\ busyFlag # {} => masterCounter <= masterStep
    /\ \A i \in Axis : step[i] <= stepNeed[i]
    /\ masterCounter = masterStep => \A i \in busyFlag : step[i] = stepNeed[i]

\* An axis stops before its last step only when its end switch stopped it.
DoneUnlessCut ==
    \A i \in Axis : i \notin busyFlag \cup cut => step[i] = stepNeed[i]

(* The position kept for the layers above is where the motors are.         *)
HardPosIsMotor == \A i \in Axis \ {Extruder} : hardPos[i] = motor[i]

(* "extruderStep: dda + (advance-currentAdvance)" (libStepAxis.h:27): what *)
(* the extruder still owes is what the motions and the advance asked for,  *)
(* less the steps made.                                                    *)
ExtruderOwes ==
    extruderStep = hardPos[Extruder] + currentAdvance - motor[Extruder]

\* ... as long as TIM4 did not preempt the thread's update.
ExtruderOwesUnlessLost == ~lostStep => ExtruderOwes

(* An axis cut off by its switch stays still until the next motion, even   *)
(* if the switch is released (bounces) while the other axes go on.         *)
CutOffStaysStill ==
    [][\A i \in Axis : i \notin busyFlag /\ Going # {} =>
         hardPos'[i] = hardPos[i]]_vars

(* A motion ends: it is halted, or its tick count starts again for the     *)
(* next one, or the timer goes off.                                        *)
MotionEnds == \A n \in 1 .. MaxLoad :
                 (timerOn /\ loads = n) ~> (~timerOn \/ loads > n)

-----------------------------------------------------------------------------
(* The inductive invariant, proved in StepAxisProofs.                      *)

\* The master axis sets the pace: no axis needs more steps, some needs any.
MasterLeads ==
    /\ \A i \in Axis : stepNeed[i] <= masterStep
    /\ \A i \in busyFlag : stepNeed[i] > 0

IInv == /\ TypeOK /\ MasterLeads /\ OnTheLine /\ ArriveTogether
        /\ DoneUnlessCut /\ HardPosIsMotor /\ ExtruderOwesUnlessLost
=============================================================================
