------------------------- MODULE StepPositionProofs -------------------------
(* The position layer, for any axes, microsteps, numbers and commands: the *)
(* three properties of StepPosition are inductive together.                *)
EXTENDS StepPosition, TLAPS

\* The numbers of steps are whole.
LEMMA Conversions ==
    \A m \in Int : mm2step(m) \in Int /\ step2mm(m) \in Int
                   /\ mm2step(step2mm(m)) = m
BY DEF mm2step, step2mm

LEMMA AssignType ==
    ASSUME NEW old \in [Axis -> Int], NEW mask, NEW rel, NEW w \in Word
    PROVE  Assign(old, mask, rel, w) \in [Axis -> Int]
BY WordAssumption DEF Assign

\* Initially nothing has moved.
LEMMA InitIInv == Init => IInv
<1> SUFFICES ASSUME Init PROVE IInv
  OBVIOUS
<1> USE MicroStepAssumption, MaxCmdAssumption DEF Init
<1>1. TypeOK
  <2>1. /\ mm \in [Axis -> Int] /\ mmDst \in [Axis -> Int] /\ step \in [Axis -> Int]
        /\ hardPos \in [Axis -> Int] /\ place \in [Axis -> Int]
        /\ fwd \in [Axis -> Nat] /\ back \in [Axis -> Nat] /\ cmds \in 0 .. MaxCmd
    OBVIOUS
  <2>2. /\ relative \in [Axis -> BOOLEAN] /\ cut \in [Axis -> BOOLEAN]
        /\ shifted \in [Axis -> BOOLEAN] /\ stopped \in [Axis -> BOOLEAN]
    BY Zenon
  <2>3. armed \in BOOLEAN /\ pc \in {"idle", "handing", "handingHome", "homing"}
    OBVIOUS
  <2> QED
    BY <2>1, <2>2, <2>3 DEF TypeOK
<1>2. StepsFollowCommands
  BY DEF StepsFollowCommands, mm2step
<1>3. HardPosTrue
  BY DEF HardPosTrue
<1>4. MotorGoesToStep
  BY DEF MotorGoesToStep, Pending
<1> QED
  BY <1>1, <1>2, <1>3, <1>4 DEF IInv

-----------------------------------------------------------------------------
(* One lemma per action.                                                   *)
LEMMA SetDstStep ==
    ASSUME IInv, NEW hand \in {"handing", "handingHome"},
           NEW after \in {"idle", "homing"}, SetDst(hand, after),
           armed' \in BOOLEAN, cmds' \in 0 .. MaxCmd
    PROVE  IInv'
<1> USE DEF IInv, SetDst, motors, hist
<1>1. PICK mask \in SUBSET Axis, w \in Word : mmDst' = Assign(mmDst, mask, relative, w)
  OBVIOUS
<1>2. mmDst' \in [Axis -> Int]
  BY <1>1, AssignType DEF TypeOK
<1>3. TypeOK'
  BY <1>2 DEF TypeOK
<1>4. pc' \in {"idle", "homing"} => \A i \in Axis : step'[i] = mm2step(mmDst'[i])
  OBVIOUS
<1>5. StepsFollowCommands'
  BY <1>4 DEF StepsFollowCommands
<1>6. HardPosTrue'
  BY DEF HardPosTrue
<1>7. MotorGoesToStep'
  BY DEF MotorGoesToStep, Trusted, Pending
<1> QED
  BY <1>3, <1>5, <1>6, <1>7

LEMMA HandOverStep == IInv /\ HandOver => IInv'
<1> SUFFICES ASSUME IInv, HandOver PROVE IInv'
  OBVIOUS
<1> USE DEF IInv, HandOver, hist
<1> DEFINE offset(i) == (mm2step(mmDst[i]) - step[i]) * MicroStep[i]
<1>1. /\ fwd' = [i \in Axis |-> IF offset(i) > 0 THEN fwd[i] + offset(i) ELSE fwd[i]]
      /\ back' = [i \in Axis |-> IF offset(i) < 0 THEN back[i] - offset(i) ELSE back[i]]
  OBVIOUS
<1>2. ASSUME NEW i \in Axis
      PROVE  /\ offset(i) \in Int
             /\ offset(i) = MicroStep[i] * mm2step(mmDst[i]) - MicroStep[i] * step[i]
             /\ MicroStep[i] * step[i] \in Int
             /\ MicroStep[i] * mm2step(mmDst[i]) \in Int
  <2>1. MicroStep[i] \in Nat /\ step[i] \in Int /\ mmDst[i] \in Int
    BY MicroStepAssumption DEF TypeOK
  <2>2. mm2step(mmDst[i]) \in Int
    BY <2>1, Conversions
  <2> QED
    BY <2>1, <2>2
<1> HIDE DEF offset
<1>3. TypeOK'
  <2>1. fwd' \in [Axis -> Nat] /\ back' \in [Axis -> Nat]
    BY <1>1, <1>2 DEF TypeOK
  <2>2. step' \in [Axis -> Int]
    BY Conversions DEF TypeOK
  <2> QED
    BY <2>1, <2>2 DEF TypeOK
<1>4. StepsFollowCommands'
  BY DEF StepsFollowCommands
<1>5. HardPosTrue'
  BY DEF HardPosTrue
<1>6. ASSUME NEW i \in Axis, Trusted(i)', ~cut'[i]
      PROVE  (place[i] + Pending(i) = MicroStep[i] * step[i])'
  <2>1. place[i] + Pending(i) = MicroStep[i] * step[i]
    BY <1>6 DEF MotorGoesToStep, Trusted
  <2>2. Pending(i)' = Pending(i) + offset(i)
    BY <1>1, <1>2 DEF Pending, TypeOK
  <2>3. step'[i] = mm2step(mmDst[i]) /\ place'[i] = place[i]
    OBVIOUS
  <2>4. Pending(i) \in Int /\ place[i] \in Int
    BY DEF Pending, TypeOK
  <2> QED
    BY <1>2, <2>1, <2>2, <2>3, <2>4
<1>7. MotorGoesToStep'
  BY <1>6 DEF MotorGoesToStep
<1> QED
  BY <1>3, <1>4, <1>5, <1>7

LEMMA SetMmStep == IInv /\ SetMm => IInv'
<1> SUFFICES ASSUME IInv, SetMm PROVE IInv'
  OBVIOUS
<1> USE DEF IInv
<1>1. PICK mask \in SUBSET Axis, w \in Word, r \in BOOLEAN :
          LET m == Assign(mm, mask, [i \in Axis |-> r], w)
              n == [i \in Axis |-> mm2step(m[i])]
          IN /\ step' = n /\ hardPos' = n
             /\ mm' = [i \in Axis |-> step2mm(n[i])] /\ mmDst' = mm'
             /\ place' = [i \in Axis |->
                   IF i \in mask THEN MicroStep[i] * n[i] - Pending(i)
                   ELSE place[i]]
             /\ cut' = [i \in Axis |-> cut[i] /\ i \notin mask]
             /\ stopped' = [i \in Axis |-> stopped[i] /\ i \notin mask]
             /\ shifted' = [i \in Axis |->
                   \/ Pending(i) # 0
                   \/ i \notin mask /\ (shifted[i] \/ cut[i])]
  BY DEF SetMm
<1> DEFINE m == Assign(mm, mask, [i \in Axis |-> r], w)
           n == [i \in Axis |-> mm2step(m[i])]
<1>2. m \in [Axis -> Int]
  BY AssignType DEF TypeOK
<1>3. \A i \in Axis : i \notin mask => m[i] = mm[i]
  BY DEF Assign
<1> HIDE DEF m
<1>4. n \in [Axis -> Int]
  BY <1>2, Conversions
<1>5. \A i \in Axis : i \notin mask => n[i] = step[i]
  BY <1>3 DEF StepsFollowCommands
<1>6. /\ step' = n /\ hardPos' = n
      /\ mm' = [i \in Axis |-> step2mm(n[i])] /\ mmDst' = mm'
      /\ place' = [i \in Axis |->
            IF i \in mask THEN MicroStep[i] * n[i] - Pending(i) ELSE place[i]]
      /\ cut' = [i \in Axis |-> cut[i] /\ i \notin mask]
      /\ stopped' = [i \in Axis |-> stopped[i] /\ i \notin mask]
      /\ shifted' = [i \in Axis |->
            Pending(i) # 0 \/ (i \notin mask /\ (shifted[i] \/ cut[i]))]
  BY <1>1 DEF m
<1> HIDE DEF n
<1>7. UNCHANGED <<relative, fwd, back, armed, pc>> /\ cmds' \in 0 .. MaxCmd
  BY MaxCmdAssumption DEF SetMm, Command, TypeOK
<1>8. ASSUME NEW i \in Axis
      PROVE  /\ Pending(i)' = Pending(i) /\ Pending(i) \in Int
             /\ MicroStep[i] * n[i] \in Int /\ n[i] \in Int /\ place[i] \in Int
  BY <1>4, <1>7, MicroStepAssumption DEF Pending, TypeOK
<1>9. TypeOK'
  <2>1. step' \in [Axis -> Int] /\ hardPos' \in [Axis -> Int]
    BY <1>4, <1>6
  <2>2. mm' \in [Axis -> Int] /\ mmDst' \in [Axis -> Int]
    BY <1>4, <1>6, Conversions
  <2>3. place' \in [Axis -> Int]
    BY <1>6, <1>8
  <2>4. cut' \in [Axis -> BOOLEAN] /\ stopped' \in [Axis -> BOOLEAN]
    BY <1>6, ZenonT(30) DEF TypeOK
  <2>5. shifted' \in [Axis -> BOOLEAN]
    BY <1>6, ZenonT(30) DEF TypeOK
  <2> QED
    BY <1>7, <2>1, <2>2, <2>3, <2>4, <2>5 DEF TypeOK
<1>10. StepsFollowCommands'
  BY <1>4, <1>6, Conversions DEF StepsFollowCommands
<1>11. HardPosTrue'
  <2> SUFFICES ASSUME NEW i \in Axis, MicroStep[i] = 1, ~shifted'[i]
               PROVE  hardPos'[i] = place'[i]
    BY DEF HardPosTrue
  <2>1. Pending(i) = 0 /\ (i \notin mask => ~shifted[i] /\ ~cut[i])
    BY <1>6
  <2>2. CASE i \in mask
    BY <1>6, <1>8, <2>1, <2>2
  <2>3. CASE i \notin mask
    <3>1. place[i] + Pending(i) = MicroStep[i] * step[i]
      BY <2>1, <2>3 DEF MotorGoesToStep, Trusted
    <3> QED
      BY <1>5, <1>6, <1>8, <2>1, <2>3, <3>1
  <2> QED
    BY <2>2, <2>3
<1>12. MotorGoesToStep'
  <2> SUFFICES ASSUME NEW i \in Axis, Trusted(i)', ~cut'[i]
               PROVE  (place[i] + Pending(i) = MicroStep[i] * step[i])'
    BY DEF MotorGoesToStep
  <2>1. CASE i \in mask
    <3>1. place'[i] = MicroStep[i] * n[i] - Pending(i) /\ step'[i] = n[i]
      BY <1>6, <2>1
    <3> QED
      BY <1>8, <3>1
  <2>2. CASE i \notin mask
    <3>1. /\ place'[i] = place[i] /\ step'[i] = step[i]
          /\ ~cut[i] /\ (stopped[i] => stopped'[i])
          /\ ~shifted'[i] => ~shifted[i]
      BY <1>5, <1>6, <2>2
    <3>2. Trusted(i)
      BY <3>1 DEF Trusted
    <3>3. place[i] + Pending(i) = MicroStep[i] * step[i]
      BY <3>1, <3>2 DEF MotorGoesToStep
    <3> QED
      BY <1>8, <3>1, <3>3
  <2> QED
    BY <2>1, <2>2
<1> QED
  BY <1>9, <1>10, <1>11, <1>12

LEMMA StopStep ==
    ASSUME IInv, Stop, cmds' \in 0 .. MaxCmd, relative' \in [Axis -> BOOLEAN],
           pc' \in {"idle", "handing", "handingHome", "homing"}
    PROVE  IInv'
<1> USE DEF IInv, Stop
<1>1. TypeOK'
  BY Conversions DEF TypeOK
<1>2. StepsFollowCommands'
  BY Conversions DEF StepsFollowCommands, TypeOK
<1>3. HardPosTrue'
  BY DEF HardPosTrue
<1>4. MotorGoesToStep'
  BY DEF MotorGoesToStep, HardPosTrue, Trusted, Pending, TypeOK
<1> QED
  BY <1>1, <1>2, <1>3, <1>4

LEMMA PulseStep == ASSUME IInv, NEW j \in Axis, Pulse(j) PROVE IInv'
<1> USE DEF IInv, Pulse, belief, hist
<1>1. TypeOK'
  BY DEF TypeOK
<1>2. StepsFollowCommands'
  BY DEF StepsFollowCommands
<1>3. HardPosTrue'
  BY DEF HardPosTrue, TypeOK
<1>4. \A i \in Axis : place'[i] + Pending(i)' = place[i] + Pending(i)
  BY DEF Pending, TypeOK
<1>5. MotorGoesToStep'
  BY <1>4 DEF MotorGoesToStep, Trusted
<1> QED
  BY <1>1, <1>2, <1>3, <1>5

LEMMA CutOffStep == ASSUME IInv, NEW j \in Axis, CutOff(j) PROVE IInv'
<1> USE DEF IInv, CutOff, belief
<1>1. TypeOK'
  BY DEF TypeOK
<1>2. StepsFollowCommands'
  BY DEF StepsFollowCommands
<1>3. HardPosTrue'
  BY DEF HardPosTrue
<1>4. \A i \in Axis : ~cut'[i] => ~cut[i] /\ Pending(i)' = Pending(i)
  BY DEF Pending, TypeOK
<1>5. MotorGoesToStep'
  BY <1>4 DEF MotorGoesToStep, Trusted
<1> QED
  BY <1>1, <1>2, <1>3, <1>5

\* Every step preserves the invariant.
LEMMA NextIInv == IInv /\ [Next]_vars => IInv'
<1> SUFFICES ASSUME IInv, [Next]_vars PROVE IInv'
  OBVIOUS
<1>1. Command => cmds' \in 0 .. MaxCmd
  BY MaxCmdAssumption DEF Command, IInv, TypeOK
<1>2. CASE Move
  <2>1. armed' \in BOOLEAN
    BY <1>2 DEF Move, IInv, TypeOK
  <2> QED
    BY <1>1, <1>2, <2>1, SetDstStep DEF Move
<1>3. CASE Home
  <2>1. armed' \in BOOLEAN
    BY <1>3 DEF Home
  <2> QED
    BY <1>1, <1>3, <2>1, SetDstStep DEF Home
<1>4. CASE HandOver
  BY <1>4, HandOverStep
<1>5. CASE Homed \/ SetRelative
  <2>1. TypeOK'
    BY <1>5 DEF Homed, SetRelative, IInv, TypeOK, belief, motors, hist
  <2>2. StepsFollowCommands' /\ HardPosTrue' /\ MotorGoesToStep'
    BY <1>5 DEF Homed, SetRelative, IInv, belief, motors, hist, Trusted,
                StepsFollowCommands, HardPosTrue, MotorGoesToStep, Pending
  <2> QED
    BY <2>1, <2>2 DEF IInv
<1>6. CASE SetMm
  BY <1>6, SetMmStep
<1>7. CASE StopCode
  <2>1. relative' \in [Axis -> BOOLEAN]
         /\ pc' \in {"idle", "handing", "handingHome", "homing"}
    BY <1>7 DEF StopCode, IInv, TypeOK
  <2> QED
    BY <1>1, <1>7, <2>1, StopStep DEF StopCode
<1>8. CASE StopPrint
  <2>1. relative' \in [Axis -> BOOLEAN] /\ pc' = "idle" /\ cmds' \in 0 .. MaxCmd
    BY <1>8, MaxCmdAssumption DEF StopPrint, IInv, TypeOK
  <2> QED
    BY <1>8, <2>1, StopStep DEF StopPrint
<1>9. CASE \E i \in Axis : Pulse(i) \/ CutOff(i)
  BY <1>9, PulseStep, CutOffStep
<1>10. CASE UNCHANGED vars
  BY <1>10 DEF vars, belief, motors, hist, IInv, TypeOK, Trusted,
               StepsFollowCommands, HardPosTrue, MotorGoesToStep, Pending
<1> QED
  BY <1>2, <1>3, <1>4, <1>5, <1>6, <1>7, <1>8, <1>9, <1>10 DEF Next

THEOREM Inductive == Spec => []IInv
BY InitIInv, NextIInv, PTL DEF Spec

-----------------------------------------------------------------------------
(* What follows.                                                           *)

\* Every variable of the position layer keeps its type.
THEOREM TypeCorrect == Spec => []TypeOK
<1>1. IInv => TypeOK
  BY DEF IInv
<1> QED
  BY <1>1, Inductive, PTL

\* The steps made are those of the position commanded (inputNextPosition).
THEOREM NoStepDropped == Spec => []StepsFollowCommands
<1>1. IInv => StepsFollowCommands
  BY DEF IInv
<1> QED
  BY <1>1, Inductive, PTL

\* hardPos is the motor's position where there are no microsteps (setMm, stop).
THEOREM HardPosKept == Spec => []HardPosTrue
<1>1. IInv => HardPosTrue
  BY DEF IInv
<1> QED
  BY <1>1, Inductive, PTL

\* The motor ends where the position layer says, outside the known exceptions.
THEOREM MotorFollows == Spec => []MotorGoesToStep
<1>1. IInv => MotorGoesToStep
  BY DEF IInv
<1> QED
  BY <1>1, Inductive, PTL
=============================================================================
