--------------------------- MODULE StepAxisProofs ---------------------------
(***************************************************************************)
(* The invariants of StepAxis for any set of axes and motions of any       *)
(* length.  The heart of it is arithmetic: the Bresenham counter is the    *)
(* remainder of masterCounter * stepNeed by masterStep (lemmas Early and   *)
(* Exact), so that all axes arrive together.                               *)
(***************************************************************************)
EXTENDS StepAxis, TLAPS

\* Multiplication by a successor, which SMT cannot find by itself.
LEMMA Successor ==
  ASSUME NEW a \in Nat, NEW b \in Nat
  PROVE  (a + 1) * b = a * b + b
  OBVIOUS

\* Products of naturals grow with their factors.
LEMMA ProductMonotone ==
  ASSUME NEW a \in Nat, NEW b \in Nat, NEW c \in Nat, a <= b
  PROVE  a * c <= b * c
<1>1. PICK d \in Nat : b = a + d
  <2>1. b - a \in Nat /\ b = a + (b - a)
    OBVIOUS
  <2> QED
    BY <2>1
<1>2. b * c = a * c + d * c
  BY <1>1
<1>3. a * c \in Nat /\ d * c \in Nat
  OBVIOUS
<1> QED
  BY <1>2, <1>3

\* An axis that has steps left is before the end of the motion.
LEMMA Early ==
  ASSUME NEW s \in Nat, NEW M \in Nat, NEW c \in Nat, NEW t \in Nat,
         NEW n \in Nat, c < M, n > 0, s < n, s * M + c = t * n
  PROVE  t < M
<1> SUFFICES ASSUME t >= M PROVE FALSE
  OBVIOUS
<1>1. (s + 1) * M <= n * M
  BY ProductMonotone
<1>2. M * n <= t * n
  BY ProductMonotone
<1>3. (s + 1) * M = s * M + M
  BY Successor
<1>4. n * M = M * n
  OBVIOUS
<1>5. s * M \in Nat /\ t * n \in Nat /\ M * n \in Nat
  OBVIOUS
<1> QED
  BY <1>1, <1>2, <1>3, <1>4, <1>5

\* At the end of the motion the remainder is zero and the axis has arrived.
LEMMA Exact ==
  ASSUME NEW s \in Nat, NEW M \in Nat, NEW c \in Nat, NEW n \in Nat,
         c < M, s <= n, s * M + c = M * n
  PROVE  s = n
<1> SUFFICES ASSUME s < n PROVE FALSE
  OBVIOUS
<1>1. (s + 1) * M <= n * M
  BY ProductMonotone
<1>2. (s + 1) * M = s * M + M
  BY Successor
<1>3. n * M = M * n /\ s * M \in Nat /\ M * n \in Nat
  OBVIOUS
<1> QED
  BY <1>1, <1>2, <1>3

-----------------------------------------------------------------------------
(* What a motion is when it has just been loaded.                          *)
Fresh ==
    /\ masterStep \in Nat
    /\ step = [i \in Axis |-> 0] /\ counter = [i \in Axis |-> 0]
    /\ stepNeed \in [Axis -> Nat] /\ dir \in [Axis -> BOOLEAN]
    /\ masterCounter = 0 /\ cut = {}
    /\ busyFlag = {i \in Axis : stepNeed[i] # 0}
    /\ \A i \in Axis : stepNeed[i] <= masterStep
    /\ loads \in 0 .. MaxLoad

LEMMA ReloadFresh ==
  ASSUME TypeOK, NEW s \in Moves, Reload(s)
  PROVE  Fresh'
<1> USE MovesAssumption, MaxLoadAssumption DEF TypeOK
<1>1. \A i \in Axis : /\ Abs(s[i]) \in Nat
                      /\ Abs(s[i]) # 0 <=> s[i] # 0
  <2> SUFFICES ASSUME NEW i \in Axis
               PROVE  /\ Abs(s[i]) \in Nat
                      /\ Abs(s[i]) # 0 <=> s[i] # 0
    OBVIOUS
  <2>1. s[i] \in Int
    OBVIOUS
  <2> QED
    BY <2>1 DEF Abs
<1>2. PICK m \in Axis : \A i \in Axis : Abs(s[i]) <= Abs(s[m])
                                        /\ masterStep' = Abs(s[m])
  BY DEF Reload
<1>3. stepNeed' = [i \in Axis |-> Abs(s[i])]
  BY DEF Reload
<1>4. /\ busyFlag' = {i \in Axis : s[i] # 0}
      /\ dir' = [i \in Axis |-> s[i] > 0]
      /\ counter' = [i \in Axis |-> 0] /\ step' = [i \in Axis |-> 0]
      /\ masterCounter' = 0 /\ cut' = {}
      /\ loads < MaxLoad /\ loads' = loads + 1
  BY DEF Reload
<1>5. dir' \in [Axis -> BOOLEAN]
  BY <1>4
<1>6. masterStep' \in Nat
  BY <1>1, <1>2
<1>7. stepNeed' \in [Axis -> Nat]
  BY <1>1, <1>3
<1>8. busyFlag' = {i \in Axis : stepNeed'[i] # 0}
  BY <1>1, <1>3, <1>4
<1>9. \A i \in Axis : stepNeed'[i] <= masterStep'
  BY <1>2, <1>3
<1> QED
  BY <1>4, <1>5, <1>6, <1>7, <1>8, <1>9 DEF Fresh

\* A motion just loaded is at the start of its line.
LEMMA FreshLine ==
  ASSUME Fresh'
  PROVE  (MasterLeads /\ OnTheLine /\ ArriveTogether /\ DoneUnlessCut)'
<1>1. \A i \in Axis : step'[i] = 0 /\ counter'[i] = 0
  BY DEF Fresh
<1>2. masterStep' \in Nat
  BY DEF Fresh
<1>3. \A i \in Axis : stepNeed'[i] \in Nat
  BY DEF Fresh
<1>4. \A i \in busyFlag' : i \in Axis /\ stepNeed'[i] # 0
  BY DEF Fresh
<1>5. \A i \in Axis : stepNeed'[i] <= masterStep'
  BY DEF Fresh
<1>6. \A i \in Axis : i \notin busyFlag' => stepNeed'[i] = 0
  BY DEF Fresh
<1>7. masterCounter' = 0
  BY DEF Fresh
<1>8. MasterLeads'
  BY <1>3, <1>4, <1>5 DEF MasterLeads
<1>9. OnTheLine'
  <2> SUFFICES ASSUME NEW i \in busyFlag'
               PROVE  /\ counter'[i] < masterStep'
                      /\ step'[i] * masterStep' + counter'[i]
                             = masterCounter' * stepNeed'[i]
    BY DEF OnTheLine
  <2>1. 0 < masterStep'
    BY <1>2, <1>3, <1>4, <1>5
  <2>2. 0 * masterStep' + 0 = 0 * stepNeed'[i]
    BY <1>2, <1>3, <1>4
  <2> QED
    BY <1>1, <1>4, <1>7, <2>1, <2>2
<1>10. ArriveTogether'
  BY <1>1, <1>2, <1>3, <1>4, <1>5, <1>7 DEF ArriveTogether
<1>11. DoneUnlessCut'
  BY <1>1, <1>6 DEF DoneUnlessCut
<1> QED
  BY <1>8, <1>9, <1>10, <1>11

-----------------------------------------------------------------------------
(* Type correctness.                                                       *)

LEMMA SignType == \A d \in BOOLEAN : Sign(d) \in {-1, 1}
  BY DEF Sign

LEMMA MoveType ==
  ASSUME NEW p \in [Axis -> Int], NEW S, dir \in [Axis -> BOOLEAN]
  PROVE  Move(p, S) \in [Axis -> Int]
  BY SignType DEF Move

LEMMA DdaType ==
  ASSUME TypeOK PROVE ExtruderDda \in Int
  BY AxisAssumption, SignType DEF ExtruderDda, TypeOK

LEMMA FollowRateType ==
  ASSUME TypeOK, FollowRate
  PROVE  extruderStep' \in Int /\ currentAdvance' \in Int
  BY AdvanceAssumption, DdaType DEF FollowRate, SetAdvance, TypeOK

LEMMA TypeStep ==
  ASSUME TypeOK, [Next]_vars
  PROVE  TypeOK'
<1> USE AxisAssumption, MaxLoadAssumption, AdvanceAssumption DEF TypeOK, motion,
        thread
<1>1. CASE Tick
  <2>1. busyFlag' \subseteq Axis /\ cut' \subseteq Axis
    BY <1>1 DEF Tick, Going, SwitchedOff
  <2>2. counter' \in [Axis -> Nat]
    <3>1. \A i \in Axis : counter[i] + stepNeed[i] \in Nat
      OBVIOUS
    <3>2. \A i \in Axis : i \in Stepping =>
              counter[i] + stepNeed[i] - masterStep \in Nat
      BY DEF Stepping
    <3> QED
      BY <1>1, <3>1, <3>2 DEF Tick
  <2>3. step' \in [Axis -> Nat]
    <3>1. \A i \in Axis : i \in Stepping => step[i] + 1 \in Nat
      BY DEF Stepping, Going
    <3> QED
      BY <1>1, <3>1 DEF Tick
  <2>4. hardPos' \in [Axis -> Int] /\ motor' \in [Axis -> Int]
    BY <1>1, MoveType DEF Tick
  <2>5. extruderStep' \in Int /\ currentAdvance' \in Int
    BY <1>1, FollowRateType DEF Tick
  <2>6. /\ UNCHANGED <<timerOn, masterStep, stepNeed, dir, enableTrigger,
                       pressed, thread, loads, lostStep>>
        /\ masterCounter' \in Nat
    BY <1>1 DEF Tick
  <2> QED
    BY <2>1, <2>2, <2>3, <2>4, <2>5, <2>6
<1>2. CASE TickNext
  <2>1. Fresh'
    BY <1>2, ReloadFresh DEF TickNext
  <2>2. extruderStep' \in Int /\ currentAdvance' \in Int
    BY <1>2 DEF TickNext, SetAdvance
  <2> QED
    BY <1>2, <2>1, <2>2 DEF TickNext, Fresh
<1>3. CASE TickLast
  <2>1. extruderStep' \in Int /\ currentAdvance' \in Int
    BY <1>3, FollowRateType DEF TickLast
  <2>2. cut' \subseteq Axis /\ timerOn' \in BOOLEAN
    BY <1>3 DEF TickLast, SwitchedOff
  <2> QED
    BY <1>3, <2>1, <2>2 DEF TickLast
<1>4. CASE StartLoad
  <2>1. Fresh'
    BY <1>4, ReloadFresh DEF StartLoad
  <2>2. loading' \in BOOLEAN
    BY <1>4 DEF StartLoad
  <2> QED
    BY <1>4, <2>1, <2>2 DEF StartLoad, Fresh
<1>5. CASE StartStore
  <2>1. timerOn' \in BOOLEAN /\ loading' \in BOOLEAN
    BY <1>5 DEF StartStore
  <2>2. lostStep' \in BOOLEAN
    BY <1>5 DEF StartStore
  <2> QED
    BY <1>5, <2>1, <2>2 DEF StartStore, SetAdvance
<1>6. CASE Halt
  <2>1. timerOn' \in BOOLEAN
    BY <1>6 DEF Halt
  <2> QED
    BY <1>6, <2>1 DEF Halt
<1>7. CASE DeleteLoading
  <2>1. loading' \in BOOLEAN
    BY <1>7 DEF DeleteLoading
  <2>2. lostStep' \in BOOLEAN /\ currentAdvance' \in Int
    BY <1>7 DEF DeleteLoading
  <2> QED
    BY <1>7, <2>1, <2>2 DEF DeleteLoading
<1>8. CASE AdvanceISR
  <2>1. Sign(extruderStep > 0) \in Int
    BY DEF Sign
  <2> QED
    BY <1>8, <2>1 DEF AdvanceISR
<1>9. CASE SetTrigger
  <2>1. enableTrigger' \in BOOLEAN
    BY <1>9 DEF SetTrigger
  <2> QED
    BY <1>9, <2>1 DEF SetTrigger
<1>10. CASE Switch
  <2>1. pressed' \subseteq EndStop
    BY <1>10 DEF Switch
  <2> QED
    BY <1>10, <2>1 DEF Switch
<1>11. CASE UNCHANGED vars
  BY <1>11 DEF vars
<1> QED
  BY <1>1, <1>2, <1>3, <1>4, <1>5, <1>6, <1>7, <1>8, <1>9, <1>10, <1>11
     DEF Next, TIM1

-----------------------------------------------------------------------------
(* The straight line.                                                      *)
Line == MasterLeads /\ OnTheLine /\ ArriveTogether /\ DoneUnlessCut

\* One tick of TIM1 keeps an axis that goes on moving on its line.
LEMMA TickOneAxis ==
  ASSUME TypeOK, Line, Tick, NEW i \in Going
  PROVE  /\ counter'[i] < masterStep
         /\ step'[i] * masterStep + counter'[i]
                = (masterCounter + 1) * stepNeed[i]
         /\ masterCounter < masterStep
<1> USE DEF TypeOK
<1> DEFINE s == step[i]  c == counter[i]  n == stepNeed[i]  M == masterStep
           t == masterCounter
<1>1. /\ i \in Axis /\ i \in busyFlag /\ s < n
      /\ s \in Nat /\ c \in Nat /\ n \in Nat /\ M \in Nat /\ t \in Nat
  BY DEF Going
<1>2. c < M /\ s * M + c = t * n /\ n <= M /\ n > 0
  BY <1>1 DEF Line, OnTheLine, MasterLeads
<1>3. t < M
  <2> HIDE DEF s, c, n, M, t
  <2> QED
    BY <1>1, <1>2, Early
<1>4. (t + 1) * n = t * n + n
  <2> HIDE DEF s, c, n, M, t
  <2> QED
    BY <1>1, Successor
<1>5. CASE i \in Stepping
  <2>1. /\ counter'[i] = c + n - M /\ step'[i] = s + 1
        /\ c + n >= M
    BY <1>1, <1>5 DEF Tick, Stepping
  <2>2. (s + 1) * M = s * M + M
    <3> HIDE DEF s, c, n, M, t
    <3> QED
      BY <1>1, Successor
  <2>3. c + n - M < M
    BY <1>1, <1>2
  <2>4. (s + 1) * M + (c + n - M) = (t + 1) * n
    <3>1. s * M \in Nat /\ t * n \in Nat
      BY <1>1
    <3> HIDE DEF s, c, n, M, t
    <3> QED
      BY <3>1, <1>1, <1>2, <1>4, <2>2
  <2> QED
    BY <1>3, <2>1, <2>3, <2>4
<1>6. CASE i \notin Stepping
  <2>1. /\ counter'[i] = c + n /\ step'[i] = s
        /\ c + n < M
    BY <1>1, <1>6 DEF Tick, Stepping
  <2>2. s * M + (c + n) = (t + 1) * n
    <3>1. s * M \in Nat /\ t * n \in Nat
      BY <1>1
    <3> HIDE DEF s, c, n, M, t
    <3> QED
      BY <3>1, <1>1, <1>2, <1>4
  <2> QED
    BY <1>3, <2>1, <2>2
<1> QED
  BY <1>5, <1>6

LEMMA TickLine ==
  ASSUME TypeOK, TypeOK', Line, Tick
  PROVE  Line'
<1>1. /\ busyFlag' = Going /\ masterCounter' = masterCounter + 1
      /\ masterStep' = masterStep /\ stepNeed' = stepNeed
      /\ cut' = cut \cup SwitchedOff
      /\ step' = [i \in Axis |->
                    IF i \in Stepping THEN step[i] + 1 ELSE step[i]]
      /\ Going # {}
  BY DEF Tick
<1>2. \A i \in Going : /\ i \in busyFlag /\ i \in Axis
                       /\ step[i] < stepNeed[i]
  BY DEF Going, TypeOK
<1>3. Stepping \subseteq Going
  BY DEF Stepping
<1>4. MasterLeads'
  BY <1>1, <1>2 DEF Line, MasterLeads
<1>5. OnTheLine'
  BY <1>1, TickOneAxis DEF OnTheLine
<1>6. \A i \in Axis : step'[i] <= stepNeed'[i]
  BY <1>1, <1>2, <1>3 DEF Line, ArriveTogether, TypeOK
<1>7. masterCounter' <= masterStep'
  <2>1. PICK i \in Going : masterCounter < masterStep
    BY <1>1, TickOneAxis
  <2> QED
    BY <1>1, <2>1 DEF TypeOK
<1>8. ASSUME masterCounter' = masterStep', NEW i \in busyFlag'
      PROVE  step'[i] = stepNeed'[i]
  <2> DEFINE s == step'[i]  c == counter'[i]  n == stepNeed'[i]
             M == masterStep'
  <2>1. i \in Axis
    BY <1>1, <1>2
  <2>2. s \in Nat /\ c \in Nat /\ n \in Nat /\ M \in Nat
    BY <2>1 DEF TypeOK
  <2>3. c < M /\ s * M + c = M * n
    BY <1>5, <1>8 DEF OnTheLine
  <2>4. s <= n
    BY <1>6, <2>1
  <2> HIDE DEF s, c, n, M
  <2>5. s = n
    BY <2>2, <2>3, <2>4, Exact
  <2> QED
    BY <2>5 DEF s, n
<1>9. ArriveTogether'
  BY <1>6, <1>7, <1>8 DEF ArriveTogether
<1>10. DoneUnlessCut'
  <2> SUFFICES ASSUME NEW i \in Axis, i \notin busyFlag' \cup cut'
               PROVE  step'[i] = stepNeed'[i]
    BY DEF DoneUnlessCut
  <2>1. i \notin Going /\ i \notin Stepping /\ i \notin cut
    BY <1>1, <1>3
  <2>2. step'[i] = step[i] /\ stepNeed'[i] = stepNeed[i]
    BY <1>1, <2>1
  <2>3. CASE i \in busyFlag
    <3>1. ~(step[i] < stepNeed[i])
      BY <1>1, <2>1, <2>3 DEF Going, SwitchedOff
    <3> QED
      BY <2>2, <3>1 DEF Line, ArriveTogether, TypeOK
  <2>4. CASE i \notin busyFlag
    BY <2>1, <2>2, <2>4 DEF Line, DoneUnlessCut
  <2> QED
    BY <2>3, <2>4
<1> QED
  BY <1>4, <1>5, <1>9, <1>10 DEF Line

LEMMA LineStep ==
  ASSUME TypeOK, TypeOK', Line, [Next]_vars
  PROVE  Line'
<1>1. CASE Tick
  BY <1>1, TickLine
<1>2. CASE TickNext
  <2>1. Fresh'
    BY <1>2, ReloadFresh DEF TickNext
  <2> QED
    BY <2>1, FreshLine DEF Line
<1>3. CASE TickLast
  <2>1. /\ busyFlag' = {} /\ masterStep' = masterStep /\ step' = step
        /\ stepNeed' = stepNeed
        /\ cut' = cut \cup SwitchedOff /\ Going = {}
    BY <1>3 DEF TickLast
  <2>2. MasterLeads' /\ OnTheLine' /\ ArriveTogether'
    BY <2>1 DEF Line, MasterLeads, OnTheLine, ArriveTogether
  <2>3. DoneUnlessCut'
    <3> SUFFICES ASSUME NEW i \in Axis, i \notin cut'
                 PROVE  step[i] = stepNeed[i]
      BY <2>1 DEF DoneUnlessCut
    <3>1. CASE i \in busyFlag
      BY <2>1, <3>1 DEF Going, SwitchedOff, Line, ArriveTogether, TypeOK
    <3>2. CASE i \notin busyFlag
      BY <2>1, <3>2 DEF Line, DoneUnlessCut
    <3> QED
      BY <3>1, <3>2
  <2> QED
    BY <2>2, <2>3 DEF Line
<1>4. CASE StartLoad
  <2>1. Fresh'
    BY <1>4, ReloadFresh DEF StartLoad
  <2> QED
    BY <2>1, FreshLine DEF Line
<1>5. CASE UNCHANGED <<busyFlag, motion>>
  BY <1>5 DEF motion, Line, MasterLeads, OnTheLine, ArriveTogether,
     DoneUnlessCut
<1>6. Tick \/ TickNext \/ TickLast \/ StartLoad \/ UNCHANGED <<busyFlag, motion>>
  BY DEF Next, TIM1, StartStore, Halt, DeleteLoading, AdvanceISR, SetTrigger,
     Switch, vars
<1> QED
  BY <1>1, <1>2, <1>3, <1>4, <1>5, <1>6

-----------------------------------------------------------------------------
(* Where the motors are.                                                   *)
LEMMA PositionStep ==
  ASSUME TypeOK, HardPosIsMotor, [Next]_vars
  PROVE  HardPosIsMotor'
<1>1. CASE Tick
  <2> SUFFICES ASSUME NEW i \in Axis \ {Extruder}
               PROVE  hardPos'[i] = motor'[i]
    BY DEF HardPosIsMotor
  <2> QED
    BY <1>1 DEF Tick, Move, HardPosIsMotor
<1>2. CASE AdvanceISR
  BY <1>2 DEF AdvanceISR, HardPosIsMotor, TypeOK
<1>3. CASE UNCHANGED <<hardPos, motor>>
  BY <1>3 DEF HardPosIsMotor
<1>4. Tick \/ AdvanceISR \/ UNCHANGED <<hardPos, motor>>
  BY DEF Next, TIM1, TickNext, TickLast, StartLoad, StartStore, Halt,
     DeleteLoading, SetTrigger, Switch, vars
<1> QED
  BY <1>1, <1>2, <1>3, <1>4

LEMMA ExtruderStep ==
  ASSUME TypeOK, ExtruderOwesUnlessLost, [Next]_vars
  PROVE  ExtruderOwesUnlessLost'
<1> USE AxisAssumption DEF ExtruderOwes, ExtruderOwesUnlessLost
<1> SUFFICES ASSUME ~lostStep' PROVE ExtruderOwes'
  OBVIOUS
<1>1. ~lostStep /\ ExtruderOwes
  <2>1. CASE StartStore
    BY <2>1 DEF StartStore
  <2>2. CASE DeleteLoading
    BY <2>2 DEF DeleteLoading
  <2>3. CASE UNCHANGED lostStep
    BY <2>3
  <2>4. StartStore \/ DeleteLoading \/ UNCHANGED lostStep
    BY DEF Next, TIM1, Tick, TickNext, TickLast, StartLoad, Halt,
       AdvanceISR, SetTrigger, Switch, vars
  <2> QED
    BY <2>1, <2>2, <2>3, <2>4
<1>2. /\ hardPos[Extruder] \in Int /\ motor[Extruder] \in Int
      /\ extruderStep \in Int /\ currentAdvance \in Int
      /\ extruderStep = hardPos[Extruder] + currentAdvance - motor[Extruder]
      /\ \A a \in Advance \cup {currentAdvance} : a \in Int
      /\ ExtruderDda \in Int
  BY <1>1, DdaType, AdvanceAssumption DEF TypeOK
<1>3. CASE Tick
  <2>1. hardPos'[Extruder] = hardPos[Extruder] + ExtruderDda
    BY <1>2, <1>3 DEF Tick, Move, ExtruderDda
  <2>2. motor'[Extruder] = motor[Extruder]
    BY <1>3 DEF Tick, Move
  <2>3. PICK a \in Advance \cup {currentAdvance} :
           SetAdvance(extruderStep + ExtruderDda, a)
    BY <1>3 DEF Tick, FollowRate
  <2> QED
    BY <1>2, <2>1, <2>2, <2>3 DEF SetAdvance
<1>4. CASE TickNext
  <2>1. PICK a \in Advance : SetAdvance(extruderStep, a)
    BY <1>4 DEF TickNext
  <2>2. hardPos' = hardPos /\ motor' = motor
    BY <1>4 DEF TickNext
  <2> QED
    BY <1>2, <2>1, <2>2 DEF SetAdvance
<1>5. CASE TickLast
  <2>1. Extruder \notin Stepping
    BY <1>5 DEF TickLast, Stepping
  <2>2. PICK a \in Advance \cup {currentAdvance} :
           SetAdvance(extruderStep + 0, a)
    BY <1>5, <2>1 DEF TickLast, FollowRate, ExtruderDda
  <2>3. hardPos' = hardPos /\ motor' = motor
    BY <1>5 DEF TickLast
  <2> QED
    BY <1>2, <2>2, <2>3 DEF SetAdvance
<1>6. CASE StartStore
  <2>1. extruderStep = reg
    BY <1>6 DEF StartStore
  <2>2. PICK a \in Advance : SetAdvance(reg, a)
    BY <1>6 DEF StartStore
  <2>3. hardPos' = hardPos /\ motor' = motor
    BY <1>6 DEF StartStore
  <2> QED
    BY <1>2, <2>1, <2>2, <2>3 DEF SetAdvance
<1>7. CASE AdvanceISR
  <2>1. Sign(extruderStep > 0) \in Int
    BY DEF Sign
  <2>2. motor'[Extruder] = motor[Extruder] + Sign(extruderStep > 0)
    BY <1>7 DEF AdvanceISR, TypeOK
  <2>3. /\ extruderStep' = extruderStep - Sign(extruderStep > 0)
        /\ hardPos' = hardPos /\ currentAdvance' = currentAdvance
    BY <1>7 DEF AdvanceISR
  <2> QED
    BY <1>2, <2>1, <2>2, <2>3
<1>8. CASE DeleteLoading
  <2>1. UNCHANGED <<hardPos, motor, extruderStep, currentAdvance>>
    BY <1>8 DEF DeleteLoading
  <2> QED
    BY <1>2, <2>1
<1>9. CASE UNCHANGED <<hardPos, motor, extruderStep, currentAdvance>>
  BY <1>2, <1>9
<1>10. \/ Tick \/ TickNext \/ TickLast \/ StartStore \/ AdvanceISR
       \/ DeleteLoading \/ UNCHANGED <<hardPos, motor, extruderStep, currentAdvance>>
  BY DEF Next, TIM1, StartLoad, Halt, SetTrigger, Switch, vars
<1> QED
  BY <1>3, <1>4, <1>5, <1>6, <1>7, <1>8, <1>9, <1>10

-----------------------------------------------------------------------------
(* The inductive invariant.                                                *)
LEMMA InitIInv == Init => IInv
<1> SUFFICES ASSUME Init PROVE IInv
  OBVIOUS
<1> USE AxisAssumption, MaxLoadAssumption DEF Init
<1>1. TypeOK
  <2>1. /\ step \in [Axis -> Nat] /\ counter \in [Axis -> Nat]
        /\ stepNeed \in [Axis -> Nat] /\ dir \in [Axis -> BOOLEAN]
        /\ hardPos \in [Axis -> Int] /\ motor \in [Axis -> Int]
    OBVIOUS
  <2>2. /\ timerOn \in BOOLEAN /\ enableTrigger \in BOOLEAN
        /\ loading \in BOOLEAN /\ lostStep \in BOOLEAN
    OBVIOUS
  <2> QED
    BY <2>1, <2>2 DEF TypeOK
<1>2. MasterLeads /\ OnTheLine /\ ArriveTogether /\ DoneUnlessCut
  BY DEF MasterLeads, OnTheLine, ArriveTogether, DoneUnlessCut
<1>3. HardPosIsMotor /\ ExtruderOwesUnlessLost
  BY DEF HardPosIsMotor, ExtruderOwesUnlessLost, ExtruderOwes
<1> QED
  BY <1>1, <1>2, <1>3 DEF IInv

LEMMA NextIInv ==
  ASSUME IInv, [Next]_vars
  PROVE  IInv'
<1>1. TypeOK'
  BY TypeStep DEF IInv
<1>2. Line'
  BY <1>1, LineStep DEF IInv, Line
<1>3. HardPosIsMotor' /\ ExtruderOwesUnlessLost'
  BY PositionStep, ExtruderStep DEF IInv
<1> QED
  BY <1>1, <1>2, <1>3 DEF IInv, Line

LEMMA Inductive == Spec => []IInv
  BY InitIInv, NextIInv, PTL DEF Spec

(* The counters of stepAxis_step stay within their types.                  *)
THEOREM TypeCorrect == Spec => []TypeOK
  BY Inductive, PTL DEF IInv

(* stepAxis_step keeps every axis within one step of the straight line.    *)
THEOREM StraightLine == Spec => []OnTheLine
  BY Inductive, PTL DEF IInv

(* The axes of a motion arrive at the same tick and none oversteps.        *)
THEOREM AxesArriveTogether == Spec => []ArriveTogether
  BY Inductive, PTL DEF IInv

(* Only an end switch makes an axis stop short of its last step.           *)
THEOREM OnlySwitchesCut == Spec => []DoneUnlessCut
  BY Inductive, PTL DEF IInv

(* hardPos, which stop and homing read back, is where the motors are.      *)
THEOREM PositionKept == Spec => []HardPosIsMotor
  BY Inductive, PTL DEF IInv

(* The extruder's account of libStepAxis.h:27 balances until TIM4          *)
(* preempts the thread's update.                                           *)
THEOREM ExtruderBalances == Spec => []ExtruderOwesUnlessLost
  BY Inductive, PTL DEF IInv

(* An axis that its switch cut off, or that has made its steps, stays      *)
(* still while the others go on, whatever its switch does.                 *)
THEOREM StillAfterCut == Spec => CutOffStaysStill
<1>1. IInv /\ [Next]_vars =>
        [\A i \in Axis : i \notin busyFlag /\ Going # {} =>
                            hardPos'[i] = hardPos[i]]_vars
  <2> SUFFICES ASSUME IInv, Next, Going # {}, NEW i \in Axis, i \notin busyFlag
               PROVE  hardPos'[i] = hardPos[i]
    OBVIOUS
  <2>1. CASE Tick
    BY <2>1 DEF Tick, Move, Stepping, Going
  <2>2. CASE ~Tick
    BY <2>2 DEF Next, TIM1, TickNext, TickLast, StartLoad, StartStore, Halt,
       DeleteLoading, AdvanceISR, SetTrigger, Switch
  <2> QED
    BY <2>1, <2>2
<1> QED
  BY <1>1, Inductive, PTL DEF Spec, CutOffStaysStill
=============================================================================
