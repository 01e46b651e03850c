---------------------------- MODULE HeaterProofs ----------------------------
(***************************************************************************)
(* The target of the extruder for every set of targets of the G-code and   *)
(* of the display, every default, and as many presses of buttons as one    *)
(* likes.  IInv is inductive: each of its parts is kept by a lemma with    *)
(* one step per action; the typing is all the parts have to know of one    *)
(* another.                                                                *)
(***************************************************************************)
EXTENDS Heater, TLAPS

(* The targets; a step of a call keeps the places, a button also the jobs. *)
LEMMA Targets ==
  /\ 0 \in Target /\ Cool \in Target /\ Feed \in Target /\ Default \in Target
  /\ Code \subseteq Target /\ User \subseteq Target /\ Target \subseteq Nat
  BY TargetAssumption DEF Target, Cool, Feed

LEMMA GoTypes ==
  ASSUME TypeOK, NEW p \in Caller, NEW x \in Place, NEW j \in Job
  PROVE  /\ Go(p, x) => at' \in [Caller -> Place]
         /\ Call(p, j, x) => /\ at' \in [Caller -> Place]
                             /\ job' \in [Caller -> Job]
  BY DEF TypeOK, Go, Call

Pressed ==
  /\ at' \in [Caller -> Place] /\ job' \in [Caller -> Job]
  /\ presses' \in 0 .. MaxPress
  /\ touched' = TRUE /\ slipped' = FALSE /\ chosen' \in Target
  /\ UNCHANGED <<board, temperDst, reader>>

LEMMA PressTypes ==
  ASSUME TypeOK
  PROVE  \A j \in Job, x \in Place : Press(j, x) => Pressed
<1>1. "hmi" \in Caller
  BY DEF Caller
<1> QED
  BY <1>1, GoTypes, TargetAssumption DEF TypeOK, Press, Pressed

(* Types are kept. *)
LEMMA TypeStep ==
  ASSUME TypeOK, [Next]_vars
  PROVE  TypeOK'
<1> USE TargetAssumption, Targets DEF TypeOK, board, display, reader, calls,
   history, Caller
<1>1. CASE Report
  BY <1>1 DEF Report
<1>2. CASE SendData
  BY <1>2 DEF SendData
<1>3. CASE WaitOnly
  BY <1>3 DEF WaitOnly, Line
<1>4. CASE StoreCode
  BY <1>4 DEF StoreCode, Store, After, Line
<1>5. CASE WaitReturns
  BY <1>5 DEF WaitReturns, Line
<1>6. ASSUME NEW code \in {"store104", "store109"}, NEW s \in Code, Run(code, s)
      PROVE  TypeOK'
  BY <1>6 DEF Run, After, Line
<1>7. CASE LockerOn
  <2>1. "on" \in Job /\ (IF device = 0 THEN "set" ELSE "lock") \in Place
    BY <1>7 DEF Job, Place
  <2>2. Press("on", (IF device = 0 THEN "set" ELSE "lock"))
    BY <1>7 DEF LockerOn
  <2>3. Pressed
    BY <2>1, <2>2, PressTypes
  <2> QED
    BY <1>7, <2>3, Targets DEF LockerOn, Pressed
<1>8. CASE LockerOff
  <2>1. "off" \in Job /\ (IF device = 0 THEN "set" ELSE "rest") \in Place
    BY <1>8 DEF Job, Place
  <2>2. Press("off", (IF device = 0 THEN "set" ELSE "rest"))
    BY <1>8 DEF LockerOff
  <2>3. Pressed
    BY <2>1, <2>2, PressTypes
  <2> QED
    BY <1>8, <2>3, Targets DEF LockerOff, Open, Pressed
<1>9. CASE Filament
  <2>1. "filament" \in Job /\ "set" \in Place
    BY <1>9 DEF Job, Place
  <2>2. Press("filament", "set")
    BY <1>9 DEF Filament
  <2>3. Pressed
    BY <2>1, <2>2, PressTypes
  <2> QED
    BY <1>9, <2>3, Targets DEF Filament, Open, Pressed
<1>10. ASSUME NEW t \in User, Modify(t)
      PROVE  TypeOK'
  <2>1. "modify" \in Job /\ "set" \in Place
    BY <1>10 DEF Job, Place
  <2>2. Press("modify", "set")
    BY <1>10 DEF Modify
  <2>3. Pressed
    BY <2>1, <2>2, PressTypes
  <2> QED
    BY <1>10, <2>3, Targets DEF Modify, Open, Pressed
<1>11. ASSUME NEW j \in {"start", "stop", "cancel"}, UserCall(j)
      PROVE  TypeOK'
  <2>1. j \in Job /\ "kill" \in Place
    BY <1>11 DEF Job, Place
  <2>2. Press(j, "kill")
    BY <1>11 DEF UserCall
  <2>3. Pressed
    BY <2>1, <2>2, PressTypes
  <2> QED
    BY <1>11, <2>3, Targets DEF UserCall, Pressed
<1>12. CASE Set
  <2>1. (IF job["hmi"] \in {"off", "cancel"} THEN "rest" ELSE "lock") \in Place
    BY <1>12 DEF Place
  <2>2. at' \in [Caller -> Place]
    BY <1>12, <2>1, GoTypes DEF Set
  <2> QED
    BY <1>12, <2>2, Targets DEF Set
<1>13. CASE Lock
  <2>1. "rest" \in Place
    BY <1>13 DEF Place
  <2>2. at' \in [Caller -> Place]
    BY <1>13, <2>1, GoTypes DEF Lock
  <2> QED
    BY <1>13, <2>2, Targets DEF Lock
<1>14. CASE AutoStop
  <2>1. "stop" \in Job /\ "kill" \in Place
    BY DEF Job, Place
  <2> QED
    BY <1>14, <2>1, GoTypes, Targets DEF AutoStop
<1>15. ASSUME NEW p \in Caller, Kill(p)
      PROVE  TypeOK'
  <2>1. (IF job[p] = "start" THEN "begin" ELSE "off") \in Place
    BY <1>15 DEF Place
  <2>2. at' \in [Caller -> Place]
    BY <1>15, <2>1, GoTypes DEF Kill
  <2> QED
    BY <1>15, <2>2, Targets DEF Kill, Line
<1>16. ASSUME NEW p \in Caller, Off(p)
      PROVE  TypeOK'
  <2>1. (IF slock THEN "begin" ELSE "zero") \in Place
    BY <1>16 DEF Place
  <2>2. at' \in [Caller -> Place]
    BY <1>16, <2>1, GoTypes DEF Off
  <2> QED
    BY <1>16, <2>2, Targets DEF Off
<1>17. ASSUME NEW p \in Caller, Zero(p)
      PROVE  TypeOK'
  <2>1. "begin" \in Place
    BY <1>17 DEF Place
  <2>2. at' \in [Caller -> Place]
    BY <1>17, <2>1, GoTypes DEF Zero
  <2> QED
    BY <1>17, <2>2, Targets DEF Zero, Store
<1>18. ASSUME NEW p \in Caller, Begin(p)
      PROVE  TypeOK'
  <2>1. "set" \in Place /\ "rest" \in Place
    BY DEF Place
  <2>2. at' \in [Caller -> Place]
    BY <1>18, <2>1, GoTypes DEF Begin
  <2>3. device' \in {0, 1} /\ arg' \in Target
    BY <1>18, Targets DEF Begin
  <2> QED
    BY <1>18, <2>2, <2>3 DEF Begin
<1>19. CASE UNCHANGED vars
  BY <1>19 DEF vars
<1> QED
  BY <1>1, <1>2, <1>3, <1>4, <1>5, <1>6, <1>7, <1>8, <1>9, <1>10, <1>11,
     <1>12, <1>13, <1>14, <1>15, <1>16, <1>17, <1>18, <1>19 DEF Next, GCode,
     Button, HmiStep, CallStep, Caller

(* A target that nobody asks for is turned off, or being turned off. *)
LEMMA OffStep ==
  ASSUME TypeOK, OnTheWayOff, [Next]_vars
  PROVE  OnTheWayOff'
<1> USE DEF TypeOK, OnTheWayOff, board, display, reader, calls, history, Caller
<1>1. CASE Report
  BY <1>1 DEF Report
<1>2. CASE SendData
  BY <1>2 DEF SendData
<1>3. CASE WaitOnly
  BY <1>3 DEF WaitOnly
<1>4. CASE StoreCode
  BY <1>4 DEF StoreCode, Store, After
<1>5. CASE WaitReturns
  BY <1>5 DEF WaitReturns
<1>6. ASSUME NEW code \in {"store104", "store109"}, NEW s \in Code, Run(code, s)
      PROVE  OnTheWayOff'
  BY <1>6 DEF Run, After
<1>7. CASE LockerOn
  BY <1>7 DEF LockerOn, Press, Call, Go
<1>8. CASE LockerOff
  BY <1>8 DEF LockerOff, Press, Call, Go, Open
<1>9. CASE Filament
  BY <1>9 DEF Filament, Press, Call, Go, Open
<1>10. ASSUME NEW t \in User, Modify(t)
      PROVE  OnTheWayOff'
  BY <1>10 DEF Modify, Press, Call, Go, Open
<1>11. ASSUME NEW j \in {"start", "stop", "cancel"}, UserCall(j)
      PROVE  OnTheWayOff'
  BY <1>11 DEF UserCall, Press, Call, Go
<1>12. CASE Set
  BY <1>12 DEF Set, Go
<1>13. CASE Lock
  BY <1>13 DEF Lock, Go
<1>14. CASE AutoStop
  BY <1>14 DEF AutoStop, Call, Go
<1>15. ASSUME NEW p \in Caller, Kill(p)
      PROVE  OnTheWayOff'
  BY <1>15 DEF Kill, Go
<1>16. ASSUME NEW p \in Caller, Off(p)
      PROVE  OnTheWayOff'
  BY <1>16 DEF Off, Go
<1>17. ASSUME NEW p \in Caller, Zero(p)
      PROVE  OnTheWayOff'
  BY <1>17 DEF Zero, Store, Go
<1>18. ASSUME NEW p \in Caller, Begin(p)
      PROVE  OnTheWayOff'
  BY <1>18 DEF Begin, Go
<1>19. CASE UNCHANGED vars
  BY <1>19 DEF vars
<1> QED
  BY <1>1, <1>2, <1>3, <1>4, <1>5, <1>6, <1>7, <1>8, <1>9, <1>10, <1>11,
     <1>12, <1>13, <1>14, <1>15, <1>16, <1>17, <1>18, <1>19 DEF Next, GCode,
     Button, HmiStep, CallStep, Caller

(* An M109 that nobody disturbs has its target. *)
LEMMA HeldStep ==
  ASSUME TypeOK, Undisturbed, [Next]_vars
  PROVE  Undisturbed'
<1> USE DEF TypeOK, Undisturbed, board, display, reader, calls, history, Caller
<1>1. CASE Report
  BY <1>1 DEF Report
<1>2. CASE SendData
  BY <1>2 DEF SendData
<1>3. CASE WaitOnly
  BY <1>3 DEF WaitOnly
<1>4. CASE StoreCode
  BY <1>4 DEF StoreCode, Store, After
<1>5. CASE WaitReturns
  BY <1>5 DEF WaitReturns
<1>6. ASSUME NEW code \in {"store104", "store109"}, NEW s \in Code, Run(code, s)
      PROVE  Undisturbed'
  BY <1>6 DEF Run, After
<1>7. CASE LockerOn
  BY <1>7 DEF LockerOn, Press, Call, Go
<1>8. CASE LockerOff
  BY <1>8 DEF LockerOff, Press, Call, Go, Open
<1>9. CASE Filament
  BY <1>9 DEF Filament, Press, Call, Go, Open
<1>10. ASSUME NEW t \in User, Modify(t)
      PROVE  Undisturbed'
  BY <1>10 DEF Modify, Press, Call, Go, Open
<1>11. ASSUME NEW j \in {"start", "stop", "cancel"}, UserCall(j)
      PROVE  Undisturbed'
  BY <1>11 DEF UserCall, Press, Call, Go
<1>12. CASE Set
  BY <1>12 DEF Set, Go
<1>13. CASE Lock
  BY <1>13 DEF Lock, Go
<1>14. CASE AutoStop
  BY <1>14 DEF AutoStop, Call, Go
<1>15. ASSUME NEW p \in Caller, Kill(p)
      PROVE  Undisturbed'
  BY <1>15 DEF Kill, Go
<1>16. ASSUME NEW p \in Caller, Off(p)
      PROVE  Undisturbed'
  BY <1>16 DEF Off, Go
<1>17. ASSUME NEW p \in Caller, Zero(p)
      PROVE  Undisturbed'
  BY <1>17 DEF Zero, Store, Go
<1>18. ASSUME NEW p \in Caller, Begin(p)
      PROVE  Undisturbed'
  BY <1>18 DEF Begin, Go
<1>19. CASE UNCHANGED vars
  BY <1>19 DEF vars
<1> QED
  BY <1>1, <1>2, <1>3, <1>4, <1>5, <1>6, <1>7, <1>8, <1>9, <1>10, <1>11,
     <1>12, <1>13, <1>14, <1>15, <1>16, <1>17, <1>18, <1>19 DEF Next, GCode,
     Button, HmiStep, CallStep, Caller

(* In manual mode the lock is closed, or will be. *)
LEMMA LockStep ==
  ASSUME TypeOK, Locking, [Next]_vars
  PROVE  Locking'
<1> USE DEF TypeOK, Locking, board, display, reader, calls, history, Caller
<1>1. CASE Report
  BY <1>1 DEF Report
<1>2. CASE SendData
  BY <1>2 DEF SendData
<1>3. CASE WaitOnly
  BY <1>3 DEF WaitOnly
<1>4. CASE StoreCode
  BY <1>4 DEF StoreCode, Store, After
<1>5. CASE WaitReturns
  BY <1>5 DEF WaitReturns
<1>6. ASSUME NEW code \in {"store104", "store109"}, NEW s \in Code, Run(code, s)
      PROVE  Locking'
  BY <1>6 DEF Run, After
<1>7. CASE LockerOn
  BY <1>7 DEF LockerOn, Press, Call, Go
<1>8. CASE LockerOff
  BY <1>8 DEF LockerOff, Press, Call, Go, Open
<1>9. CASE Filament
  BY <1>9 DEF Filament, Press, Call, Go, Open
<1>10. ASSUME NEW t \in User, Modify(t)
      PROVE  Locking'
  BY <1>10 DEF Modify, Press, Call, Go, Open
<1>11. ASSUME NEW j \in {"start", "stop", "cancel"}, UserCall(j)
      PROVE  Locking'
  BY <1>11 DEF UserCall, Press, Call, Go
<1>12. CASE Set
  BY <1>12 DEF Set, Go
<1>13. CASE Lock
  BY <1>13 DEF Lock, Go
<1>14. CASE AutoStop
  BY <1>14 DEF AutoStop, Call, Go
<1>15. ASSUME NEW p \in Caller, Kill(p)
      PROVE  Locking'
  BY <1>15 DEF Kill, Go
<1>16. ASSUME NEW p \in Caller, Off(p)
      PROVE  Locking'
  BY <1>16 DEF Off, Go
<1>17. ASSUME NEW p \in Caller, Zero(p)
      PROVE  Locking'
  BY <1>17 DEF Zero, Store, Go
<1>18. ASSUME NEW p \in Caller, Begin(p)
      PROVE  Locking'
  BY <1>18 DEF Begin, Go
<1>19. CASE UNCHANGED vars
  BY <1>19 DEF vars
<1> QED
  BY <1>1, <1>2, <1>3, <1>4, <1>5, <1>6, <1>7, <1>8, <1>9, <1>10, <1>11,
     <1>12, <1>13, <1>14, <1>15, <1>16, <1>17, <1>18, <1>19 DEF Next, GCode,
     Button, HmiStep, CallStep, Caller

-----------------------------------------------------------------------------
(* The inductive invariant holds initially and is kept by every step.      *)
LEMMA InitIInv == Init => IInv
<1> USE TargetAssumption
<1> SUFFICES ASSUME Init PROVE IInv
  OBVIOUS
<1>1. TypeOK
  <2>1. /\ "rest" \in Place /\ "none" \in Job /\ "none" \in Line
    BY DEF Place, Job, Line
  <2>2. /\ at \in [Caller -> Place] /\ job \in [Caller -> Job]
        /\ presses \in 0 .. MaxPress
    BY <2>1 DEF Init
  <2> QED
    BY <2>1, <2>2, Targets DEF Init, TypeOK
<1>2. OnTheWayOff /\ Undisturbed /\ Locking
  BY DEF Init, OnTheWayOff, Undisturbed, Locking
<1> QED
  BY <1>1, <1>2 DEF IInv

LEMMA NextIInv == IInv /\ [Next]_vars => IInv'
  BY TypeStep, OffStep, HeldStep, LockStep DEF IInv

LEMMA Inductive == Spec => []IInv
  BY InitIInv, NextIInv, PTL DEF Spec

-----------------------------------------------------------------------------
(* Every variable keeps its type in every behaviour: whatever is stored,   *)
(* locked or sent to the sub-board is a target somebody asked for.         *)
THEOREM TypeCorrect == Spec => []TypeOK
<1>1. IInv => TypeOK
  BY DEF IInv
<1> QED
  BY <1>1, Inductive, PTL

(* The heater is off after corePrinter_stop, unless the display holds the  *)
(* lock or somebody asked again: no late store of the deleted G-code       *)
(* thread survives the stop.                                               *)
THEOREM StopTurnsOff == Spec => []OffAfterStop
<1>1. IInv => OffAfterStop
  BY DEF IInv, OnTheWayOff, OffAfterStop, AtRest, Caller
<1> QED
  BY <1>1, Inductive, PTL

(* M109 waits for the target it set, if no button disturbs it: CPThread's  *)
(* stop deletes the waiting thread before it turns the heater off.         *)
THEOREM WaitsForItsTarget == Spec => []HeldTarget
<1>1. IInv => HeldTarget
  BY DEF IInv, Undisturbed, HeldTarget
<1> QED
  BY <1>1, Inductive, PTL

(* In manual mode the target is locked at the display's, unless a store    *)
(* had tested the lock before it was closed.                               *)
THEOREM ManualLocked == Spec => []ManualIsUsers
<1>1. IInv => ManualIsUsers
  BY DEF IInv, Locking, ManualIsUsers
<1> QED
  BY <1>1, Inductive, PTL
=============================================================================
