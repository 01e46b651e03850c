--------------------------- MODULE PrintJobProofs ---------------------------
(***************************************************************************)
(* The life of a print for every set of threads, number of prints, length  *)
(* of file and room in the buffer.  IInv is inductive: TypeOK and Numbers  *)
(* hold whatever calls overlap, Calls as long as none have.  InputIs says  *)
(* once what handing over a motion does to the buffer.                     *)
(***************************************************************************)
EXTENDS PrintJob, SequenceTheorems, TLAPS

Motion == {0} \cup Job

(* A motion handed over goes behind the others, and the first of them is   *)
(* loaded if the engine is idle.                                           *)
LEMMA InputIs ==
  ASSUME TypeOK, NEW j \in Motion, Input(j)
  PROVE  /\ queue' \in Seq(Motion) /\ Len(queue') <= Room
         /\ running' \in {None} \cup Motion /\ idle' \in BOOLEAN
         /\ at' = at \/ Wake
         /\ \A f : j = f /\ (\A i \in 1 .. Len(queue) : queue[i] = f)
                   => /\ \A i \in 1 .. Len(queue') : queue'[i] = f
                      /\ running' \in {running, f}
<1> DEFINE q == Append(queue, j)
<1>1. queue \in Seq(Motion) /\ Len(queue) <= Room /\ Room \in Nat
  BY BoundAssumption DEF TypeOK, Motion
<1>2. /\ q \in Seq(Motion) /\ q # <<>> /\ Len(q) = Len(queue) + 1
      /\ \A i \in 1 .. Len(queue) : q[i] = queue[i]
      /\ q[Len(queue) + 1] = j
  BY <1>1, AppendProperties
<1>3. CASE idle
  <2>1. running' = Head(q) /\ queue' = Tail(q) /\ idle' = FALSE /\ Wake
    BY <1>3 DEF Input
  <2> HIDE DEF q
  <2>2. /\ Head(q) \in Motion /\ Head(q) = q[1]
        /\ Tail(q) \in Seq(Motion) /\ Len(Tail(q)) = Len(q) - 1
        /\ \A i \in 1 .. Len(Tail(q)) : Tail(q)[i] = q[i + 1]
    BY <1>2, HeadTailProperties
  <2>3. Len(queue') <= Room
    BY <1>1, <1>2, <2>1, <2>2
  <2>4. ASSUME NEW f, j = f, \A i \in 1 .. Len(queue) : queue[i] = f
        PROVE  /\ \A i \in 1 .. Len(queue') : queue'[i] = f
               /\ running' \in {running, f}
    <3>1. \A i \in 1 .. Len(q) : q[i] = f
      BY <1>1, <1>2, <2>4
    <3>2. \A i \in 1 .. Len(queue') : i + 1 \in 1 .. Len(q)
      BY <1>1, <1>2, <2>1, <2>2
    <3>3. 1 \in 1 .. Len(q)
      BY <1>1, <1>2
    <3> QED
      BY <2>1, <2>2, <3>1, <3>2, <3>3
  <2> QED
    BY <2>1, <2>2, <2>3, <2>4
<1>4. CASE ~idle
  <2>1. queue' = q /\ running' = running /\ idle' = idle /\ at' = at
    BY <1>4 DEF Input
  <2>2. Len(queue) < Room
    BY DEF Input
  <2> HIDE DEF q
  <2>3. Len(queue') <= Room
    BY <1>1, <1>2, <2>1, <2>2
  <2>4. ASSUME NEW f, j = f, \A i \in 1 .. Len(queue) : queue[i] = f
        PROVE  \A i \in 1 .. Len(queue') : queue'[i] = f
    BY <1>1, <1>2, <2>1, <2>4
  <2>5. running \in {None} \cup Motion /\ idle \in BOOLEAN
    BY DEF TypeOK, Motion
  <2> QED
    BY <1>2, <2>1, <2>3, <2>4, <2>5
<1> QED
  BY <1>3, <1>4

(* The end of a motion takes the first that waits.                         *)
LEMMA EndMotionIs ==
  ASSUME TypeOK, EndMotion
  PROVE  /\ queue' \in Seq(Motion) /\ Len(queue') <= Room
         /\ running' \in {None} \cup Motion /\ idle' \in BOOLEAN /\ Wake
         /\ \A f : (\A i \in 1 .. Len(queue) : queue[i] = f)
                   => /\ \A i \in 1 .. Len(queue') : queue'[i] = f
                      /\ running' \in {None, f}
         /\ running # None
<1>1. queue \in Seq(Motion) /\ Len(queue) <= Room /\ Room \in Nat
  BY BoundAssumption DEF TypeOK, Motion
<1>2. CASE queue # <<>>
  <2>1. /\ Head(queue) \in Motion /\ Head(queue) = queue[1]
        /\ Tail(queue) \in Seq(Motion) /\ Len(Tail(queue)) = Len(queue) - 1
        /\ \A i \in 1 .. Len(Tail(queue)) : Tail(queue)[i] = queue[i + 1]
    BY <1>1, <1>2, HeadTailProperties
  <2>2. /\ running' = Head(queue) /\ queue' = Tail(queue)
        /\ idle' = FALSE /\ Wake /\ running # None
    BY <1>2 DEF EndMotion
  <2>3. Len(queue') <= Room /\ 1 \in 1 .. Len(queue)
    BY <1>1, <1>2, <2>1, <2>2
  <2>4. \A i \in 1 .. Len(queue') : i + 1 \in 1 .. Len(queue)
    BY <1>1, <2>1, <2>2
  <2> QED
    BY <2>1, <2>2, <2>3, <2>4
<1>3. CASE queue = <<>>
  BY <1>1, <1>3 DEF EndMotion
<1> QED
  BY <1>2, <1>3

(* Waking CPThread moves nobody else, and out of no call.                  *)
LEMMA WakeIs ==
  ASSUME TypeOK, at' = at \/ Wake
  PROVE  /\ at' \in [Caller -> Place] /\ at'["hmi"] = at["hmi"]
         /\ \A p \in Caller : \/ at'[p] = at[p]
                              \/ at[p] = "blocked" /\ at'[p] = "woken"
  BY DEF TypeOK, Wake, Caller, Place

(* Types are kept.                                                         *)
LEMMA TypeStep ==
  ASSUME TypeOK, Numbers, [Next]_vars
  PROVE  TypeOK'
<1> USE BoundAssumption DEF TypeOK, Numbers, print, reader, buffer, Caller,
   Place, InCall, Opened
<1>1. CASE EndMotion
  <2>1. /\ queue' \in Seq(Motion) /\ Len(queue') <= Room
        /\ running' \in {None} \cup Motion /\ idle' \in BOOLEAN /\ Wake
    BY <1>1, EndMotionIs
  <2>2. at' \in [Caller -> Place]
    BY <2>1, WakeIs
  <2>3. UNCHANGED <<print, reader, call, overlap>>
    BY <1>1 DEF EndMotion
  <2> QED
    BY <2>1, <2>2, <2>3 DEF Motion
<1>2. CASE Poll
  BY <1>2 DEF Poll, Go
<1>3. CASE Measure
  BY <1>3 DEF Measure, Go
<1>4. CASE Await
  BY <1>4 DEF Await, Go
<1>5. CASE AutoStop
  BY <1>5 DEF AutoStop, Enter, Go
<1>6. CASE UserStart
  BY <1>6 DEF UserStart, Enter, Go
<1>7. CASE UserStop
  BY <1>7 DEF UserStop, Enter, Go
<1>8. ASSUME NEW t \in Thread, GetLine(t)
      PROVE  TypeOK'
  <2>1. pos' \in 0 .. Lines
    BY <1>8 DEF GetLine
  <2>2. line' \in [Thread -> {None, 0} \cup Job]
    BY <1>8 DEF GetLine, Job
  <2> QED
    BY <1>8, <2>1, <2>2 DEF GetLine
<1>9. ASSUME NEW t \in Thread, RunLine(t)
      PROVE  TypeOK'
  <2>1. line[t] \in Motion /\ Input(line[t])
    BY <1>9 DEF RunLine, Motion
  <2>2. /\ queue' \in Seq(Motion) /\ Len(queue') <= Room
        /\ running' \in {None} \cup Motion /\ idle' \in BOOLEAN
        /\ at' = at \/ Wake
    BY <2>1, InputIs
  <2>3. at' \in [Caller -> Place]
    BY <2>2, WakeIs
  <2>4. line' \in [Thread -> {None, 0} \cup Job]
    BY <1>9 DEF RunLine
  <2>5. UNCHANGED <<print, handle, alive, device, attached, stopped, started,
                    call, overlap>>
    BY <1>9 DEF RunLine
  <2> QED
    BY <2>2, <2>3, <2>4, <2>5 DEF Motion
<1>10. ASSUME NEW p \in Caller, Close(p)
      PROVE  TypeOK'
  BY <1>10 DEF Close, Go
<1>11. ASSUME NEW p \in Caller, Kill(p)
      PROVE  TypeOK'
  BY <1>11 DEF Kill, Go
<1>12. ASSUME NEW p \in Caller, Reset(p)
      PROVE  TypeOK'
  BY <1>12 DEF Reset, Go
<1>13. ASSUME NEW p \in Caller, Halt(p)
      PROVE  TypeOK'
  <2>1. queue' \in Seq({0} \cup Job) /\ Len(queue') <= Room
    BY <1>13 DEF Halt
  <2>2. at' \in [Caller -> Place]
    BY <1>13 DEF Halt, Go
  <2>3. UNCHANGED <<print, reader, call, overlap>>
    BY <1>13 DEF Halt
  <2>4. running' = None /\ idle' = FALSE
    BY <1>13 DEF Halt
  <2> QED
    BY <2>1, <2>2, <2>3, <2>4
<1>14. ASSUME NEW p \in Caller, Rewind(p)
      PROVE  TypeOK'
  BY <1>14 DEF Rewind
<1>15. ASSUME NEW p \in Caller, Open(p)
      PROVE  TypeOK'
  <2>1. jobs < MaxJob
    BY <1>15 DEF Open
  <2>2. jobs' \in 0 .. MaxJob /\ file' \in 0 .. MaxJob
    BY <1>15, <2>1 DEF Open
  <2>3. at' \in [Caller -> Place]
    BY <1>15 DEF Open, Go
  <2> QED
    BY <1>15, <2>2, <2>3 DEF Open
<1>16. ASSUME NEW p \in Caller, Finish(p)
      PROVE  TypeOK'
  BY <1>16 DEF Finish, Go
<1>17. ASSUME NEW p \in Caller, Begin(p)
      PROVE  TypeOK'
  BY <1>17 DEF Begin, Go, Target
<1>18. ASSUME NEW p \in Caller, Send(p)
      PROVE  TypeOK'
  BY <1>18 DEF Send, Go
<1>19. ASSUME NEW p \in Caller, Mark(p)
      PROVE  TypeOK'
  BY <1>19 DEF Mark, Go
<1>20. CASE UNCHANGED vars
  BY <1>20 DEF vars
<1> QED
  BY <1>1, <1>2, <1>3, <1>4, <1>5, <1>6, <1>7, <1>8, <1>9, <1>10, <1>11,
     <1>12, <1>13, <1>14, <1>15, <1>16, <1>17, <1>18, <1>19, <1>20 DEF Next,
     CP, CallStep

(* The parts that hold whatever overlaps are kept.                         *)
LEMMA NumbersStep ==
  ASSUME TypeOK, Numbers, [Next]_vars
  PROVE  Numbers'
<1> USE BoundAssumption DEF TypeOK, Numbers, print, reader, buffer, Caller,
   Opened
<1>1. CASE EndMotion
  BY <1>1, EndMotionIs, WakeIs DEF EndMotion
<1>2. CASE Poll
  BY <1>2 DEF Poll, Go
<1>3. CASE Measure
  BY <1>3 DEF Measure, Go
<1>4. CASE Await
  BY <1>4 DEF Await, Go
<1>5. CASE AutoStop
  BY <1>5 DEF AutoStop, Enter, Go
<1>6. CASE UserStart
  BY <1>6 DEF UserStart, Enter, Go
<1>7. CASE UserStop
  BY <1>7 DEF UserStop, Enter, Go
<1>8. ASSUME NEW t \in Thread, GetLine(t)
      PROVE  Numbers'
  BY <1>8 DEF GetLine
<1>9. ASSUME NEW t \in Thread, RunLine(t)
      PROVE  Numbers'
  <2>1. line[t] \in Motion /\ Input(line[t])
    BY <1>9 DEF RunLine, Motion
  <2>2. at' = at \/ Wake
    BY <2>1, InputIs
  <2>3. /\ at'["hmi"] = at["hmi"]
        /\ \A p \in Caller : \/ at'[p] = at[p]
                             \/ at[p] = "blocked" /\ at'[p] = "woken"
    BY <2>2, WakeIs
  <2> QED
    BY <1>9, <2>3 DEF RunLine
<1>10. ASSUME NEW p \in Caller, Close(p)
      PROVE  Numbers'
  BY <1>10 DEF Close, Go
<1>11. ASSUME NEW p \in Caller, Kill(p)
      PROVE  Numbers'
  BY <1>11 DEF Kill, Go
<1>12. ASSUME NEW p \in Caller, Reset(p)
      PROVE  Numbers'
  BY <1>12 DEF Reset, Go
<1>13. ASSUME NEW p \in Caller, Halt(p)
      PROVE  Numbers'
  BY <1>13 DEF Halt, Go
<1>14. ASSUME NEW p \in Caller, Rewind(p)
      PROVE  Numbers'
  BY <1>14 DEF Rewind
<1>15. ASSUME NEW p \in Caller, Open(p)
      PROVE  Numbers'
  BY <1>15 DEF Open, Go
<1>16. ASSUME NEW p \in Caller, Finish(p)
      PROVE  Numbers'
  BY <1>16 DEF Finish, Go
<1>17. ASSUME NEW p \in Caller, Begin(p)
      PROVE  Numbers'
  BY <1>17 DEF Begin, Go, Target
<1>18. ASSUME NEW p \in Caller, Send(p)
      PROVE  Numbers'
  BY <1>18 DEF Send, Go
<1>19. ASSUME NEW p \in Caller, Mark(p)
      PROVE  Numbers'
  BY <1>19 DEF Mark, Go
<1>20. CASE UNCHANGED vars
  BY <1>20 DEF vars
<1> QED
  BY <1>1, <1>2, <1>3, <1>4, <1>5, <1>6, <1>7, <1>8, <1>9, <1>10, <1>11,
     <1>12, <1>13, <1>14, <1>15, <1>16, <1>17, <1>18, <1>19, <1>20 DEF Next,
     CP, CallStep

(* So are those about calls that do not overlap.                           *)
LEMMA CallsStep ==
  ASSUME TypeOK, Numbers, Calls, [Next]_vars
  PROVE  Calls'
<1> USE DEF TypeOK, Numbers, Calls, print, reader, buffer, Caller,
   InCall, Quiet, Deleted, Emptied, Stopping, Own
<1>1. CASE EndMotion
  <2> SUFFICES ASSUME ~overlap PROVE Calls'
    BY <1>1 DEF EndMotion
  <2>1. /\ Wake /\ running # None
        /\ (\A i \in 1 .. Len(queue) : queue[i] = file)
           => /\ \A i \in 1 .. Len(queue') : queue'[i] = file
              /\ running' \in {None, file}
    <3>1. \A f : (\A i \in 1 .. Len(queue) : queue[i] = f)
               => /\ \A i \in 1 .. Len(queue') : queue'[i] = f
                  /\ running' \in {None, f}
      BY <1>1, EndMotionIs
    <3>2. Wake /\ running # None
      BY <1>1, EndMotionIs
    <3> QED
      BY <3>1, <3>2
  <2>2. /\ at'["hmi"] = at["hmi"]
        /\ \A p \in Caller : \/ at'[p] = at[p]
                             \/ at[p] = "blocked" /\ at'[p] = "woken"
    BY <2>1, WakeIs
  <2>3. UNCHANGED <<print, reader, call, overlap>>
    BY <1>1 DEF EndMotion
  <2>4. \A p \in Caller : ~Emptied(p)
    BY <2>1
  <2>5. \A p \in Caller : Quiet(p)'
    BY <2>2, <2>3, <2>4
  <2>6. Own => Own'
    BY <2>1, <2>3
  <2> QED
    BY <2>2, <2>3, <2>5, <2>6
<1>2. CASE Poll
  BY <1>2 DEF Poll, Go
<1>3. CASE Measure
  BY <1>3 DEF Measure, Go
<1>4. CASE Await
  BY <1>4 DEF Await, Go
<1>5. CASE AutoStop
  BY <1>5 DEF AutoStop, Enter, Go
<1>6. CASE UserStart
  BY <1>6 DEF UserStart, Enter, Go
<1>7. CASE UserStop
  BY <1>7 DEF UserStop, Enter, Go
<1>8. ASSUME NEW t \in Thread, GetLine(t)
      PROVE  Calls'
  BY <1>8 DEF GetLine
<1>9. ASSUME NEW t \in Thread, RunLine(t)
      PROVE  Calls'
  <2>1. line[t] \in Motion /\ Input(line[t])
    BY <1>9 DEF RunLine, Motion
  <2> SUFFICES ASSUME ~overlap PROVE Calls'
    BY <1>9 DEF RunLine
  <2>2. /\ at' = at \/ Wake
        /\ \A f : line[t] = f /\ (\A i \in 1 .. Len(queue) : queue[i] = f)
                => /\ \A i \in 1 .. Len(queue') : queue'[i] = f
                   /\ running' \in {running, f}
    BY <2>1, InputIs
  <2>3. /\ at'["hmi"] = at["hmi"]
        /\ \A p \in Caller : \/ at'[p] = at[p]
                             \/ at[p] = "blocked" /\ at'[p] = "woken"
    BY <2>2, WakeIs
  <2>4. /\ t \in alive /\ line[t] # None /\ line' = [line EXCEPT ![t] = None]
        /\ UNCHANGED <<print, handle, alive, device, stopped, call, overlap>>
    BY <1>9 DEF RunLine
  <2>5. \A p \in Caller : ~Deleted(p) /\ ~Emptied(p)
    BY <2>4
  <2>6. \A p \in Caller : Quiet(p)'
    BY <2>3, <2>4, <2>5
  <2>7. Own => Own'
    BY <2>2, <2>4
  <2> QED
    BY <2>3, <2>4, <2>6, <2>7
<1>10. ASSUME NEW p \in Caller, Close(p)
      PROVE  Calls'
  BY <1>10 DEF Close, Go
<1>11. ASSUME NEW p \in Caller, Kill(p)
      PROVE  Calls'
  BY <1>11 DEF Kill, Go
<1>12. ASSUME NEW p \in Caller, Reset(p)
      PROVE  Calls'
  BY <1>12 DEF Reset, Go
<1>13. ASSUME NEW p \in Caller, Halt(p)
      PROVE  Calls'
  BY <1>13 DEF Halt, Go
<1>14. ASSUME NEW p \in Caller, Rewind(p)
      PROVE  Calls'
  BY <1>14 DEF Rewind
<1>15. ASSUME NEW p \in Caller, Open(p)
      PROVE  Calls'
  BY <1>15 DEF Open, Go
<1>16. ASSUME NEW p \in Caller, Finish(p)
      PROVE  Calls'
  BY <1>16 DEF Finish, Go
<1>17. ASSUME NEW p \in Caller, Begin(p)
      PROVE  Calls'
  BY <1>17 DEF Begin, Go, Target
<1>18. ASSUME NEW p \in Caller, Send(p)
      PROVE  Calls'
  BY <1>18 DEF Send, Go
<1>19. ASSUME NEW p \in Caller, Mark(p)
      PROVE  Calls'
  BY <1>19 DEF Mark, Go
<1>20. CASE UNCHANGED vars
  BY <1>20 DEF vars
<1> QED
  BY <1>1, <1>2, <1>3, <1>4, <1>5, <1>6, <1>7, <1>8, <1>9, <1>10, <1>11,
     <1>12, <1>13, <1>14, <1>15, <1>16, <1>17, <1>18, <1>19, <1>20 DEF Next,
     CP, CallStep

-----------------------------------------------------------------------------
(* The inductive invariant holds initially and is kept by every step.      *)
LEMMA InitIInv == Init => IInv
<1> SUFFICES ASSUME Init PROVE IInv
  OBVIOUS
<1>1. PICK t \in Thread : handle = t /\ alive = {t}
  BY DEF Init
<1>2. TypeOK
  <2>1. /\ at \in [Caller -> Place] /\ line \in [Thread -> {None, 0} \cup Job]
        /\ call \in [Caller -> {"none", "start", "stop"}]
    BY DEF Init, Place
  <2>2. file \in 0 .. MaxJob /\ pos \in 0 .. Lines /\ jobs \in 0 .. MaxJob
    BY BoundAssumption DEF Init
  <2>3. queue \in Seq({0} \cup Job) /\ Len(queue) <= Room
    BY BoundAssumption DEF Init
  <2> QED
    BY <1>1, <2>1, <2>2, <2>3 DEF Init, TypeOK
<1>3. Numbers
  BY DEF Init, Numbers, Caller
<1>4. Calls
  BY <1>1 DEF Init, Calls, Caller, InCall, Quiet, Deleted, Emptied, Stopping,
     Own
<1> QED
  BY <1>2, <1>3, <1>4 DEF IInv

LEMMA NextIInv == IInv /\ [Next]_vars => IInv'
  BY TypeStep, NumbersStep, CallsStep DEF IInv

LEMMA Inductive == Spec => []IInv
  BY InitIInv, NextIInv, PTL DEF Spec

-----------------------------------------------------------------------------
(* Every variable keeps its type, whatever calls overlap: no print beyond  *)
(* those started, no line read past the end of the file.                   *)
THEOREM TypeCorrect == Spec => []TypeOK
<1>1. IInv => TypeOK
  BY DEF IInv
<1> QED
  BY <1>1, Inductive, PTL

(* One thread reads G-code, and none while a stop needs the motion buffer  *)
(* for itself, as long as calls do not overlap.                            *)
THEOREM OneReader == Spec => []SoleReader
<1>1. IInv => SoleReader
  BY DEF IInv, Calls, Quiet, Deleted, SoleReader
<1> QED
  BY <1>1, Inductive, PTL

(* No motion of a stopped print, or of the console, runs in another.       *)
THEOREM NoForeignMotion == Spec => []OwnMotionsOnly
<1>1. IInv => OwnMotionsOnly
  <2> SUFFICES ASSUME IInv, ~overlap, \A p \in Caller : at[p] \notin InCall
               PROVE  /\ {queue[i] : i \in DOMAIN queue} \subseteq {file}
                      /\ running \in {None, file}
                      /\ \A t \in alive : line[t] \in {None, file}
    BY DEF OwnMotionsOnly
  <2>1. Own
    BY DEF IInv, Calls
  <2>2. DOMAIN queue = 1 .. Len(queue)
    BY DEF IInv, TypeOK
  <2> QED
    BY <2>1, <2>2 DEF Own
<1> QED
  BY <1>1, Inductive, PTL
=============================================================================
