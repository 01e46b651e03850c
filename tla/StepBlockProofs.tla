-------------------------- MODULE StepBlockProofs --------------------------
(***************************************************************************)
(* The invariants of StepBlock for every size of the ring and every number *)
(* of motions.  IInv is inductive: the four lemmas TypeStep, ControlStep,  *)
(* IdleStep and OrderStep each keep one part of it, one step per action.   *)
(* Only OrderStep needs the ring's arithmetic; the other parts hold        *)
(* whatever happened to the counter.                                       *)
(***************************************************************************)
EXTENDS StepBlock, TLAPS, SequenceTheorems

(* The resuming operators keep every thread at a place it can be at, and   *)
(* the event set a set of the two events.                                  *)
LEMMA PcTypes ==
  ASSUME NEW p \in PC
  PROVE  /\ PcAfterReset(p) \in PC
         /\ PcAfterSend(p, {"COMPLETE", "IDLE"}) \in PC
  BY DEF PcAfterReset, PcAfterSend, PC

LEMMA EventTypes ==
  ASSUME events \subseteq {"COMPLETE", "IDLE"}
  PROVE  /\ EventsAfterSend(pc, {"COMPLETE", "IDLE"})
               \subseteq {"COMPLETE", "IDLE"}
         /\ EventsAfterSend(pc, {"COMPLETE"}) \ {"IDLE"}
               \subseteq {"COMPLETE", "IDLE"}
  BY DEF EventsAfterSend

LEMMA WaiterTypes ==
  ASSUME waiter \in {"out", "blocked", "ok", "error"}
  PROVE  /\ WaiterAfterReset \in {"out", "blocked", "ok", "error"}
         /\ WaiterAfterSend({"COMPLETE", "IDLE"})
               \in {"out", "blocked", "ok", "error"}
  BY DEF WaiterAfterReset, WaiterAfterSend



(* Types are kept; Put never finds the buffer full again.                  *)
LEMMA TypeStep ==
  ASSUME TypeOK, NeverNotSync, Control, [Next]_vars
  PROVE  TypeOK' /\ NeverNotSync'
<1> USE NAssumption, MaxMotionAssumption DEF ring, engine, hist, TypeOK,
   NeverNotSync, PC, Slot, Motion
<1>1. CASE ISRLoad
  <2>1. /\ buffer[tail] \in 0 .. MaxMotion
        /\ tail' \in Slot /\ len' \in 0 .. N - 1
    BY <1>1 DEF ISRLoad, inc
  <2>2. pc' \in PC /\ waiter' \in {"out", "blocked", "ok", "error"}
    BY <1>1, PcTypes, WaiterTypes DEF ISRLoad
  <2> QED
    BY <1>1, <2>1, <2>2 DEF ISRLoad
<1>2. CASE ISRDrain
  <2>1. /\ pc' \in PC /\ waiter' \in {"out", "blocked", "ok", "error"}
        /\ events' \subseteq {"COMPLETE", "IDLE"}
    BY <1>2, PcTypes, EventTypes, WaiterTypes DEF ISRDrain, Send
  <2>2. busy' \in BOOLEAN /\ timerOn' \in BOOLEAN
    BY <1>2 DEF ISRDrain
  <2> QED
    BY <1>2, <2>1, <2>2 DEF ISRDrain
<1>3. CASE Input
  BY <1>3 DEF Input
<1>4. CASE Enter
  BY <1>4 DEF Enter, Full
<1>5. CASE WaitRoom
  BY <1>5 DEF WaitRoom, Full
<1>6. CASE WaitTimeout
  BY <1>6 DEF WaitTimeout
<1>7. CASE Put
  BY <1>7 DEF Put, Full, inc, Control
<1>8. CASE CountLoad
  BY <1>8 DEF CountLoad, Control
<1>9. CASE CountStore
  BY <1>9 DEF CountStore
<1>10. CASE HandOff
  BY <1>10 DEF HandOff
<1>11. CASE Load
  <2>1. buffer[tail] \in 0 .. MaxMotion
    OBVIOUS
  <2>2. timerOn' \in BOOLEAN /\ busy' \in BOOLEAN /\ lostIdle' \in BOOLEAN
    BY <1>11 DEF Load
  <2> QED
    BY <1>11, <2>1, <2>2 DEF Load
<1>12. CASE Launch
  BY <1>12 DEF Launch, WaiterAfterReset, inc, Control
<1>13. CASE SyncCall
  BY <1>13 DEF SyncCall
<1>14. CASE Sync
  BY <1>14 DEF Sync
<1>15. CASE WaitIdle
  BY <1>15 DEF WaitIdle
<1>16. CASE WaitReturns
  BY <1>16 DEF WaitReturns
<1>17. CASE StopCall
  <2>1. events' \subseteq {"COMPLETE", "IDLE"}
    BY <1>17, EventTypes DEF StopCall, Halt
  <2>2. timerOn' \in BOOLEAN
    BY <1>17 DEF StopCall, Halt
  <2> QED
    BY <1>17, <2>1, <2>2 DEF StopCall, Halt
<1>18. CASE StopEnd
  <2>1. /\ waiter' \in {"out", "blocked", "ok", "error"}
        /\ events' \subseteq {"COMPLETE", "IDLE"}
    BY <1>18, EventTypes, WaiterTypes DEF StopEnd, Rewind, Send
  <2>2. raced' \in BOOLEAN /\ lostIdle' \in BOOLEAN
    BY <1>18 DEF StopEnd, Rewind
  <2> QED
    BY <1>18, <2>1, <2>2 DEF StopEnd, Rewind
<1>19. CASE Delete
  BY <1>19 DEF Delete
<1>20. CASE ForceStop
  <2>1. events' \subseteq {"COMPLETE", "IDLE"}
    BY <1>20, EventTypes DEF ForceStop, Halt
  <2>2. timerOn' \in BOOLEAN
    BY <1>20 DEF ForceStop, Halt
  <2> QED
    BY <1>20, <2>1, <2>2 DEF ForceStop, Halt
<1>21. CASE ForceStopEnd
  <2>1. /\ waiter' \in {"out", "blocked", "ok", "error"}
        /\ events' \subseteq {"COMPLETE", "IDLE"}
    BY <1>21, EventTypes, WaiterTypes DEF ForceStopEnd, Rewind, Send
  <2>2. raced' \in BOOLEAN /\ lostIdle' \in BOOLEAN
    BY <1>21 DEF ForceStopEnd, Rewind
  <2> QED
    BY <1>21, <2>1, <2>2 DEF ForceStopEnd, Rewind
<1>22. CASE StartThread
  BY <1>22 DEF StartThread
<1>23. CASE UNCHANGED vars
  BY <1>23 DEF vars
<1> QED
  BY <1>1, <1>2, <1>3, <1>4, <1>5, <1>6, <1>7, <1>8, <1>9, <1>10, <1>11,
     <1>12, <1>13, <1>14, <1>15, <1>16, <1>17, <1>18, <1>19, <1>20, <1>21, <1>22, <1>23
     DEF Next, ISR, ThreadStep, StopStep

(* At most one party may start the engine, and the thread's place bounds   *)
(* the indices.                                                            *)
LEMMA ControlStep ==
  ASSUME TypeOK, Control, [Next]_vars
  PROVE  Control'
<1> USE NAssumption, MaxMotionAssumption DEF ring, engine, hist, TypeOK,
   PC, Slot, Motion, Control, LoadExclusive, InFlight
<1>1. CASE ISRLoad
  <2>1. pc' = pc \/ pc' \in {"full", "sync"}
    BY <1>1 DEF ISRLoad, PcAfterReset
  <2>2. /\ pc \notin {"load", "launch", "stopping"}
        /\ pc' \notin {"load", "launch", "stopping"}
    BY <1>1, <2>1 DEF ISRLoad
  <2>3. (pc = "off") <=> (pc' = "off")
    BY <1>1, <2>1 DEF ISRLoad, PcAfterReset
  <2>4. /\ len' = len - 1 /\ len > 0 /\ timerOn' = timerOn /\ timerOn
        /\ events' = {"COMPLETE"} /\ stop' = stop /\ issued' = issued
    BY <1>1 DEF ISRLoad
  <2>5. /\ pc' \in {"put", "count", "incLen"} => pc = pc'
        /\ pc' \in {"put", "count"} => len' <= N - 2
        /\ pc' = "incLen" => len' <= reg'
    BY <1>1, <2>1 DEF ISRLoad
  <2>6. InFlight' \/ pc' \in {"handoff", "load", "launch"} => issued' > 0
    BY <2>1, <2>2, <2>3, <2>4
  <2> QED
    BY <2>2, <2>3, <2>4, <2>5, <2>6
<1>2. CASE ISRDrain
  BY <1>2 DEF ISRDrain, PcAfterSend, Send, EventsAfterSend, WaiterAfterSend
<1>3. CASE Input
  BY <1>3 DEF Input
<1>4. CASE Enter
  BY <1>4 DEF Enter, Full
<1>5. CASE WaitRoom
  BY <1>5 DEF WaitRoom, Full
<1>6. CASE WaitTimeout
  BY <1>6 DEF WaitTimeout
<1>7. CASE Put
  BY <1>7 DEF Put, Full, inc
<1>8. CASE CountLoad
  BY <1>8 DEF CountLoad
<1>9. CASE CountStore
  BY <1>9 DEF CountStore
<1>10. CASE HandOff
  BY <1>10 DEF HandOff
<1>11. CASE Load
  BY <1>11 DEF Load
<1>12. CASE Launch
  BY <1>12 DEF Launch, WaiterAfterReset, inc
<1>13. CASE SyncCall
  BY <1>13 DEF SyncCall
<1>14. CASE Sync
  BY <1>14 DEF Sync
<1>15. CASE WaitIdle
  BY <1>15 DEF WaitIdle
<1>16. CASE WaitReturns
  BY <1>16 DEF WaitReturns
<1>17. CASE StopCall
  BY <1>17 DEF StopCall, Halt, EventsAfterSend
<1>18. CASE StopEnd
  BY <1>18 DEF StopEnd, Rewind, Send, EventsAfterSend, WaiterAfterSend
<1>19. CASE Delete
  BY <1>19 DEF Delete
<1>20. CASE ForceStop
  BY <1>20 DEF ForceStop, Halt, EventsAfterSend
<1>21. CASE ForceStopEnd
  BY <1>21 DEF ForceStopEnd, Rewind, Send, EventsAfterSend, WaiterAfterSend
<1>22. CASE StartThread
  BY <1>22 DEF StartThread
<1>23. CASE UNCHANGED vars
  BY <1>23 DEF vars
<1> QED
  BY <1>1, <1>2, <1>3, <1>4, <1>5, <1>6, <1>7, <1>8, <1>9, <1>10, <1>11,
     <1>12, <1>13, <1>14, <1>15, <1>16, <1>17, <1>18, <1>19, <1>20, <1>21, <1>22, <1>23
     DEF Next, ISR, ThreadStep, StopStep

(* IDLE is consumed by the party that starts the engine; a motion counted  *)
(* while it is off is started by that party (unless lostIdle); the engine  *)
(* runs while the thread sleeps for room.                                  *)
LEMMA IdleStep ==
  ASSUME TypeOK, Control,
         IdleAccounted, NoStrandedMotion, SleeperHasEngine, [Next]_vars
  PROVE  IdleAccounted' /\ NoStrandedMotion' /\ SleeperHasEngine'
<1> USE NAssumption, MaxMotionAssumption
   DEF ring, engine, hist, TypeOK, Control, LoadExclusive, InFlight,
      IdleAccounted, NoStrandedMotion, SleeperHasEngine, Full, PC, Slot
<1>1. CASE ISRLoad
  BY <1>1 DEF ISRLoad, PcAfterReset, WaiterAfterReset, inc
<1>2. CASE ISRDrain
  BY <1>2 DEF ISRDrain, PcAfterSend, Send, EventsAfterSend, WaiterAfterSend
<1>3. CASE Input
  BY <1>3 DEF Input
<1>4. CASE Enter
  BY <1>4 DEF Enter, Full
<1>5. CASE WaitRoom
  BY <1>5 DEF WaitRoom, Full
<1>6. CASE WaitTimeout
  BY <1>6 DEF WaitTimeout
<1>7. CASE Put
  BY <1>7 DEF Put, Full, inc
<1>8. CASE CountLoad
  BY <1>8 DEF CountLoad
<1>9. CASE CountStore
  BY <1>9 DEF CountStore
<1>10. CASE HandOff
  BY <1>10 DEF HandOff
<1>11. CASE Load
  BY <1>11 DEF Load
<1>12. CASE Launch
  BY <1>12 DEF Launch, WaiterAfterReset, inc
<1>13. CASE SyncCall
  BY <1>13 DEF SyncCall
<1>14. CASE Sync
  BY <1>14 DEF Sync
<1>15. CASE WaitIdle
  BY <1>15 DEF WaitIdle
<1>16. CASE WaitReturns
  BY <1>16 DEF WaitReturns
<1>17. CASE StopCall
  BY <1>17 DEF StopCall, Halt, EventsAfterSend
<1>18. CASE StopEnd
  BY <1>18 DEF StopEnd, Rewind, Send, EventsAfterSend, WaiterAfterSend
<1>19. CASE Delete
  BY <1>19 DEF Delete
<1>20. CASE ForceStop
  BY <1>20 DEF ForceStop, Halt, EventsAfterSend
<1>21. CASE ForceStopEnd
  BY <1>21 DEF ForceStopEnd, Rewind, Send, EventsAfterSend, WaiterAfterSend
<1>22. CASE StartThread
  BY <1>22 DEF StartThread
<1>23. CASE UNCHANGED vars
  BY <1>23 DEF vars
<1> QED
  BY <1>1, <1>2, <1>3, <1>4, <1>5, <1>6, <1>7, <1>8, <1>9, <1>10, <1>11,
     <1>12, <1>13, <1>14, <1>15, <1>16, <1>17, <1>18, <1>19, <1>20, <1>21, <1>22, <1>23
     DEF Next, ISR, ThreadStep, StopStep

(* Advancing tail over a waiting motion leaves the others consecutive.     *)
LEMMA Advance ==
  ASSUME TypeOK, Consecutive, len > 0,
         tail' = inc(tail), len' = len - 1, buffer' = buffer
  PROVE  /\ \A i \in 0 .. N - 2 : SlotAt(i)' = SlotAt(i + 1)
         /\ len > 1 => buffer[inc(tail)] = buffer[tail] + 1
         /\ Consecutive'
<1> USE NAssumption, MaxMotionAssumption DEF TypeOK, Slot
<1>1. \A i \in 0 .. N - 2 : SlotAt(i)' = SlotAt(i + 1)
  BY DEF SlotAt, inc
<1>2. len > 1 => buffer[inc(tail)] = buffer[tail] + 1
  <2>1. len > 1 => SlotAt(1) = inc(tail)
    BY DEF SlotAt, inc
  <2> QED
    BY <2>1 DEF Consecutive
<1>3. Consecutive'
  <2> SUFFICES ASSUME NEW i \in 0 .. len' - 1
               PROVE  buffer'[SlotAt(i)'] = buffer'[tail'] + i
    BY DEF Consecutive
  <2>1. i + 1 \in 0 .. len - 1 /\ i \in 0 .. N - 2 /\ len > 1 /\ i \in Int
    OBVIOUS
  <2>2. buffer[SlotAt(i + 1)] = buffer[tail] + (i + 1)
    BY <2>1 DEF Consecutive
  <2>3. buffer[tail] \in Int
    OBVIOUS
  <2>4. buffer'[SlotAt(i)'] = buffer[tail] + (i + 1)
    BY <1>1, <2>1, <2>2
  <2> QED
    BY <1>2, <2>1, <2>3, <2>4
<1> QED
  BY <1>1, <1>2, <1>3

(* The ring stays consecutive, ends at the last motion handed over and     *)
(* starts after the one executed, whose slot lies before tail.             *)
LEMMA OrderStep ==
  ASSUME TypeOK, Control, Order, [Next]_vars
  PROVE  Order'
<1> USE NAssumption, MaxMotionAssumption DEF ring, engine, hist, TypeOK,
   PC, Slot, Motion
<1>1. CASE ISRLoad
  <2> SUFFICES ASSUME ~raced PROVE Order'
    BY <1>1 DEF ISRLoad, Order
  <2>1. /\ tail' = inc(tail) /\ len' = len - 1 /\ len > 0 /\ timerOn
        /\ buffer' = buffer /\ head' = head /\ issued' = issued
        /\ timerOn' = timerOn /\ raced' = raced
        /\ current' = buffer[tail] /\ currentBuffer' = tail
    BY <1>1 DEF ISRLoad
  <2>2. /\ InFlight' = InFlight /\ Uncounted' = Uncounted
        /\ (pc' = "off") <=> (pc = "off")
        /\ pc' \notin {"off", "stopping"} => pc \notin {"off", "stopping"}
    BY <1>1 DEF ISRLoad, PcAfterReset, InFlight, Uncounted
  <2>3. /\ \A i \in 0 .. N - 2 : SlotAt(i)' = SlotAt(i + 1)
        /\ len > 1 => buffer[inc(tail)] = buffer[tail] + 1
        /\ Consecutive'
    BY <2>1, Advance DEF Order
  <2>4. FollowsCurrent'
    BY <2>1, <2>3 DEF FollowsCurrent
  <2>5. EndsAtIssued'
    BY <2>1, <2>2, <2>3 DEF EndsAtIssued, Order
  <2>6. HeadAfterLast'
    <3>1. Uncounted => len <= N - 2
      BY DEF Uncounted, Control
    <3>2. pc \notin {"off", "stopping"} =>
             head = SlotAt(IF Uncounted THEN len + 1 ELSE len)
      BY DEF Order, HeadAfterLast
    <3> QED
      BY <2>1, <2>2, <3>1, <3>2 DEF HeadAfterLast, SlotAt, inc
  <2>7. EngineAtIssued'
    BY <2>1, <2>2 DEF EngineAtIssued, EndsAtIssued, Order
  <2>8. PutAfterLast'
    BY <2>1, <2>2, <2>3 DEF PutAfterLast, Order
  <2>9. SlotBeforeTail'
    BY <2>1 DEF SlotBeforeTail
  <2> QED
    BY <2>3, <2>4, <2>5, <2>6, <2>7, <2>8, <2>9 DEF Order
<1>2. CASE ISRDrain
  BY <1>2 DEF ISRDrain, PcAfterSend, Send, EventsAfterSend,
     WaiterAfterSend, Control, Order, Consecutive, FollowsCurrent,
     EndsAtIssued, HeadAfterLast, EngineAtIssued, PutAfterLast,
     SlotBeforeTail, InFlight, Uncounted, SlotAt, inc, LoadExclusive
<1>3. CASE Input
  BY <1>3 DEF Input, Control, Order, Consecutive, FollowsCurrent,
     EndsAtIssued, HeadAfterLast, EngineAtIssued, PutAfterLast,
     SlotBeforeTail, InFlight, Uncounted, SlotAt, inc, LoadExclusive
<1>4. CASE Enter
  BY <1>4 DEF Enter, Full, Control, Order, Consecutive, FollowsCurrent,
     EndsAtIssued, HeadAfterLast, EngineAtIssued, PutAfterLast,
     SlotBeforeTail, InFlight, Uncounted, SlotAt, inc, LoadExclusive
<1>5. CASE WaitRoom
  BY <1>5 DEF WaitRoom, Full, Control, Order, Consecutive, FollowsCurrent,
     EndsAtIssued, HeadAfterLast, EngineAtIssued, PutAfterLast,
     SlotBeforeTail, InFlight, Uncounted, SlotAt, inc, LoadExclusive
<1>6. CASE WaitTimeout
  BY <1>6 DEF WaitTimeout, Control, Order, Consecutive, FollowsCurrent,
     EndsAtIssued, HeadAfterLast, EngineAtIssued, PutAfterLast,
     SlotBeforeTail, InFlight, Uncounted, SlotAt, inc, LoadExclusive
<1>7. CASE Put
  <2> SUFFICES ASSUME ~raced PROVE Order'
    BY <1>7 DEF Put, Order
  <2>1. /\ len <= N - 2 /\ head = SlotAt(len) /\ head \in Slot
        /\ InFlight /\ InFlight' /\ Uncounted' /\ issued \in Int
    BY <1>7 DEF Put, Control, Order, HeadAfterLast, InFlight, Uncounted, Full
  <2>2. /\ buffer' = [buffer EXCEPT ![head] = issued] /\ head' = inc(head)
        /\ pc = "put" /\ pc' = "count" /\ tail' = tail /\ len' = len
        /\ timerOn' = timerOn /\ current' = current
        /\ currentBuffer' = currentBuffer /\ issued' = issued
    BY <1>7, <2>1 DEF Put, Full
  <2>3. \A i \in 0 .. len - 1 : SlotAt(i) \in Slot /\ SlotAt(i) # head
    BY <2>1 DEF SlotAt
  <2>4. \A i \in 0 .. len - 1 : buffer'[SlotAt(i)'] = buffer[SlotAt(i)]
    BY <2>2, <2>3 DEF SlotAt
  <2>5. len > 0 => buffer'[tail'] = buffer[tail]
    <3>1. len > 0 => /\ 0 \in 0 .. len - 1
                     /\ SlotAt(0) = tail /\ SlotAt(0)' = tail'
      BY <2>2 DEF SlotAt
    <3> QED
      BY <2>4, <3>1
  <2>6. Consecutive'
    <3> SUFFICES ASSUME NEW i \in 0 .. len - 1
                 PROVE  buffer'[SlotAt(i)'] = buffer'[tail'] + i
      BY <2>2 DEF Consecutive
    <3>1. buffer[SlotAt(i)] = buffer[tail] + i
      BY DEF Consecutive, Order
    <3> QED
      BY <2>4, <2>5, <3>1
  <2>7. FollowsCurrent' /\ EngineAtIssued'
    BY <2>1, <2>2, <2>5 DEF FollowsCurrent, EngineAtIssued, Order
  <2>8. EndsAtIssued'
    BY <2>1, <2>2, <2>5 DEF EndsAtIssued, Order
  <2>9. HeadAfterLast'
    BY <2>1, <2>2 DEF HeadAfterLast, SlotAt, inc
  <2>10. PutAfterLast'
    BY <2>1, <2>2 DEF PutAfterLast, SlotAt
  <2>11. SlotBeforeTail'
    <3>1. currentBuffer \in Slot /\ inc(currentBuffer) = tail
            => currentBuffer # head
      BY <2>1 DEF SlotAt, inc
    <3> QED
      BY <2>1, <2>2, <3>1 DEF SlotBeforeTail, Order, inc
  <2> QED
    BY <2>6, <2>7, <2>8, <2>9, <2>10, <2>11 DEF Order
<1>8. CASE CountLoad
  BY <1>8 DEF CountLoad, Control, Order, Consecutive, FollowsCurrent,
     EndsAtIssued, HeadAfterLast, EngineAtIssued, PutAfterLast,
     SlotBeforeTail, InFlight, Uncounted, SlotAt, inc, LoadExclusive
<1>9. CASE CountStore
  <2> SUFFICES ASSUME ~raced, len = reg PROVE Order'
    BY <1>9 DEF CountStore, Order
  <2>1. /\ len' = len + 1 /\ pc = "incLen" /\ pc' = "handoff"
        /\ buffer' = buffer /\ head' = head /\ tail' = tail
        /\ timerOn' = timerOn /\ current' = current
        /\ currentBuffer' = currentBuffer /\ issued' = issued
    BY <1>9 DEF CountStore
  <2>2. /\ InFlight /\ Uncounted /\ ~InFlight' /\ ~Uncounted'
        /\ buffer[tail] \in Int /\ buffer[SlotAt(len)] = issued
    BY <2>1 DEF InFlight, Uncounted, Order, PutAfterLast
  <2>3. len = 0 => SlotAt(len) = tail
    BY DEF SlotAt
  <2>4. buffer[tail] + len = issued
    BY <2>1, <2>2, <2>3 DEF Order, EndsAtIssued
  <2>5. Consecutive'
    <3>1. \A i \in 0 .. len : SlotAt(i)' = SlotAt(i)
      BY <2>1 DEF SlotAt
    <3>2. \A i \in 0 .. len : buffer[SlotAt(i)] = buffer[tail] + i
      BY <2>2, <2>4 DEF Order, Consecutive
    <3> QED
      BY <2>1, <3>1, <3>2 DEF Consecutive
  <2>6. FollowsCurrent'
    BY <2>1, <2>2, <2>4 DEF Order, FollowsCurrent, EngineAtIssued
  <2>7. EndsAtIssued' /\ EngineAtIssued'
    BY <2>1, <2>2, <2>4 DEF Order, EndsAtIssued, EngineAtIssued
  <2>8. HeadAfterLast'
    BY <2>1, <2>2 DEF Order, HeadAfterLast, SlotAt
  <2>9. PutAfterLast' /\ SlotBeforeTail'
    BY <2>1, <2>2 DEF Order, PutAfterLast, SlotBeforeTail, inc
  <2> QED
    BY <2>5, <2>6, <2>7, <2>8, <2>9 DEF Order
<1>10. CASE HandOff
  BY <1>10 DEF HandOff, Control, Order, Consecutive, FollowsCurrent,
     EndsAtIssued, HeadAfterLast, EngineAtIssued, PutAfterLast,
     SlotBeforeTail, InFlight, Uncounted, SlotAt, inc, LoadExclusive
<1>11. CASE Load
  BY <1>11 DEF Load, Control, Order, Consecutive, FollowsCurrent,
     EndsAtIssued, HeadAfterLast, EngineAtIssued, PutAfterLast,
     SlotBeforeTail, InFlight, Uncounted, SlotAt, inc, LoadExclusive
<1>12. CASE Launch
  <2> SUFFICES ASSUME ~raced PROVE Order'
    BY <1>12 DEF Launch, Order
  <2>1. /\ tail' = inc(tail) /\ len' = len - 1 /\ timerOn'
        /\ pc = "launch" /\ pc' = "idle" /\ buffer' = buffer /\ head' = head
        /\ issued' = issued /\ current' = current
        /\ currentBuffer' = currentBuffer
    BY <1>12 DEF Launch
  <2>2. /\ len > 0 /\ current = buffer[tail] /\ currentBuffer = tail
        /\ issued > 0 /\ ~InFlight /\ ~Uncounted /\ ~InFlight' /\ ~Uncounted'
    BY <2>1 DEF Control, InFlight, Uncounted
  <2>3. /\ len > 1 => buffer[inc(tail)] = buffer[tail] + 1
        /\ Consecutive'
    BY <2>1, <2>2, Advance DEF Order
  <2>4. buffer[tail] + len = issued + 1
    BY <2>1, <2>2 DEF Order, EndsAtIssued
  <2>5. FollowsCurrent' /\ EndsAtIssued' /\ EngineAtIssued'
    BY <2>1, <2>2, <2>3, <2>4 DEF FollowsCurrent, EndsAtIssued, EngineAtIssued
  <2>6. HeadAfterLast'
    BY <2>1, <2>2 DEF Order, HeadAfterLast, SlotAt, inc
  <2>7. PutAfterLast' /\ SlotBeforeTail'
    BY <2>1, <2>2 DEF PutAfterLast, SlotBeforeTail
  <2> QED
    BY <2>3, <2>5, <2>6, <2>7 DEF Order
<1>13. CASE SyncCall
  BY <1>13 DEF SyncCall, Control, Order, Consecutive, FollowsCurrent,
     EndsAtIssued, HeadAfterLast, EngineAtIssued, PutAfterLast,
     SlotBeforeTail, InFlight, Uncounted, SlotAt, inc, LoadExclusive
<1>14. CASE Sync
  BY <1>14 DEF Sync, Control, Order, Consecutive, FollowsCurrent,
     EndsAtIssued, HeadAfterLast, EngineAtIssued, PutAfterLast,
     SlotBeforeTail, InFlight, Uncounted, SlotAt, inc, LoadExclusive
<1>15. CASE WaitIdle
  BY <1>15 DEF WaitIdle, Control, Order, Consecutive, FollowsCurrent,
     EndsAtIssued, HeadAfterLast, EngineAtIssued, PutAfterLast,
     SlotBeforeTail, InFlight, Uncounted, SlotAt, inc, LoadExclusive
<1>16. CASE WaitReturns
  BY <1>16 DEF WaitReturns, Control, Order, Consecutive, FollowsCurrent,
     EndsAtIssued, HeadAfterLast, EngineAtIssued, PutAfterLast,
     SlotBeforeTail, InFlight, Uncounted, SlotAt, inc, LoadExclusive
<1>17. CASE StopCall
  BY <1>17 DEF StopCall, Halt, EventsAfterSend, Control, Order,
     Consecutive, FollowsCurrent, EndsAtIssued, HeadAfterLast,
     EngineAtIssued, PutAfterLast, SlotBeforeTail, InFlight, Uncounted,
     SlotAt, inc, LoadExclusive
<1>18. CASE StopEnd
  BY <1>18 DEF StopEnd, Rewind, Send, EventsAfterSend, WaiterAfterSend,
     Control, Order, Consecutive, FollowsCurrent, EndsAtIssued,
     HeadAfterLast, EngineAtIssued, PutAfterLast, SlotBeforeTail, InFlight,
     Uncounted, SlotAt, inc, LoadExclusive
<1>19. CASE Delete
  BY <1>19 DEF Delete, Control, Order, Consecutive, FollowsCurrent,
     EndsAtIssued, HeadAfterLast, EngineAtIssued, PutAfterLast,
     SlotBeforeTail, InFlight, Uncounted, SlotAt, inc, LoadExclusive
<1>20. CASE ForceStop
  BY <1>20 DEF ForceStop, Halt, EventsAfterSend, Control, Order,
     Consecutive, FollowsCurrent, EndsAtIssued, HeadAfterLast,
     EngineAtIssued, PutAfterLast, SlotBeforeTail, InFlight, Uncounted,
     SlotAt, inc, LoadExclusive
<1>21. CASE ForceStopEnd
  BY <1>21 DEF ForceStopEnd, Rewind, Send, EventsAfterSend,
     WaiterAfterSend, Control, Order, Consecutive, FollowsCurrent,
     EndsAtIssued, HeadAfterLast, EngineAtIssued, PutAfterLast,
     SlotBeforeTail, InFlight, Uncounted, SlotAt, inc, LoadExclusive
<1>22. CASE StartThread
  BY <1>22 DEF StartThread, Control, Order, Consecutive, FollowsCurrent,
     EndsAtIssued, HeadAfterLast, EngineAtIssued, PutAfterLast,
     SlotBeforeTail, InFlight, Uncounted, SlotAt, inc, LoadExclusive
<1>23. CASE UNCHANGED vars
  BY <1>23 DEF vars, Control, Order, Consecutive, FollowsCurrent,
     EndsAtIssued, HeadAfterLast, EngineAtIssued, PutAfterLast,
     SlotBeforeTail, InFlight, Uncounted, SlotAt, inc, LoadExclusive
<1> QED
  BY <1>1, <1>2, <1>3, <1>4, <1>5, <1>6, <1>7, <1>8, <1>9, <1>10, <1>11,
     <1>12, <1>13, <1>14, <1>15, <1>16, <1>17, <1>18, <1>19, <1>20, <1>21, <1>22, <1>23
     DEF Next, ISR, ThreadStep, StopStep

-----------------------------------------------------------------------------
(* The inductive invariant holds initially and is kept by every step.      *)
LEMMA InitIInv == Init => IInv
<1> USE NAssumption, MaxMotionAssumption
<1> SUFFICES ASSUME Init PROVE IInv
  OBVIOUS
<1>1. TypeOK /\ NeverNotSync
  <2>1. buffer \in [Slot -> 0 .. MaxMotion] /\ N - 1 \in Nat /\ N - 2 \in Nat
    BY DEF Init
  <2>2. /\ head \in Slot /\ tail \in Slot /\ len \in 0 .. N - 1
        /\ current \in 0 .. MaxMotion /\ currentBuffer \in 0 .. N
        /\ reg \in 0 .. N - 2 /\ issued \in 0 .. MaxMotion
    BY <2>1 DEF Init, Slot
  <2>3. /\ events \subseteq {"COMPLETE", "IDLE"} /\ pc \in PC
        /\ busy \in BOOLEAN /\ timerOn \in BOOLEAN
        /\ raced \in BOOLEAN /\ lostIdle \in BOOLEAN
    BY DEF Init, PC
  <2> QED
    BY <2>1, <2>2, <2>3 DEF Init, TypeOK, NeverNotSync
<1>2. Control /\ IdleAccounted /\ NoStrandedMotion /\ SleeperHasEngine
  BY DEF Init, Control, LoadExclusive, InFlight, IdleAccounted,
         NoStrandedMotion, SleeperHasEngine
<1>3. Order
  BY DEF Init, Order, Consecutive, FollowsCurrent, EndsAtIssued,
         HeadAfterLast, EngineAtIssued, PutAfterLast, SlotBeforeTail, Uncounted
<1> QED
  BY <1>1, <1>2, <1>3 DEF IInv

LEMMA NextIInv == IInv /\ [Next]_vars => IInv'
  BY TypeStep, ControlStep, IdleStep, OrderStep DEF IInv

LEMMA Inductive == Spec => []IInv
  BY InitIInv, NextIInv, PTL DEF Spec

-----------------------------------------------------------------------------
(* Every variable keeps its type in every behaviour of the motion buffer.  *)
THEOREM TypeCorrect == Spec => []TypeOK
<1>1. IInv => TypeOK
  BY DEF IInv
<1> QED
  BY <1>1, Inductive, PTL

(* inputMotion never drops a motion with "not sync++" (lines 103-106).     *)
THEOREM MotionsNeverRefused == Spec => []NeverNotSync
<1>1. IInv => NeverNotSync
  BY DEF IInv
<1> QED
  BY <1>1, Inductive, PTL

(* The thread and the interrupt never load a motion at the same time: IDLE *)
(* is a lock that only the party with the engine off can hold.             *)
THEOREM OneLoader == Spec => []LoadExclusive
<1>1. IInv => LoadExclusive
  BY DEF IInv, Control
<1> QED
  BY <1>1, Inductive, PTL

(* As long as no update of len was lost, the ring holds the motions handed *)
(* over, in order, each once, after the one executed.                      *)
THEOREM RingIsFifo == Spec => []FifoOrder
<1>1. IInv => FifoOrder
  BY DEF IInv, Order, FifoOrder
<1> QED
  BY <1>1, Inductive, PTL

(* ... and the slot of the motion executed is not reused before its end.   *)
THEOREM RunningSlotSafe == Spec => []RunningSlotKept
<1>1. IInv => RunningSlotKept
  BY DEF IInv, Order, SlotBeforeTail, RunningSlotKept
<1> QED
  BY <1>1, Inductive, PTL

(* A motion is stranded in the ring only by a thread that consumed IDLE    *)
(* and found the ring empty; this race is the only way to lose a start.    *)
THEOREM OnlyLostIdleStrands == Spec => []NoStrandedMotion
<1>1. IInv => NoStrandedMotion
  BY DEF IInv
<1> QED
  BY <1>1, Inductive, PTL

(* A thread asleep for room is woken by the engine, not by its timeout.    *)
THEOREM NoLostWakeup == Spec => []SleeperHasEngine
<1>1. IInv => SleeperHasEngine
  BY DEF IInv
<1> QED
  BY <1>1, Inductive, PTL

-----------------------------------------------------------------------------
(* The engine works on a motion, and IDLE says that it does not.           *)
LEMMA EngineStep == AInv /\ [Next]_vars => EngineWorks'
<1> SUFFICES ASSUME AInv, [Next]_vars, ~raced' PROVE EngineWorks'
  BY DEF EngineWorks
<1> USE NAssumption, MaxMotionAssumption
<1>1. /\ TypeOK /\ Control /\ Order /\ EngineWorks
  BY DEF AInv, IInv
<1>2. N \in Nat /\ N >= 2 /\ len \in Nat /\ tail \in 0 .. N - 1 /\ head \in 0 .. N - 1
      /\ issued \in Nat /\ buffer \in [Slot -> 0 .. MaxMotion] /\ current \in Nat
      /\ raced \in BOOLEAN /\ len <= N - 1
  BY <1>1 DEF TypeOK, Slot
<1>3. CASE ISRLoad
  <2>1. ~raced /\ timerOn /\ len > 0 /\ buffer[tail] = current + 1
    BY <1>3, <1>1 DEF ISRLoad, hist, Order, FollowsCurrent
  <2>2. busy'
    <3>1. buffer[tail] # 0
      BY <2>1, <1>2
    <3> QED
      BY <1>3, <3>1 DEF ISRLoad
  <2>3. ASSUME len' > 0 PROVE buffer'[tail'] > 0
    <3>1. len > 1 /\ 1 \in 0 .. len - 1 /\ buffer[SlotAt(1)] = buffer[tail] + 1
      BY <1>3, <2>3, <2>1, <1>1, <1>2 DEF ISRLoad, Order, Consecutive
    <3>2. SlotAt(1) = inc(tail)
      BY <1>2 DEF SlotAt, inc
    <3> QED
      BY <1>3, <3>1, <3>2, <2>1, <1>2 DEF ISRLoad
  <2>4. pc' # "launch" \/ busy'
    BY <2>2
  <2> QED
    BY <2>2, <2>3 DEF EngineWorks
<1>4. CASE Put
  <2>1. CASE Full
    BY <1>4, <2>1, <1>1 DEF Put, EngineWorks, engine, hist
  <2>2. CASE ~Full
    <3>1. ~raced /\ pc = "put" /\ pc' = "count" /\ len' = len /\ tail' = tail
          /\ issued' = issued /\ timerOn' = timerOn /\ busy' = busy
          /\ buffer' = [buffer EXCEPT ![head] = issued]
      BY <1>4, <2>2 DEF Put, engine, hist
    <3>2. head = SlotAt(len) /\ len < N - 1
      BY <3>1, <2>2, <1>1, <1>2 DEF Order, HeadAfterLast, Uncounted, Full
    <3>3. len > 0 => head # tail
      BY <3>2, <1>2 DEF SlotAt
    <3>4. len > 0 => buffer'[tail] = buffer[tail]
      BY <3>1, <3>3, <1>2 DEF Slot
    <3> QED
      BY <3>1, <3>4, <1>1 DEF EngineWorks
  <2> QED
    BY <2>1, <2>2
<1>5. CASE CountStore
  <2>1. ~raced /\ len = reg /\ pc = "incLen" /\ pc' = "handoff" /\ len' = len + 1
        /\ tail' = tail /\ buffer' = buffer /\ issued' = issued
        /\ timerOn' = timerOn /\ busy' = busy
    BY <1>5, <1>2 DEF CountStore, engine
  <2>2. issued > 0 /\ buffer[SlotAt(len)] = issued
    BY <2>1, <1>1 DEF Control, InFlight, Order, PutAfterLast, Uncounted
  <2>3. len = 0 => SlotAt(len) = tail
    BY <1>2 DEF SlotAt
  <2>4. buffer'[tail'] > 0
    BY <2>1, <2>2, <2>3, <1>1, <1>2 DEF EngineWorks
  <2> QED
    BY <2>1, <2>4, <1>1 DEF EngineWorks
<1>6. CASE Load
  <2>1. CASE len > 0
    <3>1. pc = "load" /\ ~timerOn /\ timerOn' = timerOn /\ buffer' = buffer
          /\ tail' = tail /\ len' = len /\ issued' = issued /\ ~raced
          /\ busy' = (buffer[tail] # 0)
      BY <1>6, <2>1, <1>1 DEF Load, ring, Control, LoadExclusive
    <3>2. buffer[tail] > 0 /\ buffer[tail] \in Nat
      BY <3>1, <2>1, <1>1, <1>2 DEF EngineWorks, Slot
    <3>3. buffer[tail] # 0
      BY <3>2
    <3>4. busy'
      BY <3>1, <3>3
    <3> QED
      BY <3>1, <3>2, <3>4 DEF EngineWorks
  <2>2. CASE ~(len > 0)
    BY <1>6, <2>2, <1>1, <1>2 DEF Load, EngineWorks, ring
  <2> QED
    BY <2>1, <2>2
<1>7. CASE Launch
  <2>1. ~raced /\ pc = "launch" /\ pc' = "idle" /\ busy' /\ len > 0
        /\ tail' = inc(tail) /\ len' = len - 1 /\ buffer' = buffer
    BY <1>7, <1>1 DEF Launch, hist, EngineWorks, Control
  <2>2. ASSUME len' > 0 PROVE buffer'[tail'] > 0
    <3>1. 1 \in 0 .. len - 1 /\ buffer[SlotAt(1)] = buffer[tail] + 1
      BY <2>1, <2>2, <1>1, <1>2 DEF Order, Consecutive
    <3>2. SlotAt(1) = inc(tail)
      BY <1>2 DEF SlotAt, inc
    <3>3. buffer[tail] > 0
      BY <2>1, <1>1 DEF EngineWorks
    <3>4. buffer[tail] \in Nat
      BY <1>2 DEF Slot
    <3> QED
      BY <2>1, <3>1, <3>2, <3>3, <3>4
  <2> QED
    BY <2>1, <2>2 DEF EngineWorks
<1>8. CASE Input
  BY <1>8, <1>1, <1>2 DEF Input, EngineWorks, ring, engine, hist, Control
<1>9. CASE ISRDrain \/ StopCall \/ ForceStop
  <2>1. CASE ISRDrain
    <3>1. pc' = "launch" => pc = "launch"
      BY <2>1 DEF ISRDrain, PcAfterSend
    <3> QED
      BY <2>1, <3>1, <1>1
         DEF ISRDrain, EngineWorks, ring, hist, Control, LoadExclusive
  <2>2. CASE StopCall
    BY <2>2, <1>1, <1>2 DEF StopCall, Halt, EngineWorks
  <2>3. CASE ForceStop
    BY <2>3, <1>1, <1>2 DEF ForceStop, Halt, EngineWorks, Control
  <2> QED
    BY <1>9, <2>1, <2>2, <2>3
<1>10. CASE StopEnd \/ ForceStopEnd
  BY <1>10, <1>1 DEF StopEnd, ForceStopEnd, Rewind, EngineWorks, engine, Control
<1>11. CASE Enter \/ WaitRoom \/ WaitTimeout \/ CountLoad \/ HandOff \/ Sync
            \/ SyncCall \/ WaitIdle \/ WaitReturns \/ Delete \/ StartThread
            \/ UNCHANGED vars
  BY <1>11, <1>1 DEF Enter, WaitRoom, WaitTimeout, CountLoad, HandOff, Sync,
     SyncCall, WaitIdle, WaitReturns, Delete, StartThread, vars, ring, engine,
     hist, EngineWorks
<1> QED
  BY <1>3, <1>4, <1>5, <1>6, <1>7, <1>8, <1>9, <1>10, <1>11
     DEF Next, ISR, ThreadStep, StopStep

LEMMA IdleIsOffStep == AInv /\ [Next]_vars => IdleIsOff'
<1> SUFFICES ASSUME AInv, [Next]_vars, "IDLE" \in events', issued' > 0
             PROVE ~timerOn'
  BY DEF IdleIsOff
<1>1. Control /\ IdleIsOff /\ LoadExclusive /\ TypeOK
  BY DEF AInv, IInv, Control
<1>2. CASE ISRLoad \/ Load \/ Launch
  BY <1>2, <1>1 DEF ISRLoad, Load, Launch, LoadExclusive
<1>3. CASE ISRDrain \/ StopCall \/ ForceStop
  BY <1>3 DEF ISRDrain, StopCall, ForceStop, Halt
<1>4. CASE StopEnd \/ ForceStopEnd
  BY <1>4, <1>1 DEF StopEnd, ForceStopEnd, engine, Control
<1>5. CASE Input
  BY <1>5, <1>1 DEF Input, engine, LoadExclusive
<1>6. CASE Enter \/ WaitRoom \/ WaitTimeout \/ Put \/ CountLoad \/ CountStore
           \/ HandOff \/ Sync \/ SyncCall \/ WaitIdle \/ WaitReturns \/ Delete
           \/ StartThread \/ UNCHANGED vars
  BY <1>6, <1>1 DEF Enter, WaitRoom, WaitTimeout, Put, CountLoad, CountStore,
     HandOff, Sync, SyncCall, WaitIdle, WaitReturns, Delete, StartThread, vars,
     engine, IdleIsOff
<1> QED
  BY <1>2, <1>3, <1>4, <1>5, <1>6 DEF Next, ISR, ThreadStep, StopStep

LEMMA InductiveA == Spec => []AInv
<1>1. Init => AInv
  BY InitIInv, NAssumption DEF AInv, Init, EngineWorks, IdleIsOff
<1>2. AInv /\ [Next]_vars => AInv'
  BY NextIInv, EngineStep, IdleIsOffStep DEF AInv
<1> QED
  BY <1>1, <1>2, PTL DEF Spec

(* The interrupt counts error_stepBlockOverrun only at power-up: once a    *)
(* motion was handed over it finds one to execute, as long as no update of *)
(* len was lost.                                                           *)
THEOREM NoOverrun == Spec => OverrunOnlyAtBoot
<1>1. AInv /\ [Next]_vars =>
        [overrun' # overrun => issued = 0 \/ raced]_vars
  <2> SUFFICES ASSUME AInv, Next, overrun' # overrun, ~raced PROVE issued = 0
    OBVIOUS
  <2>1. timerOn /\ ~busy
    BY DEF Next, ISR, ISRLoad, ISRDrain, ThreadStep, StopStep, Input, Enter,
       WaitRoom, WaitTimeout, Put, CountLoad, CountStore, HandOff, Load, Launch,
       Sync, SyncCall, WaitIdle, WaitReturns, StopCall, StopEnd, Delete,
       ForceStop, ForceStopEnd, StartThread, engine
  <2> QED
    BY <2>1 DEF AInv, EngineWorks, IInv, TypeOK
<1> QED
  BY <1>1, InductiveA, PTL DEF Spec, OverrunOnlyAtBoot

(* stepBlock_waitForIdle answers RT_EOK to CPThread only when the engine   *)
(* is off, whichever thread or interrupt sent IDLE.                        *)
THEOREM OkMeansOff == Spec => WaitOkMeansOff
<1>1. AInv /\ [Next]_vars =>
        [waiter # "ok" /\ waiter' = "ok" => ~timerOn' \/ issued = 0]_vars
  <2> SUFFICES ASSUME AInv, Next, waiter # "ok", waiter' = "ok", issued > 0
               PROVE  ~timerOn'
    BY DEF AInv, IInv, TypeOK
  <2>1. CASE WaitIdle
    BY <2>1 DEF WaitIdle, AInv, IdleIsOff, engine
  <2>2. CASE ISRDrain
    BY <2>2 DEF ISRDrain
  <2>3. CASE StopEnd \/ ForceStopEnd
    BY <2>3 DEF StopEnd, ForceStopEnd, AInv, IInv, Control, engine
  <2>4. CASE ~(WaitIdle \/ ISRDrain \/ StopEnd \/ ForceStopEnd)
    BY <2>4 DEF Next, ISR, ISRLoad, ThreadStep, StopStep, Input, Enter, WaitRoom,
       WaitTimeout, Put, CountLoad, CountStore, HandOff, Load, Launch, Sync,
       SyncCall, WaitReturns, StopCall, Delete, ForceStop, StartThread,
       WaiterAfterReset
  <2> QED
    BY <2>1, <2>2, <2>3, <2>4
<1> QED
  BY <1>1, InductiveA, PTL DEF Spec, WaitOkMeansOff

-----------------------------------------------------------------------------
(* The motion buffer implements the FIFO of MotionQueue, for every size of *)
(* the ring and every number of motions: ImplementsQueue, by IInv.         *)
(*                                                                         *)
(* The ring seen as a sequence changes in four ways, each a lemma: its     *)
(* head is taken, a motion is counted, it is emptied, or it stays, even    *)
(* when a slot outside it is written.  While `raced' every step is Fail,   *)
(* and the step that clears it is Repair.                                  *)

WaitingFacts ==
  /\ Waiting \in Seq(0 .. MaxMotion) /\ Len(Waiting) = len
  /\ \A i \in 1 .. len : Waiting[i] = buffer[SlotAt(i - 1)]
  /\ len = 0 => Waiting = <<>>

LEMMA WaitingIs == TypeOK => WaitingFacts
<1> SUFFICES ASSUME TypeOK PROVE WaitingFacts
  OBVIOUS
<1> USE NAssumption, MaxMotionAssumption DEF TypeOK, Slot, WaitingFacts
<1>1. \A i \in 0 .. N - 1 : SlotAt(i) \in Slot
  BY DEF SlotAt
<1>2. \A i \in 1 .. len : buffer[SlotAt(i - 1)] \in 0 .. MaxMotion
  BY <1>1
<1>3. len \in Nat
  OBVIOUS
<1> QED
  BY <1>1, <1>2, <1>3 DEF Waiting

LEMMA WaitingIsNext == TypeOK' => WaitingFacts'
  BY WaitingIs, PTL

(* The head is taken.                                                      *)
LEMMA TakesHead ==
  ASSUME TypeOK, TypeOK', Consecutive, len > 0,
         tail' = inc(tail), len' = len - 1, buffer' = buffer
  PROVE  /\ Waiting # <<>> /\ Head(Waiting) = buffer[tail]
         /\ Waiting' = Tail(Waiting)
<1>1. /\ Waiting \in Seq(0 .. MaxMotion) /\ Len(Waiting) = len
      /\ \A i \in 1 .. len : Waiting[i] = buffer[SlotAt(i - 1)]
  BY WaitingIs DEF WaitingFacts
<1>2. /\ Waiting' \in Seq(0 .. MaxMotion) /\ Len(Waiting') = len'
      /\ \A i \in 1 .. len' : Waiting'[i] = buffer'[SlotAt(i - 1)']
  BY WaitingIsNext DEF WaitingFacts
<1>3. len \in Nat /\ len <= N - 1 /\ SlotAt(0) = tail /\ N \in Nat
  BY NAssumption DEF TypeOK, SlotAt, Slot
<1>4. Waiting # <<>>
  BY <1>1, <1>3
<1>5. /\ Head(Waiting) = Waiting[1] /\ Tail(Waiting) \in Seq(0 .. MaxMotion)
      /\ Len(Tail(Waiting)) = Len(Waiting) - 1
      /\ \A i \in 1 .. Len(Tail(Waiting)) : Tail(Waiting)[i] = Waiting[i + 1]
  BY <1>1, <1>4, HeadTailProperties
<1>6. Waiting[1] = buffer[tail]
  BY <1>1, <1>3
<1>7. ASSUME NEW i \in 1 .. len'
      PROVE  Waiting'[i] = Tail(Waiting)[i]
  <2>1. SlotAt(i - 1)' = SlotAt(i)
    <3>1. i - 1 \in 0 .. N - 2 /\ (i - 1) + 1 = i
      BY <1>3
    <3> QED
      BY <3>1, Advance
  <2>2. i + 1 \in 1 .. len /\ (i + 1) - 1 = i /\ i \in 1 .. Len(Tail(Waiting))
    BY <1>1, <1>3, <1>5
  <2> QED
    BY <1>1, <1>2, <1>5, <2>1, <2>2
<1>8. Len(Waiting') = Len(Tail(Waiting))
  BY <1>1, <1>2, <1>5
<1>9. Waiting' = Tail(Waiting)
  BY <1>2, <1>5, <1>7, <1>8, SeqEqual
<1> QED
  BY <1>4, <1>5, <1>6, <1>9

(* It stays, whatever is written outside it.                               *)
LEMMA Stays ==
  ASSUME TypeOK, TypeOK', tail' = tail, len' = len,
         \A i \in 0 .. len - 1 : buffer'[SlotAt(i)] = buffer[SlotAt(i)]
  PROVE  Waiting' = Waiting
<1>1. ASSUME NEW i \in 1 .. len
      PROVE  buffer'[SlotAt(i - 1)'] = buffer[SlotAt(i - 1)]
  <2>1. i - 1 \in 0 .. len - 1 /\ SlotAt(i - 1)' = SlotAt(i - 1)
    BY DEF TypeOK, SlotAt
  <2> QED
    BY <2>1
<1> QED
  BY <1>1 DEF Waiting

(* A motion is counted: the one written behind the others.                 *)
LEMMA Counted ==
  ASSUME TypeOK, TypeOK', tail' = tail, len' = len + 1, buffer' = buffer
  PROVE  /\ Waiting' = Append(Waiting, buffer[SlotAt(len)])
         /\ Len(Waiting) < N - 1
<1> DEFINE m == buffer[SlotAt(len)]
<1>1. /\ Waiting \in Seq(0 .. MaxMotion) /\ Len(Waiting) = len
      /\ \A i \in 1 .. len : Waiting[i] = buffer[SlotAt(i - 1)]
  BY WaitingIs DEF WaitingFacts
<1>2. /\ Waiting' \in Seq(0 .. MaxMotion) /\ Len(Waiting') = len'
      /\ \A i \in 1 .. len' : Waiting'[i] = buffer'[SlotAt(i - 1)']
  BY WaitingIsNext DEF WaitingFacts
<1>3. len \in Nat /\ len + 1 <= N - 1 /\ N \in Nat
  BY NAssumption DEF TypeOK
<1>4. m \in 0 .. MaxMotion
  <2>1. SlotAt(len) \in Slot
    BY <1>3 DEF TypeOK, SlotAt, Slot
  <2> QED
    BY <2>1 DEF TypeOK
<1>5. \A i \in 1 .. len + 1 : SlotAt(i - 1)' = SlotAt(i - 1)
  BY DEF SlotAt
<1>6. Waiting'[len + 1] = m
  <2>1. len + 1 \in 1 .. len' /\ (len + 1) - 1 = len
    BY <1>3
  <2> QED
    BY <1>2, <1>5, <2>1
<1>7. ASSUME NEW i \in 1 .. len PROVE Waiting'[i] = Waiting[i]
  <2>1. i \in 1 .. len' /\ i \in 1 .. len + 1
    BY <1>3
  <2> QED
    BY <1>1, <1>2, <1>5, <2>1
<1> HIDE DEF m
<1>8. /\ Append(Waiting, m) \in Seq(0 .. MaxMotion)
      /\ Len(Append(Waiting, m)) = len + 1
      /\ Append(Waiting, m)[len + 1] = m
      /\ \A i \in 1 .. len : Append(Waiting, m)[i] = Waiting[i]
  BY <1>1, <1>4, AppendProperties
<1>9. \A i \in 1 .. Len(Waiting') : Waiting'[i] = Append(Waiting, m)[i]
  BY <1>2, <1>3, <1>6, <1>7, <1>8
<1>10. Waiting' = Append(Waiting, m)
  BY <1>2, <1>8, <1>9, SeqEqual
<1> QED
  BY <1>1, <1>3, <1>10 DEF m

-----------------------------------------------------------------------------
(* A stop empties the ring, and repairs a counter that was wrong.          *)
LEMMA StopRefines ==
  ASSUME IInv, TypeOK', len' = 0, ~timerOn', Accepted' = Accepted, ~raced'
  PROVE  Q!Next
<1>1. Waiting' = <<>> /\ Executed' = 0
  BY WaitingIsNext DEF WaitingFacts, Executed
<1>2. CASE raced
  BY <1>1, <1>2 DEF Q!Next, Q!Repair, IInv, TypeOK
<1>3. CASE ~raced
  BY <1>1, <1>3 DEF Q!Next, Q!Stop, IInv, TypeOK
<1> QED
  BY <1>2, <1>3

(* A step that leaves ring, engine and the motions accepted alone.         *)
LEMMA Stutters ==
  ASSUME IInv, TypeOK', UNCHANGED <<tail, len, buffer, raced>>,
         Executed' = Executed, Accepted' = Accepted
  PROVE  UNCHANGED Q!qvars
<1>1. Waiting' = Waiting
  BY Stays DEF IInv
<1> QED
  BY <1>1 DEF Q!qvars

(* Every step is one of MotionQueue, or none there.                        *)
LEMMA StepRefines ==
  ASSUME IInv, TypeOK', NeverNotSync', [Next]_vars
  PROVE  [Q!Next]_Q!qvars
<1> USE DEF ring, engine, hist
<1>0. TypeOK /\ Control /\ NeverNotSync /\ Order
  BY DEF IInv
<1>1. CASE raced'
  <2>1. raced' = TRUE
    BY <1>1 DEF TypeOK
  <2> QED
    BY <2>1 DEF Q!Next, Q!Fail
<1>2. ASSUME ~raced', ISRLoad
      PROVE  Q!Next
  <2>1. /\ ~raced /\ raced' = raced /\ tail' = inc(tail) /\ len' = len - 1
        /\ len > 0 /\ buffer' = buffer /\ timerOn /\ timerOn'
        /\ current' = buffer[tail] /\ issued' = issued
    BY <1>2 DEF ISRLoad
  <2>2. InFlight' = InFlight
    BY <1>2 DEF ISRLoad, PcAfterReset, InFlight
  <2>3. /\ Waiting # <<>> /\ Head(Waiting) = buffer[tail]
        /\ Waiting' = Tail(Waiting)
    BY <1>0, <2>1, TakesHead DEF Order
  <2>4. Executed' = Head(Waiting) /\ Accepted' = Accepted
    BY <2>1, <2>2, <2>3 DEF Executed, Accepted
  <2> QED
    BY <2>1, <2>3, <2>4 DEF Q!Next, Q!Start
<1>3. ASSUME ~raced', ISRDrain
      PROVE  Q!Next
  <2>1. /\ ~raced /\ raced' = raced /\ len = 0 /\ ~timerOn'
        /\ UNCHANGED <<tail, len, buffer, issued>>
    BY <1>3 DEF ISRDrain
  <2>2. InFlight' = InFlight
    BY <1>3 DEF ISRDrain, PcAfterSend, InFlight
  <2>3. Waiting = <<>> /\ Waiting' = Waiting
    BY <1>0, <2>1, WaitingIs, WaitingIsNext DEF WaitingFacts
  <2>4. Executed' = 0 /\ Accepted' = Accepted
    BY <2>1, <2>2 DEF Executed, Accepted
  <2> QED
    BY <2>1, <2>3, <2>4 DEF Q!Next, Q!Finish
<1>4. ASSUME ~raced', CountStore
      PROVE  Q!Next
  <2>1. /\ ~raced /\ len = reg /\ raced' = raced /\ len' = len + 1
        /\ pc = "incLen" /\ pc' = "handoff"
        /\ UNCHANGED <<tail, buffer, issued, timerOn, current>>
    BY <1>0, <1>4 DEF CountStore, TypeOK
  <2>2. Waiting' = Append(Waiting, issued) /\ Len(Waiting) < N - 1
    <3>1. buffer[SlotAt(len)] = issued
      BY <1>0, <2>1 DEF Order, PutAfterLast, Uncounted
    <3> QED
      BY <1>0, <2>1, <3>1, Counted
  <2>3. /\ Executed' = Executed /\ Accepted' = issued
        /\ Accepted = issued - 1 /\ issued \in Int
    BY <1>0, <2>1, MaxMotionAssumption DEF Executed, Accepted, InFlight, TypeOK
  <2> QED
    BY <2>1, <2>2, <2>3 DEF Q!Next, Q!Accept
<1>5. ASSUME ~raced', Launch
      PROVE  Q!Next
  <2>1. /\ ~raced /\ raced' = raced /\ tail' = inc(tail) /\ len' = len - 1
        /\ buffer' = buffer /\ timerOn' /\ current' = current
        /\ issued' = issued /\ pc = "launch" /\ pc' = "idle"
    BY <1>5 DEF Launch
  <2>2. len > 0 /\ current = buffer[tail]
    BY <1>0, <2>1 DEF Control
  <2>3. /\ Waiting # <<>> /\ Head(Waiting) = buffer[tail]
        /\ Waiting' = Tail(Waiting)
    BY <1>0, <2>1, <2>2, TakesHead DEF Order
  <2>4. Executed' = Head(Waiting) /\ Accepted' = Accepted
    BY <2>1, <2>2, <2>3 DEF Executed, Accepted, InFlight
  <2> QED
    BY <2>1, <2>3, <2>4 DEF Q!Next, Q!Start
<1>6. ASSUME ~raced', Delete
      PROVE  [Q!Next]_Q!qvars
  <2>1. /\ pc' = "off" /\ UNCHANGED <<tail, len, buffer, raced, issued>>
        /\ UNCHANGED <<timerOn, current>>
    BY <1>6 DEF Delete
  <2>2. Waiting' = Waiting /\ Executed' = Executed
    BY <1>0, <2>1, Stays DEF Executed
  <2>3. Accepted' = issued /\ issued \in Int
    BY <1>0, <2>1, MaxMotionAssumption DEF Accepted, InFlight, TypeOK
  <2>4. CASE InFlight
    BY <1>6, <2>1, <2>2, <2>3, <2>4 DEF Accepted, Q!Next, Q!Abandon
  <2>5. CASE ~InFlight
    BY <2>1, <2>2, <2>3, <2>5 DEF Accepted, Q!qvars
  <2> QED
    BY <2>4, <2>5
<1>7. ASSUME ~raced', StopCall \/ ForceStop \/ StopEnd \/ ForceStopEnd
      PROVE  Q!Next
  <2>1. len' = 0 /\ ~timerOn'
    BY <1>0, <1>7 DEF StopCall, ForceStop, StopEnd, ForceStopEnd, Halt,
       Rewind, Control
  <2>2. issued' = issued /\ ~InFlight /\ ~InFlight'
    BY <1>0, <1>7 DEF StopCall, ForceStop, StopEnd, ForceStopEnd, Control,
       InFlight
  <2> QED
    BY <1>7, <2>1, <2>2, StopRefines DEF Accepted
<1>8. ASSUME ~raced', Put
      PROVE  UNCHANGED Q!qvars
  <2>1. /\ buffer' = [buffer EXCEPT ![head] = issued]
        /\ pc = "put" /\ pc' = "count"
        /\ UNCHANGED <<tail, len, raced, issued, timerOn, current>>
    BY <1>0, <1>8, NAssumption DEF Put, Control, Full, TypeOK
  <2>2. len <= N - 2 /\ head = SlotAt(len) /\ head \in Slot
    BY <1>0, <1>8, <2>1 DEF Control, Order, HeadAfterLast, Uncounted, TypeOK
  <2>3. \A i \in 0 .. len - 1 : SlotAt(i) \in Slot /\ SlotAt(i) # head
    <3>1. N \in Nat /\ tail \in 0 .. N - 1 /\ len \in 0 .. N - 1
      BY <1>0, NAssumption DEF TypeOK, Slot
    <3> QED
      BY <2>2, <3>1 DEF SlotAt, Slot
  <2>4. \A i \in 0 .. len - 1 : buffer'[SlotAt(i)] = buffer[SlotAt(i)]
    BY <1>0, <2>1, <2>3 DEF TypeOK
  <2>5. Executed' = Executed /\ Accepted' = Accepted
    BY <2>1 DEF Executed, Accepted, InFlight
  <2>6. Waiting' = Waiting
    BY <1>0, <2>1, <2>4, Stays
  <2> QED
    BY <2>1, <2>5, <2>6 DEF Q!qvars
<1>9. ASSUME Load
      PROVE  UNCHANGED Q!qvars
  <2>1. Executed = 0 /\ Executed' = 0
    BY <1>0, <1>9 DEF Load, Control, LoadExclusive, Executed
  <2>2. /\ UNCHANGED <<tail, len, buffer, raced>>
        /\ Accepted' = Accepted
    BY <1>9 DEF Load, Accepted, InFlight
  <2> QED
    BY <2>1, <2>2, Stutters
<1>10. ASSUME \/ Input \/ Enter \/ WaitRoom \/ WaitTimeout \/ CountLoad
              \/ HandOff \/ SyncCall \/ Sync \/ WaitIdle \/ WaitReturns
              \/ StartThread \/ UNCHANGED vars
       PROVE  UNCHANGED Q!qvars
  <2>1. UNCHANGED <<tail, len, buffer, raced, timerOn, current>>
    BY <1>10 DEF Input, Enter, WaitRoom, WaitTimeout, CountLoad, HandOff,
       SyncCall, Sync, WaitIdle, WaitReturns, StartThread, vars
  <2>2. Accepted' = Accepted
    <3>1. issued \in Int
      BY <1>0, MaxMotionAssumption DEF TypeOK
    <3>2. CASE Input
      BY <3>1, <3>2 DEF Input, Accepted, InFlight
    <3>3. CASE ~Input
      BY <1>10, <3>3 DEF Enter, WaitRoom, WaitTimeout, CountLoad, HandOff,
         SyncCall, Sync, WaitIdle, WaitReturns, StartThread, vars, Accepted,
         InFlight
    <3> QED
      BY <3>2, <3>3
  <2>3. Executed' = Executed
    BY <2>1 DEF Executed
  <2> QED
    BY <2>1, <2>2, <2>3, Stutters
<1> QED
  BY <1>1, <1>2, <1>3, <1>4, <1>5, <1>6, <1>7, <1>8, <1>9, <1>10
     DEF Next, ISR, ThreadStep, StopStep

-----------------------------------------------------------------------------
LEMMA InitRefines == Init => Q!Init
<1> SUFFICES ASSUME Init PROVE Q!Init
  OBVIOUS
<1>1. Waiting = <<>>
  BY InitIInv, WaitingIs DEF Init, IInv, WaitingFacts
<1>2. Executed = 0 /\ Accepted = 0 /\ raced = FALSE
  BY DEF Init, Executed, Accepted, InFlight
<1> QED
  BY <1>1, <1>2 DEF Q!Init

(* The motion buffer executes the motions handed to it one at a time, each *)
(* once and in order, and drops at a stop what waits and what runs, as     *)
(* long as no update of its counter was lost.                              *)
THEOREM BufferIsQueue == Spec => ImplementsQueue
<1>1. IInv /\ IInv' /\ [Next]_vars => [Q!Next]_Q!qvars
  BY StepRefines DEF IInv
<1> QED
  BY <1>1, InitRefines, Inductive, PTL DEF Spec, ImplementsQueue, Q!Spec
=============================================================================
