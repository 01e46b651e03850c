----------------------------- MODULE StepBlock -----------------------------
(***************************************************************************)
(* The motion buffer of lib/libStepBlock.c: a ring of motions filled by    *)
(* the G-code thread (stepBlock_inputMotion) and drained by the TIM1       *)
(* update interrupt (stepBlock_ISR), with an RT-Thread event object        *)
(* carrying BLOCK_COMPLETE and BLOCK_IDLE between them, a forced stop from *)
(* another thread, and the threads that wait for the printer to be idle.   *)
(*                                                                         *)
(* Interleaving.  The interrupt preempts every thread and is preempted by  *)
(* none, so stepBlock_ISR is one action.  Thread code is one action per    *)
(* access to state the interrupt shares: `b->len++' is a load and a store. *)
(* stepBlock_loadNextMotion run by the thread is two actions (Load,        *)
(* Launch); that the interrupt is off between them is LoadExclusive.       *)
(* A motion is its number, counted from 1; 0 is a slot never written.      *)
(* The ticks between the start and the end of a motion are in StepAxis.    *)
(***************************************************************************)
EXTENDS Integers

CONSTANTS N,            \* MOTION_BUFFER_SIZE
          MaxMotion     \* bound: motions handed over in a behaviour

ASSUME NAssumption == N \in Nat /\ N >= 2
ASSUME MaxMotionAssumption == MaxMotion \in Nat

VARIABLES
    buffer, head, tail, len,    \* the ring and its indices
    current,                    \* currentLine: the motion the interrupt works on
    currentBuffer,              \* the slot it was loaded from (N: NULL)
    busy,                       \* stepAxis.busyFlag # 0
    timerOn,                    \* TIM1 counts and interrupts
    events,                     \* event->set
    overrun,                    \* error_stepBlockOverrun
    notSync,                    \* error_inputBlock_notsync
    pc,                         \* where the G-code thread is
    reg,                        \* the register of `b->len++'
    issued,                     \* number of the last motion handed over
    stop,                       \* progress of stepGCode_stop in another thread
    waiter,                     \* another thread calling stepBlock_waitForIdle
    raced,                      \* history: an update of len was lost
    lostIdle                    \* history: IDLE was consumed and nothing started
                                \* (both until a stop empties the ring)

ring == <<buffer, head, tail, len>>
engine == <<current, currentBuffer, busy, timerOn, overrun>>
hist == <<raced, lostIdle>>
vars == <<ring, engine, events, notSync, pc, reg, issued, stop, waiter, hist>>

PC == {"off",           \* no G-code thread
       "idle",          \* between two calls into the motion buffer
       "enter", "full", "blocked", "put", "count", "incLen", "handoff",
       "load", "launch",                        \* inside inputMotion
       "sync", "syncBlocked",                   \* inside waitForIdle
       "stopping"}                              \* M0/M84: inside forceStop
Motion == 1 .. MaxMotion
Slot == 0 .. N - 1

\* Mutants, here and below, stand before the definition they replace.
incNoWrap(i) == i + 1
FullLate == len >= N
inc(i) == IF i + 1 >= N THEN 0 ELSE i + 1
Full == len >= N - 1

-----------------------------------------------------------------------------
(* The event object.  RT_IPC_CMD_RESET empties the set and resumes every   *)
(* suspended thread with an error; a send resumes the threads whose bits   *)
(* are all set, and those that asked for RT_EVENT_FLAG_CLEAR consume them. *)

PcSleepsOn(p) == IF p = "syncBlocked" THEN "sync" ELSE p
ResetIsOk == IF waiter = "blocked" THEN "ok" ELSE waiter
SendMissesSync(p, E) == IF p = "blocked" /\ "COMPLETE" \in E THEN "full" ELSE p
SendWakesFirst(E) ==
    IF waiter = "blocked" /\ "IDLE" \in E /\ pc # "syncBlocked"
    THEN "ok" ELSE waiter

\* The G-code thread tests its condition again when its wait fails.
PcAfterReset(p) == CASE p = "blocked" -> "full"
                     [] p = "syncBlocked" -> "sync"
                     [] OTHER -> p

\* The other waiter takes whatever the wait returned.
WaiterAfterReset == IF waiter = "blocked" THEN "error" ELSE waiter

\* Sending bits E: who is resumed, and the set that is left.
PcAfterSend(p, E) == CASE p = "blocked" /\ "COMPLETE" \in E -> "full"
                       [] p = "syncBlocked" /\ "IDLE" \in E -> "idle"
                       [] OTHER -> p
WaiterAfterSend(E) ==
    IF waiter = "blocked" /\ "IDLE" \in E THEN "ok" ELSE waiter
EventsAfterSend(p, E) ==
    IF p = "blocked" /\ "COMPLETE" \in E
    THEN (events \cup E) \ {"COMPLETE"} ELSE events \cup E
Send(p, E) == /\ events' = EventsAfterSend(p, E)
              /\ waiter' = WaiterAfterSend(E)

-----------------------------------------------------------------------------
(* stepBlock_init leaves both events set, the timer running with nothing   *)
(* to execute, and currentBuffer NULL.                                     *)
Init ==
    /\ buffer = [i \in Slot |-> 0] /\ head = 0 /\ tail = 0 /\ len = 0
    /\ current = 0 /\ currentBuffer = N /\ busy = FALSE
    /\ timerOn = TRUE /\ overrun = 0 /\ notSync = 0
    /\ events = {"COMPLETE", "IDLE"}
    /\ pc = "off" /\ reg = 0 /\ issued = 0
    /\ stop = "no" /\ waiter = "out" /\ raced = FALSE /\ lostIdle = FALSE

-----------------------------------------------------------------------------
ISRLoadAgain ==         \* tail is not moved
    /\ timerOn /\ len > 0
    /\ overrun' = IF busy THEN overrun ELSE overrun + 1
    /\ current' = buffer[tail] /\ currentBuffer' = tail
    /\ busy' = (buffer[tail] # 0)
    /\ len' = len - 1
    /\ pc' = PcAfterReset(pc) /\ waiter' = WaiterAfterReset
    /\ events' = {"COMPLETE"}
    /\ UNCHANGED <<buffer, head, tail, timerOn, notSync, reg, issued, stop, hist>>

ISRDrainNoIdle ==       \* IDLE is not sent
    /\ timerOn /\ len = 0
    /\ overrun' = IF busy THEN overrun ELSE overrun + 1
    /\ busy' = FALSE /\ timerOn' = FALSE
    /\ pc' = PcAfterSend(pc, {"COMPLETE"})
    /\ Send(pc, {"COMPLETE"})
    /\ UNCHANGED <<ring, current, currentBuffer, notSync, reg, issued, stop, hist>>

ISRDrainTimerOn ==      \* the timer is not switched off
    /\ timerOn /\ len = 0
    /\ overrun' = IF busy THEN overrun ELSE overrun + 1
    /\ busy' = FALSE
    /\ pc' = PcAfterSend(pc, {"COMPLETE", "IDLE"})
    /\ Send(pc, {"COMPLETE", "IDLE"})
    /\ UNCHANGED <<ring, current, currentBuffer, timerOn, notSync, reg, issued,
                   stop, hist>>

(* The TIM1 update interrupt, at the tick that ends a motion (or finds     *)
(* none): the next motion is loaded, or the timer is switched off and the  *)
(* buffer declared idle.                                                   *)
ISRLoad ==
    /\ timerOn /\ len > 0
    /\ overrun' = IF busy THEN overrun ELSE overrun + 1
    /\ current' = buffer[tail] /\ currentBuffer' = tail
    /\ busy' = (buffer[tail] # 0)
    /\ tail' = inc(tail) /\ len' = len - 1
    /\ pc' = PcAfterReset(pc)
    /\ waiter' = WaiterAfterReset
    /\ events' = {"COMPLETE"}       \* RESET resumed all, then COMPLETE is sent
    /\ UNCHANGED <<buffer, head, timerOn, notSync, reg, issued, stop, hist>>

ISRDrain ==
    /\ timerOn /\ len = 0
    /\ overrun' = IF busy THEN overrun ELSE overrun + 1
    /\ busy' = FALSE
    /\ timerOn' = FALSE
    /\ pc' = PcAfterSend(pc, {"COMPLETE", "IDLE"})
    /\ Send(pc, {"COMPLETE", "IDLE"})
    /\ UNCHANGED <<ring, current, currentBuffer, notSync, reg, issued, stop,
                   hist>>

ISR == ISRLoad \/ ISRDrain

-----------------------------------------------------------------------------
(* stepBlock_inputMotion, called by the G-code thread for one motion.      *)
Input ==
    /\ pc = "idle" /\ issued < MaxMotion
    /\ issued' = issued + 1
    /\ pc' = "enter"
    /\ UNCHANGED <<ring, engine, events, notSync, reg, stop, waiter, hist>>

\* Lines 85 and 90: without waiting, a stale COMPLETE is discarded.
Enter ==
    /\ pc = "enter"
    /\ IF Full THEN pc' = "full" /\ UNCHANGED events
               ELSE pc' = "put" /\ events' = events \ {"COMPLETE"}
    /\ UNCHANGED <<ring, engine, notSync, reg, issued, stop, waiter, hist>>

\* Lines 86 and 87: COMPLETE is consumed if set, else the thread suspends.
WaitRoom ==
    /\ pc = "full"
    /\ IF ~Full THEN pc' = "put" /\ UNCHANGED events
       ELSE IF "COMPLETE" \in events
       THEN pc' = "full" /\ events' = events \ {"COMPLETE"}
       ELSE pc' = "blocked" /\ UNCHANGED events
    /\ UNCHANGED <<ring, engine, notSync, reg, issued, stop, waiter, hist>>

\* The wait gives up after 10 ticks and the condition is tested again.
WaitTimeout ==
    /\ pc = "blocked"
    /\ pc' = "full"
    /\ UNCHANGED <<ring, engine, events, notSync, reg, issued, stop, waiter,
                   hist>>

\* Lines 92 to 94: the slot at head is written and head moves on.
Put ==
    /\ pc = "put"
    /\ IF Full
       THEN /\ notSync' = notSync + 1 /\ pc' = "idle"
            /\ UNCHANGED <<buffer, head>>
       ELSE /\ buffer' = [buffer EXCEPT ![head] = issued]
            /\ head' = inc(head) /\ pc' = "count"
            /\ UNCHANGED notSync
    /\ UNCHANGED <<tail, len, engine, events, reg, issued, stop, waiter, hist>>

\* Line 95 is a load, an addition and a store.
CountLoad ==
    /\ pc = "count"
    /\ reg' = len
    /\ pc' = "incLen"
    /\ UNCHANGED <<ring, engine, events, notSync, issued, stop, waiter, hist>>

CountStore ==
    /\ pc = "incLen"
    /\ len' = reg + 1
    /\ raced' = (raced \/ len # reg)
    /\ pc' = "handoff"
    /\ UNCHANGED <<buffer, head, tail, engine, events, notSync, reg, issued,
                   stop, waiter, lostIdle>>

HandOffKeepsIdle ==     \* RT_EVENT_FLAG_CLEAR is forgotten
    /\ pc = "handoff"
    /\ pc' = IF "IDLE" \in events THEN "load" ELSE "idle"
    /\ UNCHANGED <<ring, engine, events, notSync, reg, issued, stop, waiter, hist>>

\* Line 100: whoever consumes IDLE starts the engine.
HandOff ==
    /\ pc = "handoff"
    /\ IF "IDLE" \in events
       THEN pc' = "load" /\ events' = events \ {"IDLE"}
       ELSE pc' = "idle" /\ UNCHANGED events
    /\ UNCHANGED <<ring, engine, notSync, reg, issued, stop, waiter, hist>>

\* Lines 45 to 54, or 77: the motion at tail becomes the current one.
Load ==
    /\ pc = "load"
    /\ IF len > 0
       THEN /\ current' = buffer[tail] /\ currentBuffer' = tail
            /\ busy' = (buffer[tail] # 0) /\ pc' = "launch"
            /\ UNCHANGED <<timerOn, lostIdle>>
       ELSE /\ timerOn' = FALSE /\ pc' = "idle"
            /\ lostIdle' = TRUE
            /\ UNCHANGED <<current, currentBuffer, busy>>
    /\ UNCHANGED <<ring, overrun, events, notSync, reg, issued, stop, waiter,
                   raced>>

LaunchNoTimer ==        \* the timer is not enabled
    /\ pc = "launch"
    /\ tail' = inc(tail) /\ len' = len - 1
    /\ events' = {} /\ waiter' = WaiterAfterReset
    /\ pc' = "idle"
    /\ UNCHANGED <<buffer, head, current, currentBuffer, busy, timerOn, overrun,
                   notSync, reg, issued, stop, hist>>

\* Lines 55 to 75: the slot is released, the events reset, the timer started.
Launch ==
    /\ pc = "launch"
    /\ tail' = inc(tail) /\ len' = len - 1
    /\ events' = {} /\ waiter' = WaiterAfterReset
    /\ timerOn' = TRUE
    /\ pc' = "idle"
    /\ UNCHANGED <<buffer, head, current, currentBuffer, busy, overrun,
                   notSync, reg, issued, stop, hist>>

-----------------------------------------------------------------------------
(* G28, M1, M2 and M18 repeat stepBlock_waitForIdle until it succeeds.     *)
SyncCall ==
    /\ pc = "idle"
    /\ pc' = "sync"
    /\ UNCHANGED <<ring, engine, events, notSync, reg, issued, stop, waiter,
                   hist>>

Sync ==
    /\ pc = "sync"
    /\ pc' = IF "IDLE" \in events THEN "idle" ELSE "syncBlocked"
    /\ UNCHANGED <<ring, engine, events, notSync, reg, issued, stop, waiter,
                   hist>>

\* Another thread (CPThread) calls stepBlock_waitForIdle once.
WaitIdle ==
    /\ waiter = "out"
    /\ waiter' = IF "IDLE" \in events THEN "ok" ELSE "blocked"
    /\ UNCHANGED <<ring, engine, events, notSync, pc, reg, issued, stop, hist>>

WaitReturns ==
    /\ waiter \in {"ok", "error"}
    /\ waiter' = "out"
    /\ UNCHANGED <<ring, engine, events, notSync, pc, reg, issued, stop, hist>>

-----------------------------------------------------------------------------
(* stepBlock_forceStop up to its delay: the timer is switched off, IDLE    *)
(* is withdrawn, the counter cleared, COMPLETE sent.                       *)
Halt(p) ==
    /\ timerOn' = FALSE
    /\ len' = 0
    /\ events' = (EventsAfterSend(p, {"COMPLETE"})) \ {"IDLE"}

RewindHeadOnly(p) ==    \* tail is not reset
    /\ Send(p, {"COMPLETE", "IDLE"})
    /\ head' = 0 /\ len' = 0 /\ tail' = tail
    /\ raced' = FALSE /\ lostIdle' = FALSE

\* After the delay: both events are sent and the ring is emptied.
Rewind(p) ==
    /\ Send(p, {"COMPLETE", "IDLE"})
    /\ head' = 0 /\ tail' = 0 /\ len' = 0
    /\ raced' = FALSE /\ lostIdle' = FALSE

\* M0 and M84 stop the motion from the G-code thread itself.
StopCall ==
    /\ pc = "idle"
    /\ pc' = "stopping"
    /\ Halt(pc)
    /\ UNCHANGED <<buffer, head, tail, current, currentBuffer, busy, overrun,
                   notSync, reg, issued, stop, waiter, hist>>

StopEnd ==
    /\ pc = "stopping"
    /\ pc' = "idle"
    /\ Rewind(pc)
    /\ UNCHANGED <<buffer, engine, notSync, reg, issued, stop>>

(* stepGCode_stop, called by another thread: the G-code thread is deleted  *)
(* wherever it is, then stepBlock_forceStop runs.                          *)
Delete ==
    /\ stop = "no"
    /\ stop' = "deleted"
    /\ pc' = "off"
    /\ UNCHANGED <<ring, engine, events, notSync, reg, issued, waiter, hist>>

ForceStop ==
    /\ stop = "deleted"
    /\ stop' = "delay"
    /\ Halt(pc)
    /\ UNCHANGED <<buffer, head, tail, current, currentBuffer, busy, overrun,
                   notSync, pc, reg, issued, waiter, hist>>

ForceStopEnd ==
    /\ stop = "delay"
    /\ stop' = "no"
    /\ Rewind(pc)
    /\ UNCHANGED <<buffer, engine, notSync, pc, reg, issued>>

(* stepGCode_start creates the G-code thread.  At power-up the first TIM1  *)
(* update (1 ms after stepBlock_init) precedes the first line of G-code;   *)
(* later the timer is off whenever no thread exists.                       *)
StartThread ==
    /\ pc = "off" /\ stop = "no" /\ ~timerOn
    /\ pc' = "idle"
    /\ UNCHANGED <<ring, engine, events, notSync, reg, issued, stop, waiter,
                   hist>>

-----------------------------------------------------------------------------
ThreadStep == \/ Enter \/ WaitRoom \/ Put \/ CountLoad \/ CountStore
              \/ HandOff \/ Load \/ Launch \/ Sync \/ StopEnd

StopStep == ForceStop \/ ForceStopEnd

Next == \/ ISR \/ Input \/ ThreadStep \/ WaitTimeout \/ SyncCall
        \/ WaitIdle \/ WaitReturns \/ StopCall \/ Delete \/ StopStep
        \/ StartThread

(* The timer interrupts while it is on (every motion ends: StepAxis), the  *)
(* scheduler runs every ready thread (round robin at one priority).  Lines *)
(* of G-code, stops and the 10-tick timeout need never come.               *)
Fairness == /\ WF_vars(ISR) /\ WF_vars(ThreadStep) /\ WF_vars(StopStep)
            /\ WF_vars(WaitReturns)

Spec == Init /\ [][Next]_vars /\ Fairness
-----------------------------------------------------------------------------
(* Properties.                                                             *)

\* Every variable has its type.
TypeOK ==
    /\ buffer \in [Slot -> 0 .. MaxMotion]
    /\ head \in Slot /\ tail \in Slot /\ len \in 0 .. N - 1
    /\ current \in 0 .. MaxMotion /\ currentBuffer \in 0 .. N
    /\ busy \in BOOLEAN /\ timerOn \in BOOLEAN
    /\ overrun \in Nat /\ notSync \in Nat
    /\ events \subseteq {"COMPLETE", "IDLE"}
    /\ pc \in PC /\ reg \in 0 .. N - 2 /\ issued \in 0 .. MaxMotion
    /\ stop \in {"no", "deleted", "delay"}
    /\ waiter \in {"out", "blocked", "ok", "error"}
    /\ raced \in BOOLEAN /\ lostIdle \in BOOLEAN

\* The slot i places after tail.
SlotAt(i) == IF tail + i >= N THEN tail + i - N ELSE tail + i

\* The G-code thread holds a motion it has not yet counted.
InFlight == pc \in {"enter", "full", "blocked", "put", "count", "incLen"}
Uncounted == pc \in {"count", "incLen"}

(* The waiting slots hold consecutive motions; they follow the motion      *)
(* being executed and end with the last one handed over; head is where the *)
(* next one goes.                                                          *)
Consecutive == \A i \in 0 .. len - 1 : buffer[SlotAt(i)] = buffer[tail] + i
FollowsCurrent == timerOn /\ len > 0 => buffer[tail] = current + 1
EndsAtIssued ==
    len > 0 /\ pc # "off" =>
        buffer[tail] + len = IF InFlight THEN issued ELSE issued + 1
HeadAfterLast ==
    pc \notin {"off", "stopping"} =>
        head = SlotAt(IF Uncounted THEN len + 1 ELSE len)

(* Every motion is executed once and in its turn (inputMotion, ISR and     *)
(* forceStop together), as long as no update of len was lost.              *)
FifoOrder == ~raced => /\ Consecutive /\ FollowsCurrent
                       /\ EndsAtIssued /\ HeadAfterLast

(* The slot of the motion being executed is not reused before it ends: the *)
(* interrupt writes its true rates back there, and the planner reads them  *)
(* as the previous motion's.  This is what MOTION_BUFFER_SIZE - 1 is for.  *)
RunningSlotKept ==
    ~raced /\ timerOn /\ issued > 0 => /\ currentBuffer \in Slot
                                       /\ buffer[currentBuffer] = current

\* inputMotion never gives up a motion because the buffer filled up again.
NeverNotSync == notSync = 0

(* IDLE is set only when the engine is off (power-up apart), and while the *)
(* thread that consumed it loads a motion the interrupt cannot load one as *)
(* well: the engine is started by one party at a time.                     *)
LoadExclusive ==
    /\ pc # "off" /\ "IDLE" \in events => ~timerOn
    /\ pc \in {"load", "launch"} => ~timerOn /\ "IDLE" \notin events

(* No lost start: a motion counted while the engine is off is about to be  *)
(* started by the thread that counted it, or dropped by a stop, unless     *)
(* that thread had consumed IDLE for a motion the interrupt had completed. *)
NoStrandedMotion ==
    len > 0 /\ ~timerOn => \/ pc \in {"handoff", "load", "launch"}
                           \/ stop = "deleted"
                           \/ lostIdle

(* No lost wakeup: a thread that sleeps for room is woken by the engine,   *)
(* never only by its timeout.                                              *)
SleeperHasEngine == pc = "blocked" /\ ~lostIdle => Full /\ timerOn

(* The interrupt finds nothing to execute (error_stepBlockOverrun) only at *)
(* power-up, or when a wrong counter made it load a slot never written.    *)
OverrunOnlyAtBoot == [][overrun' # overrun => issued = 0 \/ raced]_vars

(* waitForIdle answers RT_EOK to another thread only when the engine is    *)
(* off, and before the first motion.                                       *)
WaitOkMeansOff ==
    [][waiter # "ok" /\ waiter' = "ok" => ~timerOn' \/ issued = 0]_vars

(* "Timer ISR is enabled when motionBuffer is not empty and disabled when  *)
(* it is empty" (libStepBlock.c:141-142): the interrupt that ends the last *)
(* motion handed over switches the timer off.                              *)
TimerFollowsBuffer == [][ISR /\ current = issued => ~timerOn']_vars

(* The other half of that comment, line 141: between two calls of          *)
(* inputMotion a buffer that holds motions has its timer enabled.          *)
TimerOnWhenBuffered == len > 0 /\ pc = "idle" /\ stop = "no" => timerOn

\* What waits is started, or dropped by a stop, unless an update was lost.
Queued(m) == \E i \in 0 .. len - 1 : buffer[SlotAt(i)] = m
QueuedIsStarted == \A m \in Motion : Queued(m) ~> (~Queued(m) \/ raced \/ lostIdle)

(* inputMotion and the loops around waitForIdle in G28, M1, M2 and M18     *)
(* return, unless their thread is deleted: nobody waits for everybody.     *)
CallsReturn ==
    (pc \notin {"idle", "off"}) ~> (pc \in {"idle", "off"} \/ lostIdle)

\* A thread that waits for IDLE for ever is resumed.
WaiterResumes == (waiter = "blocked") ~> (waiter # "blocked" \/ lostIdle)

(* The buffer implements the FIFO of MotionQueue.  Between Load and Launch *)
(* the motion still counts as waiting; a motion is accepted when counted.  *)
Waiting == [i \in 1 .. len |-> buffer[SlotAt(i - 1)]]
Executed == IF timerOn THEN current ELSE 0
Accepted == IF InFlight THEN issued - 1 ELSE issued
Q == INSTANCE MotionQueue WITH
        Capacity <- N - 1,
        queue    <- Waiting,
        running  <- Executed,
        last     <- Accepted,
        failed   <- raced

ImplementsQueue == Q!Spec
-----------------------------------------------------------------------------
(* The inductive invariant, proved in StepBlockProofs.                     *)

\* Who may touch what, whatever happened to the counter.
Control ==
    /\ LoadExclusive
    /\ pc = "stopping" => ~timerOn
    /\ stop # "no" => pc = "off"
    /\ stop = "delay" => ~timerOn /\ len = 0
    /\ pc = "off" /\ stop = "no" => len = 0 /\ head = tail
    /\ pc \in {"put", "count"} => len <= N - 2
    /\ pc = "incLen" => len <= reg
    /\ pc = "launch" => /\ len > 0
                        /\ current = buffer[tail] /\ currentBuffer = tail
    /\ InFlight \/ pc \in {"handoff", "load", "launch"} => issued > 0
    /\ pc # "off" /\ timerOn => issued > 0

\* IDLE is missing while the engine is off only where the code accounts for it.
IdleAccounted ==
    ~timerOn /\ "IDLE" \notin events =>
        pc \in {"load", "launch", "stopping"} \/ stop # "no" \/ lostIdle

\* What else FifoOrder and RunningSlotKept rest on.
EngineAtIssued ==
    timerOn /\ pc # "off" =>
        current + len + 1 = IF InFlight THEN issued ELSE issued + 1
PutAfterLast == Uncounted => buffer[SlotAt(len)] = issued
SlotBeforeTail ==
    timerOn /\ issued > 0 => /\ currentBuffer \in Slot
                             /\ inc(currentBuffer) = tail
                             /\ buffer[currentBuffer] = current
Order == ~raced => /\ Consecutive /\ FollowsCurrent /\ EndsAtIssued
                   /\ HeadAfterLast /\ EngineAtIssued /\ PutAfterLast
                   /\ SlotBeforeTail

IInv == /\ TypeOK /\ NeverNotSync /\ Control
        /\ IdleAccounted /\ NoStrandedMotion /\ SleeperHasEngine
        /\ Order

\* What the action properties rest on besides: a motion is never 0, so the
\* engine that is on works on one; IDLE says that it is off.
EngineWorks ==
    ~raced => /\ len > 0 => buffer[tail] > 0
              /\ pc = "launch" => busy
              /\ timerOn /\ issued > 0 => busy
IdleIsOff == "IDLE" \in events /\ issued > 0 => ~timerOn

AInv == IInv /\ EngineWorks /\ IdleIsOff
=============================================================================
