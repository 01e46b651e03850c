------------------------------ MODULE PrintJob ------------------------------
(***************************************************************************)
(* The life of a print: corePrinter_start and corePrinter_stop, called by  *)
(* the display and shell threads (one caller, "hmi") and, at the end of a  *)
(* file, by CPThread ("cp"); stepGCode_start and stepGCode_stop below      *)
(* them, which create and delete the G-code thread; and that thread, which *)
(* reads lines from the printed file or from the console and hands motions *)
(* to the motion buffer.                                                   *)
(*                                                                         *)
(* Interleaving.  All threads have one priority and share the processor in *)
(* time slices, so a call is cut into actions at the accesses to what      *)
(* others share.  No lock protects a call: the two callers may overlap,    *)
(* and `overlap' remembers that they did.                                  *)
(* The buffer is the FIFO of StepBlock reduced to what a print sees: a     *)
(* call of inputMotion is one action once there is room.  A line of the    *)
(* file is one motion, belonging to its print (1, 2, ...); lines of the    *)
(* console belong to print 0.                                              *)
(***************************************************************************)
EXTENDS Integers, Sequences, FiniteSets

CONSTANTS Thread,       \* identities of G-code threads (bound: alive at once)
          NoThread,     \* the value 0 of g->thread
          MaxJob,       \* bound: prints started in a behaviour
          Lines,        \* bound: lines of a file (fd.size)
          Room          \* motions the buffer holds (MOTION_BUFFER_SIZE - 1)

ASSUME ThreadAssumption == NoThread \notin Thread
ASSUME BoundAssumption == MaxJob \in Nat /\ Lines \in Nat /\ Room \in Nat \ {0}

VARIABLES
    file, pos,          \* the print whose file is open (0: closed), lines read
    complete,           \* printFileComplete = 100
    jobs,               \* prints started
    handle,             \* g->thread (NoThread: 0)
    alive,              \* the G-code threads the scheduler knows
    line,               \* the print whose line each thread is running
    device,             \* g->currentDevice
    attached,           \* g->device[g->currentDevice] # 0
    stopped, started,   \* GCODE_EVENT_STOPPED and GCODE_EVENT_STARTED
    queue, running,     \* motions waiting and in execution, by print
    idle,               \* STEP_EVENT_BLOCK_IDLE
    at, call,           \* where each caller is, and in which call
    overlap             \* history: the two callers were inside at once

reader == <<handle, alive, line, device, attached, stopped, started>>
buffer == <<queue, running, idle>>
print == <<file, pos, complete, jobs>>
vars == <<print, reader, buffer, at, call, overlap>>

Caller == {"hmi", "cp"}
Job == 1 .. MaxJob
None == -1

\* Places inside a call, in the order of the code.
InCall == {"close", "kill", "reset", "halt", "delay", "open", "finish",
           "begin", "send", "mark"}
Place == {"out", "polling", "await", "blocked", "woken"} \cup InCall

Go(p, place) == at' = [at EXCEPT ![p] = place]

-----------------------------------------------------------------------------
(* After corePrinter_init: the console is being read.                      *)
Init ==
    /\ file = 0 /\ pos = 0 /\ complete = TRUE /\ jobs = 0
    /\ \E t \in Thread : handle = t /\ alive = {t}
    /\ line = [t \in Thread |-> None]
    /\ device = 0 /\ attached = TRUE /\ stopped = FALSE /\ started = TRUE
    /\ queue = <<>> /\ running = None /\ idle = TRUE
    /\ at = [p \in Caller |-> "out"] /\ call = [p \in Caller |-> "none"]
    /\ overlap = FALSE

-----------------------------------------------------------------------------
(* The motion buffer (StepBlock).                                          *)

\* A wait for IDLE ends, with RT_EOK or with an error: CPThread does not look.
Wake == at' = [at EXCEPT !["cp"] = IF @ = "blocked" THEN "woken" ELSE @]

\* inputMotion: whoever consumes IDLE loads a motion, which resets the event.
Input(j) ==
    /\ Len(queue) < Room
    /\ IF idle
       THEN /\ running' = Head(Append(queue, j))
            /\ queue' = Tail(Append(queue, j))
            /\ idle' = FALSE
            /\ Wake
       ELSE /\ queue' = Append(queue, j)
            /\ UNCHANGED <<running, idle, at>>

\* The interrupt at the end of a motion: the next one, with a reset, or idle.
EndMotion ==
    /\ running # None
    /\ IF queue # <<>>
       THEN /\ running' = Head(queue) /\ queue' = Tail(queue)
            /\ idle' = FALSE
       ELSE /\ running' = None /\ queue' = queue
            /\ idle' = TRUE
    /\ Wake
    /\ UNCHANGED <<print, reader, call, overlap>>

-----------------------------------------------------------------------------
\* Mutants, here and below, stand before the definition they replace.
GetLinePastEnd(t) ==    \* the end of the file is not noticed
    /\ t \in alive /\ line[t] = None
    /\ started /\ attached
    /\ IF device = 1
       THEN /\ file # 0
            /\ pos' = pos + 1
            /\ line' = [line EXCEPT ![t] = file]
       ELSE /\ line' = [line EXCEPT ![t] = 0]
            /\ UNCHANGED pos
    /\ UNCHANGED <<file, complete, jobs, handle, alive, device, attached,
                   stopped, started, buffer, at, call, overlap>>

(* The G-code thread t (stepGCode_thread).                                 *)
GetLine(t) ==
    /\ t \in alive /\ line[t] = None
    /\ started /\ attached
    /\ IF device = 1
       THEN /\ file # 0 /\ pos < Lines
            /\ pos' = pos + 1
            /\ line' = [line EXCEPT ![t] = file]
       ELSE /\ line' = [line EXCEPT ![t] = 0]
            /\ UNCHANGED pos
    /\ UNCHANGED <<file, complete, jobs, handle, alive, device, attached,
                   stopped, started, buffer, at, call, overlap>>

RunLine(t) ==
    /\ t \in alive /\ line[t] # None
    /\ Input(line[t])
    /\ line' = [line EXCEPT ![t] = None]
    /\ UNCHANGED <<print, handle, alive, device, attached, stopped, started,
                   call, overlap>>

-----------------------------------------------------------------------------
(* corePrinter_start and corePrinter_stop, by caller p.  Overlapping calls *)
(* can leave a thread behind; after one the user waits for CPThread to     *)
(* rest before calling again, a bound on the threads left behind.          *)
Enter(p, c) ==
    /\ Go(p, "close")
    /\ call' = [call EXCEPT ![p] = c]
    /\ overlap' = (overlap \/ \E q \in Caller \ {p} : at[q] \in InCall)

\* fileDevice_close.
Close(p) ==
    /\ at[p] = "close"
    /\ file' = 0 /\ pos' = 0
    /\ Go(p, "kill")
    /\ UNCHANGED <<complete, jobs, reader, buffer, call, overlap>>

KillForgets(p) ==       \* g->thread is cleared, the thread lives on
    /\ at[p] = "kill"
    /\ handle' = NoThread
    /\ Go(p, "reset")
    /\ UNCHANGED <<print, alive, line, device, attached, stopped, started,
                   buffer, call, overlap>>

ResetOnly(p) ==         \* stepPosition_stop is not called
    /\ at[p] = "reset"
    /\ handle' = NoThread
    /\ attached' = FALSE /\ stopped' = TRUE /\ started' = FALSE
    /\ Go(p, IF call[p] = "start" THEN "open" ELSE "finish")
    /\ UNCHANGED <<print, alive, line, device, buffer, call, overlap>>

ResetSilent(p) ==       \* STOPPED is not sent
    /\ at[p] = "reset"
    /\ handle' = NoThread
    /\ attached' = FALSE /\ stopped' = FALSE /\ started' = FALSE
    /\ Go(p, "halt")
    /\ UNCHANGED <<print, alive, line, device, buffer, call, overlap>>

\* stepGCode_stop: the thread is deleted wherever it is, ...
Kill(p) ==
    /\ at[p] = "kill"
    /\ alive' = alive \ {handle} /\ handle' = NoThread
    /\ line' = [t \in Thread |-> IF t = handle THEN None ELSE line[t]]
    /\ Go(p, "reset")
    /\ UNCHANGED <<print, device, attached, stopped, started,
                   buffer, call, overlap>>

\* ... stepGCode_reset forgets it and sends STOPPED.
Reset(p) ==
    /\ at[p] = "reset"
    /\ handle' = NoThread
    /\ attached' = FALSE /\ stopped' = TRUE /\ started' = FALSE
    /\ Go(p, "halt")
    /\ UNCHANGED <<print, alive, line, device, buffer, call, overlap>>

\* stepBlock_forceStop up to its delay, ...
Halt(p) ==
    /\ at[p] = "halt"
    /\ running' = None /\ queue' = <<>> /\ idle' = FALSE
    /\ Go(p, "delay")
    /\ UNCHANGED <<print, reader, call, overlap>>

\* ... and after it; IDLE wakes CPThread.
Rewind(p) ==
    /\ at[p] = "delay"
    /\ queue' = <<>> /\ idle' = TRUE
    /\ at' = [q \in Caller |->
                IF q = p THEN IF call[p] = "start" THEN "open" ELSE "finish"
                ELSE IF at[q] = "blocked" THEN "woken" ELSE at[q]]
    /\ UNCHANGED <<print, reader, running, call, overlap>>

\* fileDevice_open: the file may be missing; one still open is not reopened.
Open(p) ==
    /\ at[p] = "open"
    /\ \/ file' = IF file = 0 THEN jobs + 1 ELSE file
       \/ file' = file
    /\ jobs' = jobs + 1
    /\ Go(p, "begin")
    /\ UNCHANGED <<pos, complete, reader, buffer, call, overlap>>

\* corePrinter_stop marks the print complete (and turns the heater off).
Finish(p) ==
    /\ at[p] = "finish"
    /\ complete' = TRUE
    /\ Go(p, "begin")
    /\ UNCHANGED <<file, pos, jobs, reader, buffer, call, overlap>>

\* stepGCode_start, by whoever consumes STOPPED.
Target(p) == IF call[p] = "start" THEN 1 ELSE 0
Begin(p) ==
    /\ at[p] = "begin"
    /\ IF stopped
       THEN /\ stopped' = FALSE
            /\ device' = Target(p) /\ attached' = TRUE
            /\ IF handle = NoThread
               THEN /\ \E t \in Thread \ alive : handle' = t /\ alive' = alive \cup {t}
                    /\ Go(p, "send")
               ELSE Go(p, "mark") /\ UNCHANGED <<handle, alive>>
       ELSE Go(p, "mark") /\ UNCHANGED <<handle, alive, device, attached, stopped>>
    /\ UNCHANGED <<print, line, started, buffer, call, overlap>>

Send(p) ==
    /\ at[p] = "send"
    /\ started' = TRUE
    /\ Go(p, "mark")
    /\ UNCHANGED <<print, handle, alive, line, device, attached, stopped,
                   buffer, call, overlap>>

\* corePrinter_start clears printFileComplete last; the call returns.
Mark(p) ==
    /\ at[p] = "mark"
    /\ complete' = (complete /\ call[p] = "stop")
    /\ Go(p, "out")
    /\ call' = [call EXCEPT ![p] = "none"]
    /\ UNCHANGED <<file, pos, jobs, reader, buffer, overlap>>

CallStep(p) == \/ Close(p) \/ Kill(p) \/ Reset(p) \/ Halt(p) \/ Rewind(p)
               \/ Open(p) \/ Finish(p) \/ Begin(p) \/ Send(p) \/ Mark(p)

-----------------------------------------------------------------------------
(* The user starts a print or stops (shell, display; no guard).            *)
OneOverlap == overlap => at["cp"] = "out" /\ complete

UserStart ==
    /\ at["hmi"] = "out" /\ jobs < MaxJob /\ OneOverlap
    /\ Enter("hmi", "start")
    /\ UNCHANGED <<print, reader, buffer>>

UserStop ==
    /\ at["hmi"] = "out" /\ OneOverlap
    /\ Enter("hmi", "stop")
    /\ UNCHANGED <<print, reader, buffer>>

(* CPThread looks every 10 ticks: pos / size is an integer division, so    *)
(* only a file read to its end, or one of size 0 (closed, missing), counts *)
(* as complete.                                                            *)
Poll ==
    /\ at["cp"] = "out" /\ ~complete
    /\ Go("cp", "polling")
    /\ UNCHANGED <<print, reader, buffer, call, overlap>>

MeasureClosed ==        \* the position in the file is not looked at
    /\ at["cp"] = "polling"
    /\ complete' = (file = 0)
    /\ Go("cp", IF complete' THEN "await" ELSE "out")
    /\ UNCHANGED <<file, pos, jobs, reader, buffer, call, overlap>>

Measure ==
    /\ at["cp"] = "polling"
    /\ complete' = (file = 0 \/ pos = Lines)
    /\ Go("cp", IF complete' THEN "await" ELSE "out")
    /\ UNCHANGED <<file, pos, jobs, reader, buffer, call, overlap>>

Await ==
    /\ at["cp"] = "await"
    /\ Go("cp", IF idle THEN "woken" ELSE "blocked")
    /\ UNCHANGED <<print, reader, buffer, call, overlap>>

AutoStop ==
    /\ at["cp"] = "woken"
    /\ Enter("cp", "stop")
    /\ UNCHANGED <<print, reader, buffer>>

-----------------------------------------------------------------------------
CP == Poll \/ Measure \/ Await \/ AutoStop
Next == \/ EndMotion \/ CP \/ UserStart \/ UserStop
        \/ \E t \in Thread : GetLine(t) \/ RunLine(t)
        \/ \E p \in Caller : CallStep(p)

(* Motions end (StepAxis), the scheduler runs every ready thread, a file   *)
(* delivers its lines.  Nobody need type at the console, start or stop.    *)
Fairness ==
    /\ WF_vars(EndMotion) /\ WF_vars(CP)
    /\ \A p \in Caller : WF_vars(CallStep(p))
    /\ \A t \in Thread : WF_vars(RunLine(t)) /\ WF_vars(device = 1 /\ GetLine(t))

Spec == Init /\ [][Next]_vars /\ Fairness

-----------------------------------------------------------------------------
(* Properties.                                                             *)

\* Every variable has its type.
TypeOK ==
    /\ file \in 0 .. MaxJob /\ pos \in 0 .. Lines /\ complete \in BOOLEAN
    /\ jobs \in 0 .. MaxJob
    /\ handle \in Thread \cup {NoThread} /\ alive \subseteq Thread
    /\ line \in [Thread -> {None, 0} \cup Job]
    /\ device \in {0, 1} /\ attached \in BOOLEAN
    /\ stopped \in BOOLEAN /\ started \in BOOLEAN
    /\ queue \in Seq({0} \cup Job) /\ Len(queue) <= Room
    /\ running \in {None, 0} \cup Job /\ idle \in BOOLEAN
    /\ at \in [Caller -> Place] /\ call \in [Caller -> {"none", "start", "stop"}]
    /\ overlap \in BOOLEAN

(* One G-code thread at most, known to g->thread; none from its deletion   *)
(* to the end of the stop, as stepBlock_forceStop asks of its callers      *)
(* ("the upper layer must guarantee that inputMotion is not blocked",      *)
(* libStepBlock.c:113) and as StepBlock assumes; unless calls overlap.     *)
Stopping(p) == at[p] \in {"reset", "halt", "delay", "open", "finish"}
SoleReader ==
    ~overlap => /\ alive \subseteq {handle}
                /\ \A p \in Caller : Stopping(p) => alive = {}

(* No motion of an earlier print, or of the console, is left over when a   *)
(* new print runs, nor of the print once it is stopped.                    *)
OwnMotionsOnly ==
    ~overlap /\ (\A p \in Caller : at[p] \notin InCall) =>
        /\ {queue[i] : i \in DOMAIN queue} \subseteq {file}
        /\ running \in {None, file}
        /\ \A t \in alive : line[t] \in {None, file}

(* What makes them inductive.  Whatever overlaps: a thread that is gone    *)
(* runs no line, CPThread starts no print, only a start opens a file, and  *)
(* a print to be opened has its number.                                    *)
Opened == {"begin", "send", "mark"}
Numbers ==
    /\ \A t \in Thread \ alive : line[t] = None
    /\ call["cp"] # "start"
    /\ \A p \in Caller : at[p] = "open" => call[p] = "start"
    /\ call["hmi"] = "start" => at["hmi"] \in Opened \/ jobs < MaxJob

(* Calls that do not overlap: while one has the thread deleted nobody      *)
(* reads, from its halt on the buffer is empty, a stop has closed the      *)
(* file; and all that is left or new belongs to the file.                  *)
Deleted(p) == Stopping(p) \/ at[p] = "begin"
Emptied(p) == at[p] \in {"delay", "open", "finish", "begin"}
Own ==
    /\ device = 0 => file = 0
    /\ \A i \in 1 .. Len(queue) : queue[i] = file
    /\ running \in {None, file}
    /\ \A t \in alive : line[t] \in {None, file}
Quiet(p) ==
    /\ Deleted(p) => alive = {} /\ handle = NoThread
    /\ Deleted(p) /\ at[p] # "reset" => stopped
    /\ Emptied(p) => queue = <<>> /\ running = None
    /\ (Deleted(p) \/ at[p] = "kill") /\ call[p] # "start" => file = 0
Calls ==
    ~overlap =>
        /\ at["hmi"] \notin InCall \/ at["cp"] \notin InCall
        /\ alive \subseteq {handle}
        /\ \A p \in Caller : Quiet(p)
        /\ (\A p \in Caller : at[p] \notin InCall \ {"send", "mark"}) => Own

IInv == TypeOK /\ Numbers /\ Calls

\* A print ends, and by itself: nobody need stop it, unless calls overlap.
PrintEnds ==
    \A j \in Job : (file = j /\ ~overlap) ~> (file # j \/ overlap)

(* Whatever overlaps, there is a thread to read the next line of G-code    *)
(* again and again: the printer does not lose its console for good.        *)
Served == []<>(alive # {} /\ started /\ attached)

(* "Block forever until get resource" (RT_WAITING_FOREVER, rtdef.h:510):   *)
(* CPThread, which waits for IDLE so, stops the print when it is idle.     *)
PrintRunsOut == [][at["cp"] = "woken" /\ at'["cp"] = "close" => idle]_vars
=============================================================================
