------------------------------- MODULE Heater -------------------------------
(***************************************************************************)
(* The target temperature of the extruder: app/app_subboard.c, which keeps *)
(* it behind a lock and sends it to the sub-board, and everybody who sets  *)
(* it: the temperature buttons and the filament dialog of the display      *)
(* (screen_config_sub.c, screen_dialog.c), corePrinter_start and _stop as  *)
(* called by the display and by CPThread, and M104 and M109 of the G-code  *)
(* thread.                                                                 *)
(*                                                                         *)
(* Interleaving.  Nobody takes slock as a lock: setTemper tests it and     *)
(* stores, and the display opens and closes it around its own store.  Each *)
(* access to what is shared is an action.  Test and store of the display   *)
(* are one: only the display changes slock.                                *)
(*                                                                         *)
(* The sub-board is external: it heats towards the target last sent and    *)
(* reports what it reads.  The histories asked, touched, chosen and        *)
(* slipped are read by no guard.                                           *)
(***************************************************************************)
EXTENDS Integers

CONSTANTS Code,         \* the targets of M104 and M109 (their S)
          User,         \* the targets the display's +1, -10, ... lead to
          Reading,      \* what the sub-board may report
          Default,      \* DEFAULT_TEMP
          MaxPress      \* bound: buttons pressed in a behaviour

Feed == 220             \* screen_dialog.c:113
Cool == 20              \* screen_dialog.c:173
Target == {0, Cool, Feed, Default} \cup Code \cup User

ASSUME TargetAssumption ==
    /\ Code \subseteq Nat /\ User \subseteq Nat /\ Default \in Nat
    /\ Reading \subseteq Int /\ 0 \in Reading /\ MaxPress \in Nat
\* The control loop comes within one degree of every target.
ASSUME ReadingAssumption ==
    \A t \in Target : \E r \in Reading : r \in t - 1 .. t + 1

VARIABLES
    temper,             \* temper, last reported
    temperDst,          \* temperDst
    slock,              \* slock: the target is locked
    sent,               \* external: the target the sub-board has
    manual,             \* gTemperLocker: the display says "manual"
    dialog,             \* the filament dialog is on the screen
    device,             \* currentDevice: 0 console, 1 a print
    stopped,            \* GCODE_EVENT_STOPPED
    alive, line, want,  \* the G-code thread, its line and the S of it
    at, job, arg,       \* display and CPThread: place, call, target to set
    presses,            \* buttons pressed so far
    asked,              \* history: a target was asked for since the stop
    touched,            \* history: others were at it since the M109
    chosen, slipped     \* history: the display's target; another overwrote it

board == <<temper, sent>>
display == <<manual, dialog, presses>>
reader == <<device, stopped, alive, line, want>>
calls == <<at, job, arg>>
history == <<asked, touched, chosen, slipped>>
vars == <<board, temperDst, slock, display, reader, calls, history>>

Caller == {"hmi", "cp"}
Place == {"rest", "set", "lock", "kill", "off", "zero", "begin"}
Job == {"none", "on", "off", "modify", "filament", "stop", "cancel", "start"}
Line == {"none", "store104", "store109", "wait"}

Init ==
    /\ temper = 0 /\ temperDst = 0 /\ slock = FALSE /\ sent = 0
    /\ manual = FALSE /\ dialog = FALSE /\ presses = 0
    /\ device = 0 /\ stopped = FALSE
    /\ alive = TRUE /\ line = "none" /\ want = 0
    /\ at = [p \in Caller |-> "rest"] /\ job = [p \in Caller |-> "none"]
    /\ arg = 0
    /\ asked = FALSE /\ touched = FALSE /\ chosen = 0 /\ slipped = FALSE

Go(p, place) == at' = [at EXCEPT ![p] = place]
Call(p, j, place) == Go(p, place) /\ job' = [job EXCEPT ![p] = j]

-----------------------------------------------------------------------------
(* The sub-board and its thread.                                           *)
Report ==
    /\ \E r \in Reading :
         /\ \/ r \in sent - 1 .. sent + 1
            \/ temper < r /\ r <= sent
            \/ sent <= r /\ r < temper
         /\ temper' = r
    /\ UNCHANGED <<temperDst, slock, sent, display, reader, calls, history>>

SendData ==
    /\ sent' = temperDst
    /\ UNCHANGED <<temper, temperDst, slock, display, reader, calls, history>>

-----------------------------------------------------------------------------
(* Stores made by others than the display.                                 *)
Store(t) ==
    /\ temperDst' = t
    /\ slipped' = (slipped \/ slock \/ at["hmi"] = "lock")
    /\ UNCHANGED <<slock, chosen>>

(* The G-code thread: M104 and M109 test the lock, store, and M109 waits.  *)
After(code) == IF code = "store109" THEN "wait" ELSE "none"
Run(code, s) ==
    /\ alive /\ line = "none"
    /\ line' = IF slock THEN After(code) ELSE code
    /\ want' = s
    /\ asked' = TRUE
    /\ touched' = (slock \/ at # [p \in Caller |-> "rest"])
    /\ UNCHANGED <<board, temperDst, slock, display, device, stopped, alive,
                   calls, chosen, slipped>>

\* M109 without S waits for the target there is.
WaitOnly ==
    /\ alive /\ line = "none"
    /\ line' = "wait" /\ want' = temperDst
    /\ touched' = (at # [p \in Caller |-> "rest"])
    /\ UNCHANGED <<board, temperDst, slock, display, device, stopped, alive,
                   calls, asked, chosen, slipped>>

StoreCode ==
    /\ line \in {"store104", "store109"}
    /\ Store(want)
    /\ line' = After(line)
    /\ UNCHANGED <<board, display, device, stopped, alive, want, calls,
                   asked, touched>>

\* Mutants, here and below, stand before the definition they replace.
ReachedStrict == temper > temperDst         \* without the margin of 2

Reached == temper + 2 > temperDst

WaitReturns ==
    /\ line = "wait" /\ Reached
    /\ line' = "none"
    /\ UNCHANGED <<board, temperDst, slock, display, device, stopped, alive,
                   want, calls, history>>

-----------------------------------------------------------------------------
(* The buttons (thread hmi).                                               *)
Press(j, place) ==
    /\ at["hmi"] = "rest" /\ presses < MaxPress
    /\ presses' = presses + 1
    /\ Call("hmi", j, place)
    /\ touched' = TRUE /\ chosen' = temperDst /\ slipped' = FALSE
    /\ UNCHANGED <<board, temperDst, reader>>

\* The lock is opened: what becomes of the target is now the user's affair.
Open == slock' = FALSE /\ asked' = TRUE

\* temperLocker, one way and ...
LockerOn ==
    /\ ~dialog /\ ~manual
    /\ Press("on", IF device = 0 THEN "set" ELSE "lock")
    /\ manual' = TRUE /\ arg' = Default
    /\ UNCHANGED <<slock, dialog, asked>>

\* ... the other.
LockerOff ==
    /\ ~dialog /\ manual
    /\ Press("off", IF device = 0 THEN "set" ELSE "rest")
    /\ manual' = FALSE /\ arg' = 0 /\ Open
    /\ UNCHANGED dialog

ModifyUnlocked(t) ==    \* the lock is not closed again
    /\ ~dialog /\ manual
    /\ Press("off", "set")
    /\ arg' = t /\ Open
    /\ UNCHANGED <<manual, dialog>>

\* temperModify.
Modify(t) ==
    /\ ~dialog /\ manual
    /\ Press("modify", "set")
    /\ arg' = t /\ Open
    /\ UNCHANGED <<manual, dialog>>

\* switch_dialog, cases 2 and 3.
Filament ==
    /\ ~dialog
    /\ Press("filament", "set")
    /\ dialog' = TRUE /\ arg' = Feed /\ Open
    /\ UNCHANGED manual

\* button_filamentCancel, button_stopOk, button_printOk.
UserCall(j) ==
    /\ dialog = (j = "cancel")
    /\ Press(j, "kill")
    /\ dialog' = FALSE
    /\ UNCHANGED <<slock, manual, arg, asked>>

-----------------------------------------------------------------------------
(* The steps of the display's stores.                                      *)
Set ==
    /\ at["hmi"] = "set"
    /\ Go("hmi", IF job["hmi"] \in {"off", "cancel"} THEN "rest" ELSE "lock")
    /\ IF slock
       THEN UNCHANGED <<temperDst, asked, chosen, slipped>>
       ELSE /\ temperDst' = arg /\ chosen' = arg
            /\ asked' = TRUE /\ slipped' = FALSE
    /\ UNCHANGED <<board, slock, display, reader, job, arg, touched>>

Lock ==
    /\ at["hmi"] = "lock"
    /\ slock' = TRUE
    /\ Go("hmi", "rest")
    /\ UNCHANGED <<board, temperDst, display, reader, job, arg, history>>

-----------------------------------------------------------------------------
(* corePrinter_start and corePrinter_stop by caller p; CPThread stops a    *)
(* print that has come to its end.  PrintJob has their steps in full; here *)
(* the G-code thread is one, deleted by Kill and created by Begin.         *)
AutoStopOff ==          \* the heater is turned off, the print goes on
    /\ at["cp"] = "rest" /\ device = 1
    /\ Call("cp", "stop", "off")
    /\ UNCHANGED <<board, temperDst, slock, display, reader, arg, history>>

AutoStop ==
    /\ at["cp"] = "rest" /\ device = 1
    /\ Call("cp", "stop", "kill")
    /\ UNCHANGED <<board, temperDst, slock, display, reader, arg, history>>

KillSpares(p) ==        \* the thread is not deleted
    /\ at[p] = "kill"
    /\ stopped' = TRUE
    /\ asked' = (asked /\ job[p] = "start")
    /\ Go(p, IF job[p] = "start" THEN "begin" ELSE "off")
    /\ UNCHANGED <<board, temperDst, slock, display, device, alive, line, want,
                   job, arg, touched, chosen, slipped>>

Kill(p) ==
    /\ at[p] = "kill"
    /\ alive' = FALSE /\ line' = "none" /\ stopped' = TRUE
    /\ asked' = (asked /\ job[p] = "start")
    /\ Go(p, IF job[p] = "start" THEN "begin" ELSE "off")
    /\ UNCHANGED <<board, temperDst, slock, display, device, want, job, arg,
                   touched, chosen, slipped>>

\* setTemper(0): the test of the lock ...
Off(p) ==
    /\ at[p] = "off"
    /\ Go(p, IF slock THEN "begin" ELSE "zero")
    /\ UNCHANGED <<board, temperDst, slock, display, reader, job, arg,
                   history>>

\* ... and the store.
Zero(p) ==
    /\ at[p] = "zero"
    /\ Store(0)
    /\ Go(p, "begin")
    /\ UNCHANGED <<board, display, reader, job, arg, asked, touched>>

\* stepGCode_start, then setTemper(20) when the dialog was cancelled.
Begin(p) ==
    /\ at[p] = "begin"
    /\ IF stopped
       THEN /\ stopped' = FALSE /\ alive' = TRUE
            /\ device' = IF job[p] = "start" THEN 1 ELSE 0
       ELSE UNCHANGED <<stopped, alive, device>>
    /\ IF job[p] = "cancel"
       THEN Go(p, "set") /\ arg' = Cool
       ELSE Go(p, "rest") /\ UNCHANGED arg
    /\ UNCHANGED <<board, temperDst, slock, display, line, want, job, history>>

-----------------------------------------------------------------------------
CallStep(p) == Kill(p) \/ Off(p) \/ Zero(p) \/ Begin(p)
HmiStep == Set \/ Lock \/ CallStep("hmi")
Button == \/ LockerOn \/ LockerOff \/ Filament
          \/ \E t \in User : Modify(t)
          \/ \E j \in {"start", "stop", "cancel"} : UserCall(j)
GCode == \/ WaitOnly \/ StoreCode \/ WaitReturns
         \/ \E code \in {"store104", "store109"}, s \in Code : Run(code, s)
Next == Report \/ SendData \/ GCode \/ Button \/ HmiStep
        \/ AutoStop \/ CallStep("cp")

(* The sub-board reports and is sent the target again and again; threads   *)
(* that are ready run.  Nobody need press a button or send a line.         *)
Fairness ==
    /\ WF_vars(Report) /\ WF_vars(SendData)
    /\ WF_vars(StoreCode) /\ WF_vars(WaitReturns)
    /\ WF_vars(HmiStep) /\ WF_vars(CallStep("cp"))

Spec == Init /\ [][Next]_vars /\ Fairness

-----------------------------------------------------------------------------
(* Properties.                                                             *)

\* Every variable has its type.
TypeOK ==
    /\ temper \in Reading /\ temperDst \in Target /\ sent \in Target
    /\ slock \in BOOLEAN /\ manual \in BOOLEAN /\ dialog \in BOOLEAN
    /\ presses \in 0 .. MaxPress
    /\ device \in {0, 1} /\ stopped \in BOOLEAN
    /\ alive \in BOOLEAN /\ line \in Line /\ want \in Target
    /\ at \in [Caller -> Place] /\ job \in [Caller -> Job] /\ arg \in Target
    /\ asked \in BOOLEAN /\ touched \in BOOLEAN
    /\ chosen \in Target /\ slipped \in BOOLEAN

AtRest == at = [p \in Caller |-> "rest"]

(* After corePrinter_stop the heater is off (corePrinter.c:45): no target  *)
(* of the stopped print, however late its thread stores it, outlives the   *)
(* stop, unless the display holds the lock or somebody asked again.        *)
OffAfterStop == AtRest /\ ~asked => temperDst = 0 \/ slock

(* M109 waits for the target it set (libStepGCodeProcessor.c:207-216):     *)
(* neither a stop in progress nor its aftermath gives it another one,      *)
(* unless a button was pressed or the print was started inside the stop.   *)
HeldTarget == line = "wait" /\ ~touched => temperDst = want

(* In manual mode the target is locked at what the display set, whatever   *)
(* prints, stops and dialogs did, unless a store tested the lock before it *)
(* was closed and was made after the display's.                            *)
ManualIsUsers ==
    at["hmi"] = "rest" /\ manual => slock /\ (temperDst = chosen \/ slipped)

(* What makes them inductive.  A target nobody asks for any more is on its *)
(* way to 0; no store of another is under way around an undisturbed M109;  *)
(* in manual mode the lock is closed or about to be.                       *)
OnTheWayOff ==
    ~asked =>
        /\ line \in {"none", "wait"}
        /\ \/ temperDst = 0 \/ slock
           \/ \E p \in Caller : at[p] \in {"off", "zero"}

Undisturbed ==
    ~touched /\ line # "none" =>
        /\ at["hmi"] = "rest" /\ at["cp"] \in {"rest", "kill"}
        /\ line = "wait" => temperDst = want

Locking ==
    manual =>
        /\ slock \/ at["hmi"] = "lock" => temperDst = chosen \/ slipped
        /\ \/ slock \/ at["hmi"] = "lock"
           \/ at["hmi"] = "set" /\ job["hmi"] \notin {"off", "cancel"}

IInv == TypeOK /\ OnTheWayOff /\ Undisturbed /\ Locking

(* M109 ends: the target it waits for is that of the moment, and the       *)
(* sub-board comes close enough to any target for the margin of the test.  *)
WaitEnds == line = "wait" ~> line = "none"
=============================================================================
