------------------------------ MODULE Planner -------------------------------
(***************************************************************************)
(* The look-ahead speed planner: stepPlanner_inputMotion                   *)
(* (libStepPlanner.c) plans a motion as if it were the last, planner_-     *)
(* recalculate (libPlanner.c) then goes over the motions waiting in the    *)
(* ring, backwards and forwards, and computes their speed profiles, while  *)
(* the interrupt takes motions from the same ring.                         *)
(*                                                                         *)
(* Speeds.  All the code does with a speed v is to compare it and to put   *)
(* v^2 + 2*a*d under a root.  Speeds are kept squared here, and a motion's *)
(* length d as its reach 2*a*d, so the arithmetic is exact on integers     *)
(* (points of a profile in halves).  Rates (steps/s) are speeds too: they  *)
(* are proportional within a motion.                                       *)
(*                                                                         *)
(* A pass reads tail once and handles one motion per step; the interrupt   *)
(* may come between any two.  Motions are numbered and kept, the ring is   *)
(* those from tail on.  The geometry of a junction (the speed each axis    *)
(* may jump) is a limit chosen freely.  Homing motions, executed at one    *)
(* rate and not planned, are left out, and so is the rounding of points to *)
(* steps.  The history raced is read by no guard.                          *)
(***************************************************************************)
EXTENDS Integers, Sequences

CONSTANTS Motion,       \* what is asked for: [nominal, reach, ends]
          Junction,     \* limits a junction may impose
          Floor,        \* the speed of 120 steps/s (libPlanner.c:81)
          Base, Spread, \* the slowest speed asked for; the most that one at
                        \* an end is above it
          Room,         \* MOTION_BUFFER_SIZE - 1
          MaxMotion     \* bound: motions planned in a behaviour

Slowest == 0            \* MINIMUM_PLANNER_SPEED

ASSUME MotionAssumption ==
    Motion \subseteq [nominal : Nat \ {0}, reach : Nat \ {0}, ends : Nat \ {0}]
ASSUME SpeedAssumption ==
    /\ {Base, Spread} \subseteq Nat
    /\ \A m \in Motion : /\ Base <= m.nominal /\ Base <= m.ends
                         /\ m.ends <= Base + Spread
ASSUME JunctionAssumption == Junction \subseteq Nat /\ Floor \in Nat
ASSUME BoundAssumption == Room \in Nat \ {0} /\ MaxMotion \in Nat

VARIABLES
    plan,               \* the motions planned, each with its speeds
    tail,               \* the next to be loaded
    engine,             \* the timer is on
    current,            \* currentLine, the motion being executed
    from,               \* the speed at which the one before it ended
    next,               \* the block of stepPlanner_inputMotion
    prevExit,           \* prevExitSpeed
    pc, k, low,         \* the thread: place, motion in turn, its copy of tail
    raced               \* history: a motion was loaded while being planned

vars == <<plan, tail, engine, current, from, next, prevExit, pc, k, low,
          raced>>

Least(a, b) == IF a < b THEN a ELSE b
Most(a, b) == IF a < b THEN b ELSE a
Waiting == Len(plan) - tail + 1

-----------------------------------------------------------------------------
(* calculate_trapezoid_for_block: up (accelBefore) and down (decelAfter)   *)
(* are points of the motion, in halves of the unit of reach.               *)
Profile(b, entry, exit) ==
    LET in == Most(entry, Floor)
        out == Most(exit, Floor)
        plateau == b.reach - (b.nominal - in) - (b.nominal - out)
        meet == Least(Most(b.reach - in + out, 0), 2 * b.reach)
    IN  [b EXCEPT !.in = in, !.out = out,
                  !.up = IF plateau < 0 THEN meet ELSE 2 * (b.nominal - in),
                  !.down = IF plateau < 0 THEN meet
                           ELSE 2 * (b.nominal - in + plateau)]

(* Where the interrupt arrives that follows a profile (stepBlock_ISR),     *)
(* before the last tick's MAX with exitRate; in halves, as the points are. *)
EndOf(b) ==
    LET top == IF b.up < b.down THEN 2 * b.nominal
               ELSE Least(2 * b.in + Most(b.up, 0), 2 * Most(b.nominal, b.in))
        braking == 2 * b.reach - b.down
    IN  IF braking > 0 THEN Most(top - braking, 2 * b.out) ELSE top

-----------------------------------------------------------------------------
Still == [nominal |-> 0, reach |-> 0, ends |-> 0, jerk |-> 0, entry |-> 0,
          flag |-> FALSE, redo |-> FALSE,
          in |-> 0, out |-> 0, up |-> 0, down |-> 0]

Init ==
    /\ plan = <<>> /\ tail = 1 /\ engine = FALSE
    /\ current = Still /\ from = 0
    /\ next = Still /\ prevExit = 0
    /\ pc = "plan" /\ k = 0 /\ low = 0
    /\ raced = FALSE

(* calcJerkSpeed, reading len.                                             *)
Jerk(m, junction) ==
    LET slower == Least(prevExit, m.nominal)
        speed == IF m.nominal <= m.ends \/ prevExit <= m.ends THEN slower
                 ELSE IF Waiting = 0 THEN Least(slower, m.ends)
                 ELSE Least(slower, junction)
    IN  Least(m.nominal, Most(m.ends, speed))

(* stepPlanner_inputMotion up to the call of stepBlock_inputMotion.        *)
Plan ==
    /\ pc = "plan" /\ Len(plan) < MaxMotion
    /\ \E m \in Motion, j \in Junction :
         LET jerk == Jerk(m, j)
             exit == Least(jerk + m.reach, m.nominal)
             ready == m.ends + m.reach
             entry == Least(jerk, ready)
             b == [Still EXCEPT !.nominal = m.nominal, !.reach = m.reach,
                     !.ends = m.ends, !.jerk = jerk, !.entry = entry,
                     !.flag = (exit = m.nominal /\ m.nominal <= ready),
                     !.redo = TRUE]
         IN  /\ next' = Profile(b, entry, Least(m.ends, m.nominal))
             /\ prevExit' = exit
    /\ pc' = "put"
    /\ raced' = (raced /\ (engine \/ Waiting > 0))
    /\ UNCHANGED <<plan, tail, engine, current, from, k, low>>

(* stepBlock_inputMotion: the slot, then the passes.                       *)
Put ==
    /\ pc = "put" /\ Waiting < Room
    /\ plan' = Append(plan, next)
    /\ pc' = "reverse" /\ k' = Len(plan) /\ low' = tail
    /\ UNCHANGED <<tail, engine, current, from, next, prevExit, raced>>

Keep == UNCHANGED <<tail, engine, current, from, next, prevExit, raced>>

\* Mutants, here and below, stand before the definition they replace.
ReverseHighest ==       \* the motion after is not looked at
    /\ pc = "reverse"
    /\ IF k > low /\ Len(plan) - low >= 2
       THEN /\ LET b == plan[k]
               IN  plan' = [plan EXCEPT ![k] =
                     IF b.entry # b.jerk
                     THEN [b EXCEPT !.entry = b.jerk, !.redo = TRUE]
                     ELSE [b EXCEPT !.flag = TRUE]]
            /\ k' = k - 1
            /\ UNCHANGED <<pc, low>>
       ELSE /\ pc' = "forward" /\ k' = tail /\ low' = tail
            /\ UNCHANGED plan
    /\ Keep

(* planner_reverse_pass: the last motion and the one at tail are not       *)
(* looked at.                                                              *)
Reverse ==
    /\ pc = "reverse"
    /\ IF k > low /\ Len(plan) - low >= 2
       THEN /\ LET b == plan[k]
                   fits == IF ~b.flag /\ b.jerk > plan[k + 1].entry
                           THEN Least(b.jerk, plan[k + 1].entry + b.reach)
                           ELSE b.jerk
               IN  plan' = [plan EXCEPT ![k] =
                     IF b.entry # b.jerk
                     THEN [b EXCEPT !.entry = fits, !.redo = TRUE]
                     ELSE [b EXCEPT !.flag = TRUE]]
            /\ k' = k - 1
            /\ UNCHANGED <<pc, low>>
       ELSE /\ pc' = "forward" /\ k' = tail /\ low' = tail
            /\ UNCHANGED plan
    /\ Keep

ForwardFlags ==         \* nominal_length_flag taken the wrong way round
    /\ pc = "forward"
    /\ IF k < Len(plan)
       THEN /\ LET b == plan[k]
                   entry == Least(plan[k + 1].entry, b.entry + b.reach)
               IN  plan' = IF b.flag /\ plan[k + 1].entry # entry
                           THEN [plan EXCEPT ![k + 1].entry = entry,
                                             ![k + 1].redo = TRUE]
                           ELSE plan
            /\ k' = k + 1
            /\ UNCHANGED <<pc, low>>
       ELSE /\ pc' = "profile" /\ k' = tail /\ low' = tail
            /\ UNCHANGED plan
    /\ Keep

(* planner_forward_pass.                                                   *)
Forward ==
    /\ pc = "forward"
    /\ IF k < Len(plan)
       THEN /\ LET b == plan[k]
                   entry == Least(plan[k + 1].entry, b.entry + b.reach)
               IN  plan' = IF ~b.flag /\ plan[k + 1].entry # entry
                           THEN [plan EXCEPT ![k + 1].entry = entry,
                                             ![k + 1].redo = TRUE]
                           ELSE plan
            /\ k' = k + 1
            /\ UNCHANGED <<pc, low>>
       ELSE /\ pc' = "profile" /\ k' = tail /\ low' = tail
            /\ UNCHANGED plan
    /\ Keep

(* planner_recalculate_trapezoids.                                         *)
Trapezoids ==
    /\ pc = "profile"
    /\ IF k <= Len(plan)
       THEN /\ plan' = IF k = Len(plan)
                       THEN [plan EXCEPT ![k] = [Profile(@, @.entry, Slowest)
                                                   EXCEPT !.redo = FALSE]]
                       ELSE IF plan[k].redo \/ plan[k + 1].redo
                       THEN [plan EXCEPT ![k] =
                               [Profile(@, @.entry, plan[k + 1].entry)
                                  EXCEPT !.redo = FALSE]]
                       ELSE plan
            /\ k' = k + 1
            /\ UNCHANGED <<pc, low>>
       ELSE /\ pc' = "hand"
            /\ UNCHANGED <<plan, k, low>>
    /\ Keep

-----------------------------------------------------------------------------
(* loadNextMotion copies the motion; it starts where the last one ended.   *)
LoadTail ==
    /\ current' = plan[tail]
    /\ from' = IF engine THEN EndOf(current) ELSE 0
    /\ tail' = tail + 1

(* The thread starts an idle engine.                                       *)
HandOff ==
    /\ pc = "hand"
    /\ pc' = "plan" /\ k' = 0 /\ low' = 0
    /\ IF ~engine /\ Waiting > 0
       THEN LoadTail /\ engine' = TRUE
       ELSE UNCHANGED <<tail, engine, current, from>>
    /\ UNCHANGED <<plan, next, prevExit, raced>>

(* The interrupt at the end of a motion.                                   *)
ISRLoad ==
    /\ engine /\ Waiting > 0
    /\ LoadTail
    /\ raced' = (raced \/ pc \in {"reverse", "forward", "profile"}
                       \/ (pc = "put" /\ Waiting = 1))
    /\ UNCHANGED <<plan, engine, next, prevExit, pc, k, low>>

ISRDrain ==
    /\ engine /\ Waiting = 0
    /\ engine' = FALSE
    /\ UNCHANGED <<plan, tail, current, from, next, prevExit, pc, k, low,
                   raced>>

Done == pc = "plan" /\ Len(plan) = MaxMotion /\ ~engine /\ UNCHANGED vars
Next == Plan \/ Put \/ Reverse \/ Forward \/ Trapezoids \/ HandOff
        \/ ISRLoad \/ ISRDrain \/ Done
Spec == Init /\ [][Next]_vars

-----------------------------------------------------------------------------
(* Properties.                                                             *)

(* Every variable has its type, and a pass stays within the motions there *)
(* are.                                                                    *)
Motions == [nominal : Nat, reach : Nat, ends : Nat, jerk : Nat, entry : Nat,
            flag : BOOLEAN, redo : BOOLEAN,
            in : Nat, out : Nat, up : Int, down : Int]
TypeOK ==
    /\ plan \in Seq(Motions) /\ current \in Motions /\ next \in Motions
    /\ tail \in 1 .. Len(plan) + 1 /\ Waiting <= Room
    /\ from \in Nat /\ prevExit \in Nat
    /\ engine \in BOOLEAN /\ raced \in BOOLEAN
    /\ pc \in {"plan", "put", "reverse", "forward", "profile", "hand"}
    /\ k \in Nat /\ low \in Nat
    /\ pc = "reverse" => low > 0 /\ k < Len(plan)
    /\ pc \in {"forward", "profile"} => k > 0

(* Speeds with which a motion may begin or end at once.                    *)
Slow(b) == Most(b.ends, Floor)

(* c begins after b has arrived at v (in halves): at the same speed, but   *)
(* for Spread, or both speeds are slow for one of the two.                 *)
Smooth(v, b, c) ==
    LET slow == Most(Slow(b), Slow(c))
    IN  \/ v <= 2 * (c.in + Spread) /\ 2 * c.in <= v + 2 * Spread
        \/ v <= 2 * slow /\ c.in <= slow

(* What the motors are made to do, motion after motion: the speed does not *)
(* jump (libPlanner.c:262-264), the engine starts with a slow speed and    *)
(* never runs dry at a fast one.  The last holds whatever the interrupt    *)
(* does; the others unless it took a motion while it was planned.          *)
SpeedJoins ==
    engine =>
    /\ \/ raced
       \/ from = 0 /\ current.in <= Slow(current)
       \/ from > 0 /\ Smooth(from, plan[tail - 2], current)
    /\ Waiting = 0 => EndOf(current) <= 2 * Slow(current)

(* After a recalculation the plan can be executed as it is: no motion      *)
(* begins faster than its junction allows, and each one reaches, with the  *)
(* one acceleration, the speed at which the next begins                    *)
(* (libPlanner.c:253-260), unless the interrupt took one while it was made.*)
PlanFeasible ==
    pc = "plan" /\ ~raced => \A i \in tail .. Len(plan) :
        /\ plan[i].entry <= plan[i].jerk
        /\ i < Len(plan) => Smooth(EndOf(plan[i]), plan[i], plan[i + 1])
=============================================================================
