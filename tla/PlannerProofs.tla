---------------------------- MODULE PlannerProofs ----------------------------
(***************************************************************************)
(* The planner for every set of motions and junctions, floor, size of ring *)
(* and number of motions.                                                  *)
(***************************************************************************)
EXTENDS Planner, TLAPS

-----------------------------------------------------------------------------
(* A profile and where it ends.                                            *)

LEMMA Constants ==
  /\ Floor \in Nat /\ Base \in Nat /\ Spread \in Nat
  /\ Room \in Nat /\ Room > 0 /\ MaxMotion \in Nat
  /\ \A m \in Motion :
       /\ m.nominal \in Nat /\ m.nominal > 0 /\ m.reach \in Nat /\ m.reach > 0
       /\ m.ends \in Nat /\ Base <= m.nominal /\ Base <= m.ends
       /\ m.ends <= Base + Spread
  /\ \A j \in Junction : j \in Nat
  BY MotionAssumption, SpeedAssumption, JunctionAssumption, BoundAssumption

(* b has the profile calculate_trapezoid_for_block gives it between the    *)
(* speeds x and y.                                                         *)
Shaped(b, x, y) ==
    LET p == Profile(b, x, y)
    IN  b.in = p.in /\ b.out = p.out /\ b.up = p.up /\ b.down = p.down

Fixed(b, c) == /\ b.nominal = c.nominal /\ b.reach = c.reach /\ b.ends = c.ends
               /\ b.jerk = c.jerk

LEMMA ProfileIs ==
  ASSUME NEW b \in Motions, NEW x, NEW y
  PROVE  LET in == Most(x, Floor)
             out == Most(y, Floor)
             plateau == b.reach - (b.nominal - in) - (b.nominal - out)
             meet == Least(Most(b.reach - in + out, 0), 2 * b.reach)
             p == Profile(b, x, y)
         IN  /\ p.in = in /\ p.out = out
             /\ p.up = IF plateau < 0 THEN meet ELSE 2 * (b.nominal - in)
             /\ p.down = IF plateau < 0 THEN meet
                         ELSE 2 * (b.nominal - in + plateau)
  BY DEF Profile, Motions

LEMMA ProfileFields ==
  ASSUME NEW b \in Motions, NEW x \in Nat, NEW y \in Nat
  PROVE  LET p == Profile(b, x, y)
         IN  /\ p \in Motions /\ Shaped(p, x, y) /\ Fixed(p, b)
             /\ p.entry = b.entry /\ p.flag = b.flag /\ p.redo = b.redo
             /\ p.in = Most(x, Floor)
<1> DEFINE p == Profile(b, x, y)
<1>1. \E i \in Nat, o \in Nat, u \in Int, d \in Int :
        /\ p = [b EXCEPT !.in = i, !.out = o, !.up = u, !.down = d]
        /\ i = Most(x, Floor)
  <2> DEFINE in == Most(x, Floor)
             out == Most(y, Floor)
             plateau == b.reach - (b.nominal - in) - (b.nominal - out)
             meet == Least(Most(b.reach - in + out, 0), 2 * b.reach)
             up == IF plateau < 0 THEN meet ELSE 2 * (b.nominal - in)
             down == IF plateau < 0 THEN meet
                     ELSE 2 * (b.nominal - in + plateau)
  <2>1. in \in Nat /\ out \in Nat /\ b.nominal \in Nat /\ b.reach \in Nat
    BY Constants DEF Motions, Most
  <2>2. plateau \in Int /\ meet \in Int
    BY <2>1 DEF Most, Least
  <2>3. up \in Int /\ down \in Int
    BY <2>1, <2>2
  <2>4. p = [b EXCEPT !.in = in, !.out = out, !.up = up, !.down = down]
    BY DEF Profile
  <2> HIDE DEF in, out, up, down, p
  <2>5. in = Most(x, Floor)
    BY DEF in
  <2> QED
    BY <2>1, <2>3, <2>4, <2>5
<1> HIDE DEF p
<1>2. PICK i \in Nat, o \in Nat, u \in Int, d \in Int :
        /\ p = [b EXCEPT !.in = i, !.out = o, !.up = u, !.down = d]
        /\ i = Most(x, Floor)
  BY <1>1
<1>3. p \in Motions
  BY <1>2 DEF Motions
<1>4. /\ p.nominal = b.nominal /\ p.reach = b.reach /\ p.ends = b.ends
      /\ p.jerk = b.jerk
      /\ p.entry = b.entry /\ p.flag = b.flag /\ p.redo = b.redo
      /\ p.in = Most(x, Floor)
  BY <1>2 DEF Motions
<1>5. Shaped(p, x, y)
  <2>1. /\ p.in = Profile(b, x, y).in /\ p.out = Profile(b, x, y).out
        /\ p.up = Profile(b, x, y).up /\ p.down = Profile(b, x, y).down
    BY DEF p
  <2> QED
    BY <1>3, <1>4, <2>1, ProfileIs DEF Shaped
<1> QED
  BY <1>3, <1>4, <1>5 DEF Fixed, p

LEMMA ShapedBy ==
  ASSUME NEW b \in Motions, NEW x \in Nat, NEW y \in Nat, Shaped(b, x, y)
  PROVE  LET in == Most(x, Floor)
             out == Most(y, Floor)
             plateau == b.reach - (b.nominal - in) - (b.nominal - out)
             meet == Least(Most(b.reach - in + out, 0), 2 * b.reach)
         IN  /\ b.in = in /\ b.out = out
             /\ plateau < 0 => b.up = meet /\ b.down = meet
             /\ plateau >= 0 => /\ b.up = 2 * (b.nominal - in)
                                /\ b.down = 2 * (b.nominal - in + plateau)
  BY Constants DEF Profile, Motions, Shaped, Most, Least

LEMMA EndOfNat == ASSUME NEW b \in Motions  PROVE EndOf(b) \in Nat
  BY DEF Motions, EndOf, Most, Least

(* Where the interrupt ends, on the numbers of a profile.                  *)
EndAt(N, R, in, out, up, down) ==
    LET top == IF up < down THEN 2 * N
               ELSE Least(2 * in + Most(up, 0), 2 * Most(N, in))
        braking == 2 * R - down
    IN  IF braking > 0 THEN Most(top - braking, 2 * out) ELSE top

LEMMA EndPlateau ==
  ASSUME NEW N \in Nat, NEW R \in Nat, NEW in \in Nat, NEW out \in Nat,
         NEW up \in Int, NEW down \in Int,
         N > 0, R > 0, R - (N - in) - (N - out) >= 0,
         up = 2 * (N - in),
         down = 2 * (N - in + (R - (N - in) - (N - out)))
  PROVE  LET end == EndAt(N, R, in, out, up, down)
         IN  /\ in <= N /\ out <= N => end = 2 * out
             /\ out > N => 0 < end /\ end <= 2 * Most(N, in)
<1>1. down = 2 * (R - N + out)
  OBVIOUS
<1>2. CASE in <= N /\ out <= N
  <2>1. (IF up < down THEN 2 * N
         ELSE Least(2 * in + Most(up, 0), 2 * Most(N, in))) = 2 * N
    BY <1>2 DEF Least, Most
  <2>2. 2 * R - down = 2 * N - 2 * out
    BY <1>1
  <2>3. EndAt(N, R, in, out, up, down) = 2 * out
    BY <1>2, <2>1, <2>2 DEF EndAt, Most
  <2> QED
    BY <1>2, <2>3
<1>3. CASE out > N
  <2>1. LET top == IF up < down THEN 2 * N
                   ELSE Least(2 * in + Most(up, 0), 2 * Most(N, in))
        IN  0 < top /\ top <= 2 * Most(N, in)
    BY DEF Least, Most
  <2>2. ~(2 * R - down > 0)
    BY <1>1, <1>3
  <2>3. LET end == EndAt(N, R, in, out, up, down)
        IN  0 < end /\ end <= 2 * Most(N, in)
    BY <1>3, <2>1, <2>2 DEF EndAt
  <2> QED
    BY <1>3, <2>3
<1> QED
  BY <1>2, <1>3

LEMMA EndPeak ==
  ASSUME NEW N \in Nat, NEW R \in Nat, NEW in \in Nat, NEW out \in Nat,
         NEW up \in Int, NEW down \in Int,
         N > 0, R > 0, R - (N - in) - (N - out) < 0,
         up = Least(Most(R - in + out, 0), 2 * R), down = up
  PROVE  LET end == EndAt(N, R, in, out, up, down)
         IN  \/ end = 2 * out
             \/ out + R < in /\ end = 2 * (in - R)
             \/ in + R <= out /\ end = 2 * (in + R)
<1>1. CASE R - in + out < 0
  <2>1. up = 0 /\ down = 0
    BY <1>1 DEF Least, Most
  <2> QED
    BY <1>1, <2>1 DEF EndAt, Least, Most
<1>2. CASE 0 <= R - in + out /\ R - in + out < 2 * R
  <2>1. up = R - in + out /\ down = R - in + out
    BY <1>2 DEF Least, Most
  <2>2. Least(2 * in + Most(up, 0), 2 * Most(N, in)) = R + in + out
    BY <1>2, <2>1 DEF Least, Most
  <2>3. EndAt(N, R, in, out, up, down) = 2 * out
    BY <1>2, <2>1, <2>2 DEF EndAt, Most
  <2> QED
    BY <2>3
<1>3. CASE 2 * R <= R - in + out
  <2>1. up = 2 * R /\ down = 2 * R
    BY <1>3 DEF Least, Most
  <2>2. Least(2 * in + Most(up, 0), 2 * Most(N, in)) = 2 * in + 2 * R
    BY <1>3, <2>1 DEF Least, Most
  <2>3. EndAt(N, R, in, out, up, down) = 2 * in + 2 * R
    BY <2>1, <2>2 DEF EndAt
  <2> QED
    BY <1>3, <2>3
<1> QED
  BY <1>1, <1>2, <1>3

(* Where a profile ends, by the way the plateau falls out.                 *)
LEMMA EndCases ==
  ASSUME NEW b \in Motions, NEW x \in Nat, NEW y \in Nat, Shaped(b, x, y),
         0 < b.nominal, 0 < b.reach, x <= b.nominal
  PROVE  LET in == Most(x, Floor)
             out == Most(y, Floor)
         IN  \/ EndOf(b) = 2 * out
             \/ /\ out > b.nominal /\ 0 < EndOf(b)
                /\ EndOf(b) <= 2 * Most(b.nominal, in)
             \/ out + b.reach < in /\ EndOf(b) = 2 * (in - b.reach)
             \/ in + b.reach <= out /\ EndOf(b) = 2 * (in + b.reach)
<1> DEFINE in == Most(x, Floor)
           out == Most(y, Floor)
           N == b.nominal
           R == b.reach
           plateau == R - (N - in) - (N - out)
           meet == Least(Most(R - in + out, 0), 2 * R)
<1>1. /\ in \in Nat /\ out \in Nat /\ N \in Nat /\ R \in Nat
      /\ N > 0 /\ R > 0
  BY Constants DEF Motions, Most
<1>2. /\ b.in = in /\ b.out = out
      /\ plateau < 0 => b.up = meet /\ b.down = meet
      /\ plateau >= 0 => /\ b.up = 2 * (N - in)
                         /\ b.down = 2 * (N - in + plateau)
  BY ShapedBy
<1>3. out <= N => in <= N
  BY Constants DEF Motions, Most
<1>4. EndOf(b) = EndAt(N, R, in, out, b.up, b.down)
  BY <1>2 DEF EndOf, EndAt
<1> HIDE DEF in, out, N, R
<1> DEFINE end == EndOf(b)
<1> SUFFICES \/ end = 2 * out
             \/ out > N /\ 0 < end /\ end <= 2 * Most(N, in)
             \/ out + R < in /\ end = 2 * (in - R)
             \/ in + R <= out /\ end = 2 * (in + R)
  BY DEF in, out, N, R
<1>5. CASE plateau >= 0
  <2>1. end = EndAt(N, R, in, out, b.up, b.down) /\ b.up \in Int
        /\ b.down \in Int
    BY <1>4 DEF Motions
  <2>2. /\ b.up = 2 * (N - in)
        /\ b.down = 2 * (N - in + (R - (N - in) - (N - out)))
    BY <1>2, <1>5
  <2>3. R - (N - in) - (N - out) >= 0
    BY <1>5
  <2> HIDE DEF end, plateau, meet
  <2>4. LET at == EndAt(N, R, in, out, b.up, b.down)
        IN  /\ in <= N /\ out <= N => at = 2 * out
            /\ out > N => 0 < at /\ at <= 2 * Most(N, in)
    BY <1>1, <2>1, <2>2, <2>3, EndPlateau
  <2> QED
    BY <1>1, <1>3, <2>1, <2>4
<1>6. CASE plateau < 0
  <2>1. end = EndAt(N, R, in, out, b.up, b.down) /\ b.up \in Int
        /\ b.down \in Int
    BY <1>4 DEF Motions
  <2>2. /\ b.up = Least(Most(R - in + out, 0), 2 * R)
        /\ b.down = b.up
    BY <1>2, <1>6
  <2>3. R - (N - in) - (N - out) < 0
    BY <1>6
  <2> HIDE DEF end, plateau, meet
  <2> QED
    BY <1>1, <2>1, <2>2, <2>3, EndPeak
<1>7. plateau \in Int
  BY <1>1
<1> QED
  BY <1>5, <1>6, <1>7

-----------------------------------------------------------------------------
(* What is known of a motion.                                              *)

(* What stepPlanner_inputMotion makes of it, whatever the passes do.       *)
Planned(b) ==
    /\ 0 < b.nominal /\ 0 < b.reach
    /\ Base <= b.nominal /\ Base <= b.ends /\ b.ends <= Base + Spread
    /\ Least(b.nominal, b.ends) <= b.jerk /\ b.jerk <= b.nominal
    /\ Base <= b.entry /\ b.entry <= b.jerk

(* prevExitSpeed after it, and what that allows the next.                  *)
Exit(b) == Least(b.jerk + b.reach, b.nominal)
Follows(b, c) == c.jerk <= Most(c.ends, Exit(b))

(* The engine may find nothing to do after it.                             *)
CanBeLast(b) == b.entry <= b.ends + b.reach /\ EndOf(b) <= 2 * Slow(b)

(* With a profile that ends at a slow speed, the engine may stop.          *)
LEMMA EndStops ==
  ASSUME NEW b \in Motions, NEW x \in Nat, NEW y \in Nat, Shaped(b, x, y),
         0 < b.nominal, 0 < b.reach, x <= b.nominal,
         x <= b.ends + b.reach, y <= b.ends
  PROVE  EndOf(b) <= 2 * Slow(b)
<1> DEFINE in == Most(x, Floor)
           out == Most(y, Floor)
           end == EndOf(b)
<1>1. b.nominal \in Nat /\ b.reach \in Nat /\ b.ends \in Nat /\ Floor \in Nat
  BY Constants DEF Motions
<1>2. /\ in \in Nat /\ out \in Nat /\ end \in Nat
      /\ in <= Most(b.nominal, Floor) /\ out <= Slow(b)
      /\ in <= Slow(b) + b.reach /\ Floor <= Slow(b) /\ Slow(b) \in Nat
  BY <1>1, EndOfNat DEF Most, Slow
<1>3. \/ end = 2 * out
      \/ out > b.nominal /\ end <= 2 * Most(b.nominal, in)
      \/ out + b.reach < in /\ end = 2 * (in - b.reach)
      \/ in + b.reach <= out /\ end = 2 * (in + b.reach)
  BY EndCases
<1> HIDE DEF in, out, end
<1>4. end <= 2 * Slow(b)
  BY <1>1, <1>2, <1>3 DEF Most
<1> QED
  BY <1>4 DEF end

(* Two motions whose speeds differ by no more than b's length allows, and  *)
(* Spread, join smoothly when b has its profile.                           *)
LEMMA EndJoins ==
  ASSUME NEW b \in Motions, NEW c \in Motions, Planned(b), Planned(c),
         Follows(b, c), Shaped(b, b.entry, c.entry),
         c.in = Most(c.entry, Floor),
         b.entry <= c.entry + b.reach + Spread,
         c.entry <= b.entry + b.reach + Spread
  PROVE  /\ Smooth(EndOf(b), b, c)
         /\ EndOf(b) = 0 => c.in <= Slow(c)
<1> DEFINE x == b.entry
           y == c.entry
           in == Most(x, Floor)
           out == Most(y, Floor)
           end == EndOf(b)
<1>1. /\ b.nominal \in Nat /\ b.reach \in Nat /\ b.ends \in Nat
      /\ c.ends \in Nat /\ x \in Nat /\ y \in Nat /\ b.jerk \in Nat
      /\ c.jerk \in Nat /\ Floor \in Nat /\ Spread \in Nat
  BY Constants DEF Motions
<1>2. /\ x <= b.nominal /\ 0 < b.nominal /\ 0 < b.reach
      /\ y <= b.nominal \/ y <= c.ends
  BY <1>1 DEF Planned, Follows, Exit, Least, Most
<1>3. \/ end = 2 * out
      \/ out > b.nominal /\ 0 < end /\ end <= 2 * Most(b.nominal, in)
      \/ out + b.reach < in /\ end = 2 * (in - b.reach)
      \/ in + b.reach <= out /\ end = 2 * (in + b.reach)
  BY <1>1, <1>2, EndCases
<1>4. /\ in \in Nat /\ out \in Nat /\ end \in Nat
      /\ Slow(b) \in Nat /\ Slow(c) \in Nat
      /\ Floor <= Slow(b) /\ Floor <= Slow(c) /\ c.ends <= Slow(c)
  BY <1>1, EndOfNat DEF Most, Slow
<1>5. /\ x <= y + b.reach + Spread /\ y <= x + b.reach + Spread
      /\ (in = x /\ Floor <= x) \/ in = Floor
      /\ (out = y /\ Floor <= y) \/ out = Floor
      /\ x <= in /\ y <= out /\ Floor <= in /\ Floor <= out
  BY <1>1 DEF Most
<1>6. c.in = out
  OBVIOUS
<1> HIDE DEF x, y, in, out, end
<1>7. CASE out > b.nominal /\ 0 < end /\ end <= 2 * Most(b.nominal, in)
  <2>1. out <= Slow(c)
    BY <1>1, <1>2, <1>4, <1>5, <1>7
  <2>2. Most(b.nominal, in) <= Slow(c)
    BY <1>1, <1>2, <1>4, <1>5, <1>7, <2>1 DEF Most
  <2>3. LET slow == Most(Slow(b), Slow(c))
        IN  end <= 2 * slow /\ out <= slow
    BY <1>1, <1>4, <1>7, <2>1, <2>2 DEF Most
  <2> QED
    BY <1>6, <1>7, <2>1, <2>3 DEF Smooth, end
<1>8. CASE ~(out > b.nominal /\ 0 < end /\ end <= 2 * Most(b.nominal, in))
  <2>1. end <= 2 * (out + Spread) /\ 2 * out <= end + 2 * Spread
    BY <1>1, <1>3, <1>4, <1>5, <1>8
  <2>2. end = 0 => out <= Slow(c)
    BY <1>1, <1>2, <1>3, <1>4, <1>5, <1>8
  <2> QED
    BY <1>6, <2>1, <2>2 DEF Smooth, end
<1> QED
  BY <1>7, <1>8

(* The speed allowed at the junction of a new motion with the last one.    *)
LEMMA JerkBounds ==
  ASSUME NEW m \in Motion, NEW j \in Junction, prevExit \in Nat
  PROVE  LET jerk == Jerk(m, j)
         IN  /\ jerk \in Nat /\ Least(m.nominal, m.ends) <= jerk
             /\ jerk <= m.nominal /\ jerk <= Most(m.ends, prevExit)
             /\ Waiting = 0 => jerk <= m.ends
<1>1. m.nominal \in Nat /\ m.ends \in Nat /\ j \in Nat
  BY Constants
<1> HIDE DEF Waiting
<1> QED
  BY <1>1 DEF Jerk, Least, Most

-----------------------------------------------------------------------------
(* Two bounds on the speeds at which the waiting motions begin.            *)

(* The flag nominal_length_flag says that the speed at the end does not    *)
(* depend on the one at the beginning: given by the motion itself, or      *)
(* earned in a backward pass that found it beginning with its jerk speed.  *)
Given(b) == Exit(b) = b.nominal /\ b.nominal <= Base + Spread + b.reach
Earned(b) == b.flag /\ ~Given(b)

(* w is a speed from which b can slow down for what follows: not much less *)
(* than its entry, as much as the motion alone allows.                     *)
Brake(b, w) ==
    /\ Least(b.jerk, Base + b.reach) <= w /\ w <= b.jerk
    /\ b.entry <= w + Spread
    /\ Earned(b) => b.jerk <= w + Spread

(* Such speeds for all that wait, each one reached from the one before; of *)
(* the motions after n, looked at by the backward pass, the entry is not   *)
(* less.                                                                   *)
Brakes(p, t, n, W) ==
    /\ \A i \in t .. Len(p) : Brake(p[i], W[i])
    /\ \A i \in t .. Len(p) : i > n => W[i] <= p[i].entry
    /\ \A i \in t .. Len(p) : i < Len(p) => W[i] <= W[i + 1] + p[i].reach
    /\ t <= Len(p) => W[Len(p)] <= Base + p[Len(p)].reach

(* v is a speed that b has gained at its beginning.                        *)
Gain(b, v) ==
    /\ Base <= v /\ v <= b.entry
    /\ Earned(b) => b.jerk <= v + Spread

(* Such speeds for all that wait, each one reached from the one before; of *)
(* the motions up to n, which the forward pass has looked at or will not   *)
(* lower, the entry is not much more.                                      *)
Gains(p, t, n, V) ==
    /\ \A i \in t .. Len(p) : Gain(p[i], V[i])
    /\ \A i \in t .. Len(p) : i <= n \/ i = t => p[i].entry <= V[i] + Spread
    /\ \A i \in t .. Len(p) : i < Len(p) => V[i + 1] <= V[i] + p[i].reach

Braked(p, t, n) == \E W \in [DOMAIN p -> Int] : Brakes(p, t, n, W)
Gained(p, t, n) == \E V \in [DOMAIN p -> Int] : Gains(p, t, n, V)

-----------------------------------------------------------------------------
(* What the passes do to one motion.                                       *)

SameProfile(b, c) == b.in = c.in /\ b.out = c.out /\ b.up = c.up
                     /\ b.down = c.down

(* The backward pass makes c of b, which d follows.                        *)
Turned(b, c, d) ==
    /\ Fixed(b, c) /\ SameProfile(b, c)
    /\ \/ b.entry = b.jerk /\ c.entry = b.entry /\ c.flag /\ c.redo = b.redo
       \/ /\ b.entry # b.jerk /\ c.flag = b.flag /\ c.redo
          /\ c.entry = IF ~b.flag /\ b.jerk > d.entry
                       THEN Least(b.jerk, d.entry + b.reach) ELSE b.jerk

(* The forward pass makes c of d, which follows b.                         *)
Passed(b, d, c) ==
    \/ c = d /\ (b.flag \/ d.entry <= b.entry + b.reach)
    \/ /\ Fixed(d, c) /\ SameProfile(d, c) /\ c.flag = d.flag /\ c.redo
       /\ ~b.flag /\ c.entry = b.entry + b.reach /\ c.entry < d.entry

LEMMA Numbers ==
  ASSUME NEW b \in Motions
  PROVE  /\ b.nominal \in Nat /\ b.reach \in Nat /\ b.ends \in Nat
         /\ b.jerk \in Nat /\ b.entry \in Nat /\ b.in \in Nat /\ b.out \in Nat
         /\ b.flag \in BOOLEAN /\ b.redo \in BOOLEAN
  BY DEF Motions

LEMMA GivenSame ==
  ASSUME NEW b \in Motions, NEW c \in Motions, Fixed(b, c)
  PROVE  /\ Given(c) <=> Given(b)
         /\ Exit(c) = Exit(b) /\ Slow(c) = Slow(b)
  BY DEF Given, Exit, Fixed, Slow

LEMMA BrakeTurned ==
  ASSUME NEW b \in Motions, NEW c \in Motions, NEW d \in Motions,
         Turned(b, c, d), Planned(b), NEW w \in Int, NEW z \in Int,
         Brake(b, w), Brake(d, z), z <= d.entry, w <= z + b.reach
  PROVE  LET x == Most(w, Least(b.jerk, z + b.reach))
         IN  /\ x \in Int /\ w <= x /\ x <= z + b.reach
             /\ Brake(c, x) /\ x <= c.entry
<1> DEFINE x == Most(w, Least(b.jerk, z + b.reach))
<1>1. /\ b.reach \in Nat /\ b.jerk \in Nat /\ b.entry \in Nat
      /\ b.nominal \in Nat /\ d.entry \in Nat
      /\ c.entry \in Nat /\ Base \in Nat /\ Spread \in Nat
      /\ c.jerk = b.jerk /\ c.reach = b.reach
  BY Numbers, Constants DEF Turned, Fixed
<1>2. /\ Least(b.jerk, Base + b.reach) <= w /\ w <= b.jerk
      /\ b.entry <= w + Spread /\ d.entry <= z + Spread
  BY DEF Brake
<1>3. /\ x \in Int /\ w <= x /\ x <= z + b.reach /\ x <= b.jerk
      /\ Least(b.jerk, z + b.reach) <= x
  BY <1>1, <1>2 DEF Most, Least
<1>4. b.flag => b.jerk <= w + Spread
  <2>1. Earned(b) => b.jerk <= w + Spread
    BY DEF Brake
  <2>2. CASE Given(b)
    BY <1>1, <1>2, <2>2 DEF Given, Planned, Least
  <2> QED
    BY <2>1, <2>2 DEF Earned
<1>5. Earned(c) => b.entry = b.jerk \/ Earned(b)
  BY GivenSame DEF Earned, Turned
<1>6. Earned(c) => c.jerk <= x + Spread
  BY <1>1, <1>2, <1>3, <1>4, <1>5 DEF Earned
<1>7. CASE b.entry = b.jerk /\ c.entry = b.entry
  <2>1. c.entry <= x + Spread /\ x <= c.entry
    BY <1>1, <1>2, <1>3, <1>7
  <2>2. Least(c.jerk, Base + c.reach) <= x /\ x <= c.jerk
    BY <1>1, <1>2, <1>3 DEF Least
  <2> QED
    BY <1>3, <1>6, <2>1, <2>2 DEF Brake
<1>8. CASE c.entry = IF ~b.flag /\ b.jerk > d.entry
                     THEN Least(b.jerk, d.entry + b.reach) ELSE b.jerk
  <2>1. c.entry <= x + Spread
    BY <1>1, <1>2, <1>3, <1>4, <1>8 DEF Least
  <2>2. x <= c.entry
    <3>1. w <= d.entry + b.reach
      BY <1>1
    <3> QED
      BY <1>1, <1>2, <1>8, <3>1 DEF Least, Most
  <2>3. Least(c.jerk, Base + c.reach) <= x /\ x <= c.jerk
    BY <1>1, <1>2, <1>3 DEF Least
  <2> QED
    BY <1>3, <1>6, <2>1, <2>2, <2>3 DEF Brake
<1> QED
  BY <1>7, <1>8 DEF Turned

LEMMA GainTurned ==
  ASSUME NEW b \in Motions, NEW c \in Motions, NEW d \in Motions,
         Turned(b, c, d), Planned(b), Planned(d), NEW v \in Int, NEW u \in Int,
         Gain(b, v), Gain(d, u), b.entry <= v + Spread, u <= v + b.reach
  PROVE  LET x == Least(v, c.entry)
         IN  x \in Int /\ x <= v /\ u <= x + b.reach /\ Gain(c, x)
<1> DEFINE x == Least(v, c.entry)
<1>1. /\ b.reach \in Nat /\ b.jerk \in Nat /\ b.entry \in Nat
      /\ b.nominal \in Nat /\ d.entry \in Nat /\ b.ends \in Nat
      /\ c.entry \in Nat /\ Base \in Nat /\ Spread \in Nat
      /\ c.jerk = b.jerk
  BY Numbers, Constants DEF Turned, Fixed
<1>2. /\ Base <= v /\ v <= b.entry /\ b.entry <= b.jerk /\ u <= d.entry
      /\ Base <= d.entry
  BY DEF Gain, Planned
<1>3. \/ c.entry = b.jerk
      \/ ~b.flag /\ c.flag = b.flag
         /\ c.entry = Least(b.jerk, d.entry + b.reach)
  BY DEF Turned
<1>4. x \in Int /\ x <= v /\ x <= c.entry
  BY <1>1 DEF Least
<1>5. Base <= x /\ u <= x + b.reach
  BY <1>1, <1>2, <1>3 DEF Least
<1>6. Earned(c) => c.jerk <= x + Spread
  <2>1. Earned(c) => c.entry = b.jerk
    BY <1>3 DEF Earned
  <2>2. Earned(c) => b.jerk <= v + Spread
    <3>1. Earned(c) => b.entry = b.jerk \/ Earned(b)
      BY GivenSame DEF Earned, Turned
    <3> QED
      BY <1>1, <3>1 DEF Gain
  <2> QED
    BY <1>1, <2>1, <2>2 DEF Least
<1> QED
  BY <1>4, <1>5, <1>6 DEF Gain

LEMMA GainPassed ==
  ASSUME NEW b \in Motions, NEW c \in Motions, NEW d \in Motions,
         Passed(b, d, c), Planned(b), Planned(d), Follows(b, d),
         NEW v \in Int, NEW u \in Int,
         Gain(b, v), Gain(d, u), b.entry <= v + Spread, u <= v + b.reach
  PROVE  LET x == Most(u, Least(c.entry, v + b.reach))
         IN  /\ x \in Int /\ u <= x /\ x <= v + b.reach
             /\ Gain(c, x) /\ c.entry <= x + Spread
<1> DEFINE x == Most(u, Least(c.entry, v + b.reach))
<1>1. /\ b.reach \in Nat /\ b.jerk \in Nat /\ b.entry \in Nat
      /\ b.nominal \in Nat /\ d.entry \in Nat /\ d.ends \in Nat
      /\ d.jerk \in Nat
      /\ c.entry \in Nat /\ Base \in Nat /\ Spread \in Nat
      /\ c.jerk = d.jerk
  BY Numbers, Constants DEF Passed, Fixed
<1>2. /\ Base <= v /\ v <= b.entry /\ Base <= u /\ u <= d.entry
      /\ d.entry <= d.jerk /\ d.ends <= Base + Spread
  BY DEF Gain, Planned
<1>3. \/ c.entry = d.entry /\ (b.flag \/ d.entry <= b.entry + b.reach)
      \/ c.entry = b.entry + b.reach
  BY DEF Passed
<1>4. /\ x \in Int /\ u <= x /\ x <= v + b.reach
      /\ Least(c.entry, v + b.reach) <= x
  BY <1>1 DEF Least, Most
<1>5. x <= c.entry
  BY <1>1, <1>2, <1>3 DEF Passed, Least, Most
<1>6. Earned(c) => c.jerk <= x + Spread
  <2>1. Earned(c) => Earned(d)
    BY GivenSame DEF Earned, Passed
  <2> QED
    BY <1>1, <1>4, <2>1 DEF Gain
<1>7. c.entry <= x + Spread
  <2>1. CASE c.entry <= b.entry + b.reach
    BY <1>1, <1>2, <1>4, <2>1 DEF Least
  <2>2. CASE b.flag /\ c.entry = d.entry
    <3>1. CASE d.jerk <= d.ends
      BY <1>1, <1>2, <1>4, <2>2, <3>1 DEF Least
    <3>2. CASE d.jerk <= Exit(b)
      <4>1. Exit(b) <= v + b.reach + Spread
        <5>1. CASE Given(b)
          BY <1>1, <1>2, <5>1 DEF Given
        <5>2. CASE ~Given(b)
          <6>1. b.jerk <= v + Spread
            BY <2>2, <5>2 DEF Gain, Earned
          <6> QED
            BY <1>1, <6>1 DEF Exit, Least
        <5> QED
          BY <5>1, <5>2
      <4>2. Exit(b) \in Nat
        BY <1>1 DEF Exit, Least
      <4> QED
        BY <1>1, <1>2, <1>4, <2>2, <3>2, <4>1, <4>2 DEF Least
    <3> QED
      BY <3>1, <3>2 DEF Follows, Most
  <2> QED
    BY <1>1, <1>3, <2>1, <2>2
<1> QED
  BY <1>1, <1>2, <1>4, <1>5, <1>6, <1>7 DEF Gain

-----------------------------------------------------------------------------
(* What a step of a pass does to the bounds.                               *)

(* Only motion n is another.                                               *)
Changed(p, q, n) == /\ q \in Seq(Motions) /\ Len(q) = Len(p)
                    /\ \A i \in 1 .. Len(p) : i # n => q[i] = p[i]

LEMMA BrakedTurned ==
  ASSUME NEW p \in Seq(Motions), NEW q \in Seq(Motions),
         NEW t \in Nat \ {0}, NEW n \in t .. Len(p) - 1,
         Changed(p, q, n), Turned(p[n], q[n], p[n + 1]), Planned(p[n]),
         Braked(p, t, n)
  PROVE  Braked(q, t, n - 1)
<1>1. PICK W \in [DOMAIN p -> Int] : Brakes(p, t, n, W)
  BY DEF Braked
<1> DEFINE x == Most(W[n], Least(p[n].jerk, W[n + 1] + p[n].reach))
           U == [i \in DOMAIN q |-> IF i = n THEN x ELSE W[i]]
<1>2. /\ DOMAIN p = 1 .. Len(p) /\ DOMAIN q = 1 .. Len(p)
      /\ n \in 1 .. Len(p) /\ n + 1 \in 1 .. Len(p) /\ Len(p) \in Nat
      /\ n \in t .. Len(p) /\ n + 1 \in t .. Len(p)
  BY DEF Changed
<1>3. /\ p[n] \in Motions /\ p[n + 1] \in Motions /\ q[n] \in Motions
      /\ \A i \in 1 .. Len(p) : W[i] \in Int /\ p[i].reach \in Nat
      /\ p[n].reach = q[n].reach
  BY <1>2, Numbers DEF Turned, Fixed
<1>4. /\ Brake(p[n], W[n]) /\ Brake(p[n + 1], W[n + 1])
      /\ W[n + 1] <= p[n + 1].entry /\ W[n] <= W[n + 1] + p[n].reach
  BY <1>1, <1>2 DEF Brakes
<1>5. /\ x \in Int /\ W[n] <= x /\ x <= W[n + 1] + p[n].reach
      /\ Brake(q[n], x) /\ x <= q[n].entry
  BY <1>2, <1>3, <1>4, BrakeTurned
<1> HIDE DEF x
<1>6. U \in [DOMAIN q -> Int]
  BY <1>2, <1>3, <1>5
<1>7. /\ U[n] = x
      /\ \A i \in 1 .. Len(p) : i # n => U[i] = W[i] /\ q[i] = p[i]
  BY <1>2 DEF Changed
<1> HIDE DEF U
<1>8. ASSUME NEW i \in t .. Len(q)
      PROVE  /\ Brake(q[i], U[i])
             /\ i > n - 1 => U[i] <= q[i].entry
             /\ i < Len(q) => U[i] <= U[i + 1] + q[i].reach
  <2>1. i \in 1 .. Len(p) /\ i \in t .. Len(p) /\ Len(q) = Len(p)
    BY <1>2 DEF Changed
  <2>2. CASE i = n
    BY <1>2, <1>5, <1>7, <1>3, <2>2
  <2>3. CASE i # n
    <3>1. Brake(q[i], U[i]) /\ (i > n - 1 => U[i] <= q[i].entry)
      BY <1>1, <1>2, <1>7, <2>1, <2>3 DEF Brakes
    <3>2. i < Len(p) => W[i] <= W[i + 1] + p[i].reach
      BY <1>1, <2>1 DEF Brakes
    <3>3. i < Len(p) => U[i] <= U[i + 1] + q[i].reach
      <4>1. CASE i + 1 = n
        BY <1>2, <1>3, <1>5, <1>7, <2>1, <2>3, <3>2, <4>1
      <4>2. CASE i + 1 # n
        BY <1>2, <1>7, <2>1, <2>3, <3>2, <4>2
      <4> QED
        BY <4>1, <4>2
    <3> QED
      BY <2>1, <3>1, <3>3
  <2> QED
    BY <2>2, <2>3
<1>9. t <= Len(q) => U[Len(q)] <= Base + q[Len(q)].reach
  <2>1. Len(q) = Len(p) /\ Len(p) # n /\ Len(p) \in 1 .. Len(p)
    BY <1>2 DEF Changed
  <2> QED
    BY <1>1, <1>7, <2>1 DEF Brakes
<1>10. Brakes(q, t, n - 1, U)
  BY <1>8, <1>9 DEF Brakes
<1> QED
  BY <1>6, <1>10 DEF Braked

LEMMA GainedTurned ==
  ASSUME NEW p \in Seq(Motions), NEW q \in Seq(Motions),
         NEW t \in Nat \ {0}, NEW n \in t + 1 .. Len(p) - 1,
         Changed(p, q, n), Turned(p[n], q[n], p[n + 1]),
         Planned(p[n]), Planned(p[n + 1]), Gained(p, t, n)
  PROVE  Gained(q, t, n - 1)
<1>1. PICK V \in [DOMAIN p -> Int] : Gains(p, t, n, V)
  BY DEF Gained
<1> DEFINE x == Least(V[n], q[n].entry)
           U == [i \in DOMAIN q |-> IF i = n THEN x ELSE V[i]]
<1>2. /\ DOMAIN p = 1 .. Len(p) /\ DOMAIN q = 1 .. Len(p)
      /\ n \in 1 .. Len(p) /\ n + 1 \in 1 .. Len(p) /\ Len(p) \in Nat
      /\ n \in t .. Len(p) /\ n + 1 \in t .. Len(p)
  BY DEF Changed
<1>3. /\ p[n] \in Motions /\ p[n + 1] \in Motions /\ q[n] \in Motions
      /\ \A i \in 1 .. Len(p) : V[i] \in Int /\ p[i].reach \in Nat
      /\ p[n].reach = q[n].reach
  <2>1. \A i \in 1 .. Len(p) : p[i] \in Motions /\ q[i] \in Motions
    BY <1>2
  <2>2. p[n].reach = q[n].reach
    BY DEF Turned, Fixed
  <2> QED
    BY <1>2, <2>1, <2>2, Numbers
<1>4. /\ Gain(p[n], V[n]) /\ Gain(p[n + 1], V[n + 1])
      /\ p[n].entry <= V[n] + Spread /\ V[n + 1] <= V[n] + p[n].reach
  BY <1>1, <1>2 DEF Gains
<1>5. /\ x \in Int /\ x <= V[n] /\ V[n + 1] <= x + p[n].reach
      /\ Gain(q[n], x)
  BY <1>2, <1>3, <1>4, GainTurned
<1> HIDE DEF x
<1>6. U \in [DOMAIN q -> Int]
  BY <1>2, <1>3, <1>5
<1>7. /\ U[n] = x
      /\ \A i \in 1 .. Len(p) : i # n => U[i] = V[i] /\ q[i] = p[i]
  BY <1>2 DEF Changed
<1> HIDE DEF U
<1>8. ASSUME NEW i \in t .. Len(q)
      PROVE  /\ Gain(q[i], U[i])
             /\ i <= n - 1 \/ i = t => q[i].entry <= U[i] + Spread
             /\ i < Len(q) => U[i + 1] <= U[i] + q[i].reach
  <2>1. i \in 1 .. Len(p) /\ i \in t .. Len(p) /\ Len(q) = Len(p)
    BY <1>2 DEF Changed
  <2>2. CASE i = n
    BY SMTT(30), <1>2, <1>5, <1>7, <1>3, <2>2
  <2>3. CASE i # n
    <3>1. Gain(q[i], U[i])
          /\ (i <= n - 1 \/ i = t => q[i].entry <= U[i] + Spread)
      BY <1>1, <1>2, <1>7, <2>1, <2>3 DEF Gains
    <3>2. i < Len(p) => V[i + 1] <= V[i] + p[i].reach
      BY <1>1, <2>1 DEF Gains
    <3>3. i < Len(p) => U[i + 1] <= U[i] + q[i].reach
      <4>1. CASE i + 1 = n
        <5>1. /\ U[i + 1] <= V[i + 1] /\ U[i] = V[i] /\ q[i] = p[i]
              /\ U[i + 1] \in Int /\ V[i + 1] \in Int
          BY <1>2, <1>3, <1>5, <1>7, <2>1, <2>3, <4>1
        <5> QED
          BY <1>2, <1>3, <2>1, <3>2, <5>1
      <4>2. CASE i + 1 # n
        BY <1>2, <1>7, <2>1, <2>3, <3>2, <4>2
      <4> QED
        BY <4>1, <4>2
    <3> QED
      BY <2>1, <3>1, <3>3
  <2> QED
    BY <2>2, <2>3
<1>9. Gains(q, t, n - 1, U)
  BY <1>8 DEF Gains
<1> QED
  BY <1>6, <1>9 DEF Gained

LEMMA GainedPassed ==
  ASSUME NEW p \in Seq(Motions), NEW q \in Seq(Motions),
         NEW t \in Nat \ {0}, NEW n \in t .. Len(p) - 1,
         Changed(p, q, n + 1), Passed(p[n], p[n + 1], q[n + 1]),
         Planned(p[n]), Planned(p[n + 1]), Follows(p[n], p[n + 1]),
         Gained(p, t, n)
  PROVE  Gained(q, t, n + 1)
<1>1. PICK V \in [DOMAIN p -> Int] : Gains(p, t, n, V)
  BY DEF Gained
<1> DEFINE m == n + 1
           x == Most(V[m], Least(q[m].entry, V[n] + p[n].reach))
           U == [i \in DOMAIN q |-> IF i = m THEN x ELSE V[i]]
<1>2. /\ DOMAIN p = 1 .. Len(p) /\ DOMAIN q = 1 .. Len(p)
      /\ n \in 1 .. Len(p) /\ m \in 1 .. Len(p) /\ Len(p) \in Nat
      /\ n \in t .. Len(p) /\ m \in t .. Len(p) /\ n < Len(p)
      /\ m = n + 1
  BY DEF Changed
<1>3. /\ p[n] \in Motions /\ p[m] \in Motions /\ q[m] \in Motions
      /\ \A i \in 1 .. Len(p) : V[i] \in Int /\ p[i].reach \in Nat
      /\ p[m].reach = q[m].reach
  BY <1>2, Numbers DEF Passed, Fixed
<1>4. /\ Gain(p[n], V[n]) /\ Gain(p[m], V[m])
      /\ p[n].entry <= V[n] + Spread /\ V[m] <= V[n] + p[n].reach
  BY <1>1, <1>2 DEF Gains
<1>5. /\ x \in Int /\ V[m] <= x /\ x <= V[n] + p[n].reach
      /\ Gain(q[m], x) /\ q[m].entry <= x + Spread
  BY <1>2, <1>3, <1>4, GainPassed
<1> HIDE DEF x
<1>6. U \in [DOMAIN q -> Int]
  BY <1>2, <1>3, <1>5
<1>7. /\ U[m] = x
      /\ \A i \in 1 .. Len(p) : i # m => U[i] = V[i] /\ q[i] = p[i]
  BY <1>2 DEF Changed
<1> HIDE DEF U, m
<1>8. ASSUME NEW i \in t .. Len(q)
      PROVE  /\ Gain(q[i], U[i])
             /\ i <= n + 1 \/ i = t => q[i].entry <= U[i] + Spread
             /\ i < Len(q) => U[i + 1] <= U[i] + q[i].reach
  <2>1. i \in 1 .. Len(p) /\ i \in t .. Len(p) /\ Len(q) = Len(p)
    BY <1>2 DEF Changed
  <2>2. i < Len(p) => V[i + 1] <= V[i] + p[i].reach
    BY <1>1, <2>1 DEF Gains
  <2>3. CASE i = m
    <3>1. i < Len(p) => U[i + 1] <= U[i] + q[i].reach
      BY <1>2, <1>3, <1>5, <1>7, <2>1, <2>2, <2>3
    <3> QED
      BY <1>5, <1>7, <2>1, <2>3, <3>1
  <2>4. CASE i # m
    <3>1. Gain(q[i], U[i])
          /\ (i <= n + 1 \/ i = t => q[i].entry <= U[i] + Spread)
      BY <1>1, <1>2, <1>7, <2>1, <2>4 DEF Gains
    <3>2. i < Len(p) => U[i + 1] <= U[i] + q[i].reach
      <4>1. CASE i + 1 = m
        BY <1>2, <1>3, <1>5, <1>7, <2>1, <2>4, <4>1
      <4>2. CASE i + 1 # m
        BY <1>2, <1>7, <2>1, <2>4, <2>2, <4>2
      <4> QED
        BY <4>1, <4>2
    <3> QED
      BY <2>1, <3>1, <3>2
  <2> QED
    BY <2>3, <2>4
<1>9. Gains(q, t, n + 1, U)
  BY <1>8 DEF Gains
<1> QED
  BY <1>6, <1>9 DEF Gained

(* A motion's length and limits, and its flag, stay; it begins no faster.  *)
Lowered(p, q) ==
    /\ q \in Seq(Motions) /\ Len(q) = Len(p)
    /\ \A i \in 1 .. Len(p) : /\ Fixed(p[i], q[i]) /\ q[i].flag = p[i].flag
                              /\ q[i].entry <= p[i].entry

LEMMA BrakedLowered ==
  ASSUME NEW p \in Seq(Motions), NEW q \in Seq(Motions),
         NEW t \in Nat \ {0}, Lowered(p, q), Braked(p, t, Len(p))
  PROVE  Braked(q, t, Len(q))
<1>1. PICK W \in [DOMAIN p -> Int] : Brakes(p, t, Len(p), W)
  BY DEF Braked
<1>2. /\ DOMAIN p = 1 .. Len(p) /\ DOMAIN q = 1 .. Len(p)
      /\ Len(q) = Len(p) /\ Len(p) \in Nat
  BY DEF Lowered
<1>3. ASSUME NEW i \in t .. Len(q)
      PROVE  /\ Brake(q[i], W[i])
             /\ i < Len(q) => W[i] <= W[i + 1] + q[i].reach
             /\ i = Len(q) => W[i] <= Base + q[i].reach
  <2>1. i \in 1 .. Len(p) /\ i \in t .. Len(p) /\ t <= Len(p)
    BY <1>2
  <2>2. /\ Fixed(p[i], q[i]) /\ q[i].flag = p[i].flag
        /\ q[i].entry <= p[i].entry
        /\ p[i] \in Motions /\ q[i] \in Motions /\ W[i] \in Int
    BY <1>2, <2>1 DEF Lowered
  <2>3. /\ Brake(p[i], W[i])
        /\ i < Len(p) => W[i] <= W[i + 1] + p[i].reach
        /\ i = Len(p) => W[i] <= Base + p[i].reach
    BY <1>1, <2>1 DEF Brakes
  <2>4. q[i].reach = p[i].reach /\ q[i].jerk = p[i].jerk
        /\ (Earned(q[i]) <=> Earned(p[i]))
    BY <2>2, GivenSame DEF Fixed, Earned
  <2>5. p[i].entry \in Nat /\ q[i].entry \in Nat /\ Spread \in Nat
    BY <2>2, Numbers, Constants
  <2>6. q[i].entry <= W[i] + Spread
    BY <2>2, <2>3, <2>5 DEF Brake
  <2> QED
    BY <1>2, <2>3, <2>4, <2>6 DEF Brake
<1>4. Brakes(q, t, Len(q), W)
  BY <1>2, <1>3 DEF Brakes
<1> QED
  BY <1>2, <1>4 DEF Braked

LEMMA GainedKept ==
  ASSUME NEW p \in Seq(Motions), NEW q \in Seq(Motions),
         NEW t \in Nat \ {0}, NEW n, Lowered(p, q), Gained(p, t, n),
         \A i \in 1 .. Len(p) : q[i].entry = p[i].entry
  PROVE  Gained(q, t, n)
<1>1. PICK V \in [DOMAIN p -> Int] : Gains(p, t, n, V)
  BY DEF Gained
<1>2. /\ DOMAIN p = 1 .. Len(p) /\ DOMAIN q = 1 .. Len(p)
      /\ Len(q) = Len(p) /\ Len(p) \in Nat
  BY DEF Lowered
<1>3. ASSUME NEW i \in t .. Len(q)
      PROVE  /\ Gain(q[i], V[i])
             /\ i <= n \/ i = t => q[i].entry <= V[i] + Spread
             /\ i < Len(q) => V[i + 1] <= V[i] + q[i].reach
  <2>1. i \in 1 .. Len(p) /\ i \in t .. Len(p)
    BY <1>2
  <2>2. /\ Fixed(p[i], q[i]) /\ q[i].flag = p[i].flag
        /\ p[i] \in Motions /\ q[i] \in Motions
        /\ q[i].entry = p[i].entry
    BY <1>2, <2>1 DEF Lowered
  <2>3. /\ Gain(p[i], V[i])
        /\ i <= n \/ i = t => p[i].entry <= V[i] + Spread
        /\ i < Len(p) => V[i + 1] <= V[i] + p[i].reach
    BY <1>1, <2>1 DEF Gains
  <2>4. q[i].reach = p[i].reach /\ q[i].jerk = p[i].jerk
        /\ (Earned(q[i]) <=> Earned(p[i]))
    BY <2>2, GivenSame DEF Fixed, Earned
  <2> QED
    BY <1>2, <2>2, <2>3, <2>4 DEF Gain
<1>4. Gains(q, t, n, V)
  BY <1>3 DEF Gains
<1> QED
  BY <1>2, <1>4 DEF Gained

(* When the backward pass ends.                                            *)
LEMMA PassTurns ==
  ASSUME NEW p \in Seq(Motions), NEW t \in Nat \ {0}, NEW n \in Nat,
         NEW m \in Nat, Braked(p, t, n), Gained(p, t, m)
  PROVE  Braked(p, t, Len(p)) /\ Gained(p, t, t)
<1>1. PICK W \in [DOMAIN p -> Int] : Brakes(p, t, n, W)
  BY DEF Braked
<1>2. PICK V \in [DOMAIN p -> Int] : Gains(p, t, m, V)
  BY DEF Gained
<1>3. Brakes(p, t, Len(p), W)
  BY <1>1 DEF Brakes
<1>4. Gains(p, t, t, V)
  BY <1>2 DEF Gains
<1> QED
  BY <1>3, <1>4 DEF Braked, Gained

(* A motion is taken, or there is none.                                    *)
LEMMA OneFewer ==
  ASSUME NEW p \in Seq(Motions), NEW t \in Nat \ {0},
         Braked(p, t, Len(p)), Gained(p, t, Len(p))
  PROVE  Braked(p, t + 1, Len(p)) /\ Gained(p, t + 1, Len(p))
<1>1. PICK W \in [DOMAIN p -> Int] : Brakes(p, t, Len(p), W)
  BY DEF Braked
<1>2. PICK V \in [DOMAIN p -> Int] : Gains(p, t, Len(p), V)
  BY DEF Gained
<1>3. Len(p) \in Nat /\ t + 1 .. Len(p) \subseteq t .. Len(p)
  OBVIOUS
<1>4. Brakes(p, t + 1, Len(p), W)
  BY <1>1, <1>3 DEF Brakes
<1>5. Gains(p, t + 1, Len(p), V)
  BY <1>2, <1>3 DEF Gains
<1> QED
  BY <1>4, <1>5 DEF Braked, Gained

LEMMA NoneWait ==
  ASSUME NEW p \in Seq(Motions), NEW t \in Nat \ {0}, NEW n, t > Len(p)
  PROVE  Braked(p, t, n) /\ Gained(p, t, n)
<1> DEFINE W == [i \in DOMAIN p |-> 0]
<1>1. t .. Len(p) = {} /\ ~(t <= Len(p)) /\ W \in [DOMAIN p -> Int]
  OBVIOUS
<1>2. Brakes(p, t, n, W) /\ Gains(p, t, n, W)
  BY <1>1 DEF Brakes, Gains
<1> QED
  BY <1>1, <1>2 DEF Braked, Gained

(* What the bounds say of two motions, one after the other.                *)
LEMMA CanSlowDown ==
  ASSUME NEW p \in Seq(Motions), NEW t \in Nat \ {0}, NEW n \in Nat,
         NEW i \in t .. Len(p), i < Len(p), n < i + 1, Braked(p, t, n)
  PROVE  p[i].entry <= p[i + 1].entry + p[i].reach + Spread
<1>1. PICK W \in [DOMAIN p -> Int] : Brakes(p, t, n, W)
  BY DEF Braked
<1>2. i + 1 \in t .. Len(p) /\ i \in DOMAIN p /\ i + 1 \in DOMAIN p
  OBVIOUS
<1>3. /\ p[i].entry \in Nat /\ p[i + 1].entry \in Nat /\ p[i].reach \in Nat
      /\ W[i] \in Int /\ W[i + 1] \in Int /\ Spread \in Nat
  <2>1. p[i] \in Motions /\ p[i + 1] \in Motions
    BY <1>2
  <2> QED
    BY <1>2, <2>1, Numbers, Constants
<1>4. /\ p[i].entry <= W[i] + Spread /\ W[i] <= W[i + 1] + p[i].reach
      /\ W[i + 1] <= p[i + 1].entry
  BY <1>1, <1>2 DEF Brakes, Brake
<1> QED
  BY SMTT(30), <1>3, <1>4

LEMMA CanSpeedUp ==
  ASSUME NEW p \in Seq(Motions), NEW t \in Nat \ {0}, NEW n \in Nat,
         NEW i \in t .. Len(p), i < Len(p), i + 1 <= n, Gained(p, t, n)
  PROVE  p[i + 1].entry <= p[i].entry + p[i].reach + Spread
<1>1. PICK V \in [DOMAIN p -> Int] : Gains(p, t, n, V)
  BY DEF Gained
<1>2. i + 1 \in t .. Len(p) /\ i \in DOMAIN p /\ i + 1 \in DOMAIN p
  OBVIOUS
<1>3. /\ p[i].entry \in Nat /\ p[i + 1].entry \in Nat /\ p[i].reach \in Nat
      /\ V[i] \in Int /\ V[i + 1] \in Int /\ Spread \in Nat
  <2>1. p[i] \in Motions /\ p[i + 1] \in Motions
    BY <1>2
  <2> QED
    BY <1>2, <2>1, Numbers, Constants
<1>4. /\ p[i + 1].entry <= V[i + 1] + Spread /\ V[i] <= p[i].entry
      /\ V[i + 1] <= V[i] + p[i].reach
  BY <1>1, <1>2 DEF Gains, Gain
<1> QED
  BY SMTT(30), <1>3, <1>4

(* A motion is put behind the others.                                      *)
Newest(b) == /\ b.entry = Least(b.jerk, b.ends + b.reach)
             /\ b.flag => Given(b)

LEMMA Appended ==
  ASSUME NEW p \in Seq(Motions), NEW b \in Motions
  PROVE  /\ Append(p, b) \in Seq(Motions) /\ Len(Append(p, b)) = Len(p) + 1
         /\ Append(p, b)[Len(p) + 1] = b
         /\ \A i \in 1 .. Len(p) : Append(p, b)[i] = p[i]
  OBVIOUS

LEMMA BrakeNewest ==
  ASSUME NEW b \in Motions, Planned(b), Newest(b)
  PROVE  LET x == Least(b.jerk, Base + b.reach)
         IN  /\ x \in Int /\ Base <= x /\ x <= Base + b.reach
             /\ x <= b.entry /\ Brake(b, x)
<1> DEFINE x == Least(b.jerk, Base + b.reach)
<1>1. /\ b.jerk \in Nat /\ b.reach \in Nat /\ b.ends \in Nat
      /\ b.entry \in Nat /\ b.nominal \in Nat
      /\ Base \in Nat /\ Spread \in Nat
  BY Numbers, Constants
<1>2. /\ Base <= b.ends /\ b.ends <= Base + Spread /\ Base <= b.jerk
      /\ b.entry = Least(b.jerk, b.ends + b.reach)
  BY <1>1 DEF Newest, Planned, Least
<1>3. x \in Int /\ x <= Base + b.reach /\ x <= b.jerk /\ Base <= x
  BY <1>1, <1>2 DEF Least
<1>4. x <= b.entry /\ b.entry <= x + Spread
  BY <1>1, <1>2 DEF Least
<1>5. ~Earned(b)
  BY DEF Newest, Earned
<1> QED
  BY <1>1, <1>3, <1>4, <1>5 DEF Brake

LEMMA BrakedAppended ==
  ASSUME NEW p \in Seq(Motions), NEW b \in Motions, NEW t \in Nat \ {0},
         t <= Len(p) + 1, Planned(b), Newest(b), Braked(p, t, Len(p))
  PROVE  Braked(Append(p, b), t, Len(p))
<1>1. PICK W \in [DOMAIN p -> Int] : Brakes(p, t, Len(p), W)
  BY DEF Braked
<1> DEFINE q == Append(p, b)
           n == Len(p)
           x == Least(b.jerk, Base + b.reach)
           U == [i \in DOMAIN q |-> IF i = n + 1 THEN x ELSE W[i]]
<1>2. /\ q \in Seq(Motions) /\ Len(q) = n + 1 /\ n \in Nat /\ q[n + 1] = b
      /\ \A i \in 1 .. n : q[i] = p[i]
      /\ DOMAIN q = 1 .. n + 1 /\ DOMAIN p = 1 .. n
  BY Appended
<1>3. b.reach \in Nat /\ b.entry \in Nat /\ Base \in Nat /\ Spread \in Nat
  BY Numbers, Constants
<1>4. /\ x \in Int /\ Base <= x /\ x <= Base + b.reach /\ x <= b.entry
      /\ Brake(b, x)
  BY BrakeNewest
<1> HIDE DEF x, q, n
<1>5. U \in [DOMAIN q -> Int]
  BY <1>2, <1>4
<1>6. U[n + 1] = x /\ \A i \in 1 .. n : U[i] = W[i] /\ W[i] \in Int
  BY <1>2
<1> HIDE DEF U
<1>7. ASSUME NEW i \in t .. Len(q)
      PROVE  /\ Brake(q[i], U[i])
             /\ i > n => U[i] <= q[i].entry
             /\ i < Len(q) => U[i] <= U[i + 1] + q[i].reach
             /\ i = Len(q) => U[i] <= Base + q[i].reach
  <2>1. CASE i = n + 1
    BY <1>2, <1>4, <1>6, <2>1
  <2>2. CASE i # n + 1
    <3>1. i \in 1 .. n /\ i \in t .. n /\ t <= n
      BY <1>2, <2>2
    <3>2. /\ Brake(p[i], W[i])
          /\ i < n => W[i] <= W[i + 1] + p[i].reach
          /\ i = n => W[i] <= Base + p[i].reach
      BY <1>1, <3>1 DEF Brakes, n
    <3>3. U[i] <= U[i + 1] + q[i].reach
      <4>1. CASE i = n
        <5>1. p[i] \in Motions
          BY <1>2, <3>1
        <5>2. p[i].reach \in Nat
          BY <5>1, Numbers
        <5> QED
          BY <1>2, <1>3, <1>4, <1>6, <3>1, <3>2, <4>1, <5>2
      <4>2. CASE i # n
        <5>1. i + 1 \in 1 .. n
          BY <1>2, <3>1, <4>2
        <5> QED
          BY <1>2, <1>6, <3>1, <3>2, <4>2, <5>1
      <4> QED
        BY <4>1, <4>2
    <3> QED
      BY <1>2, <1>6, <3>1, <3>2, <3>3
  <2> QED
    BY <2>1, <2>2
<1>8. Brakes(q, t, n, U)
  BY <1>2, <1>7 DEF Brakes
<1> QED
  BY <1>5, <1>8 DEF Braked, q, n

LEMMA GainedAppended ==
  ASSUME NEW p \in Seq(Motions), NEW b \in Motions, NEW t \in Nat \ {0},
         t <= Len(p) + 1, Planned(b), Newest(b), Gained(p, t, Len(p))
  PROVE  Gained(Append(p, b), t, Len(p))
<1>1. PICK V \in [DOMAIN p -> Int] : Gains(p, t, Len(p), V)
  BY DEF Gained
<1> DEFINE q == Append(p, b)
           n == Len(p)
           x == IF t = n + 1 THEN b.entry ELSE Base
           U == [i \in DOMAIN q |-> IF i = n + 1 THEN x ELSE V[i]]
<1>2. /\ q \in Seq(Motions) /\ Len(q) = n + 1 /\ n \in Nat /\ q[n + 1] = b
      /\ \A i \in 1 .. n : q[i] = p[i]
      /\ DOMAIN q = 1 .. n + 1 /\ DOMAIN p = 1 .. n
  BY Appended
<1>3. b.entry \in Nat /\ Base \in Nat /\ Spread \in Nat
  BY Numbers, Constants
<1>4. /\ x \in Int /\ Gain(b, x)
      /\ t = n + 1 => b.entry <= x + Spread
      /\ t # n + 1 => x = Base
  <2>1. Base <= b.entry /\ ~Earned(b)
    BY DEF Newest, Earned, Planned
  <2> QED
    BY <1>3, <2>1 DEF Gain
<1> HIDE DEF x, q, n
<1>5. U \in [DOMAIN q -> Int]
  BY <1>2, <1>4
<1>6. U[n + 1] = x /\ \A i \in 1 .. n : U[i] = V[i] /\ V[i] \in Int
  BY <1>2
<1> HIDE DEF U
<1>7. ASSUME NEW i \in t .. Len(q)
      PROVE  /\ Gain(q[i], U[i])
             /\ i <= n \/ i = t => q[i].entry <= U[i] + Spread
             /\ i < Len(q) => U[i + 1] <= U[i] + q[i].reach
  <2>1. CASE i = n + 1
    BY <1>2, <1>4, <1>6, <2>1
  <2>2. CASE i # n + 1
    <3>1. i \in 1 .. n /\ i \in t .. n
      BY <1>2, <2>2
    <3>2. /\ Gain(p[i], V[i]) /\ p[i].entry <= V[i] + Spread
          /\ i < n => V[i + 1] <= V[i] + p[i].reach
      BY <1>1, <1>2, <3>1 DEF Gains, n
    <3>3. U[i + 1] <= U[i] + q[i].reach
      <4>1. CASE i = n
        <5>1. p[i] \in Motions
          BY <1>2, <3>1
        <5>2. p[i].reach \in Nat
          BY <5>1, Numbers
        <5>3. t # n + 1 /\ Base <= V[i]
          BY <1>2, <3>1, <3>2 DEF Gain
        <5> QED
          BY <1>2, <1>3, <1>4, <1>6, <3>1, <4>1, <5>2, <5>3
      <4>2. CASE i # n
        <5>1. i + 1 \in 1 .. n
          BY <1>2, <3>1, <4>2
        <5> QED
          BY <1>2, <1>6, <3>1, <3>2, <4>2, <5>1
      <4> QED
        BY <4>1, <4>2
    <3> QED
      BY <1>2, <1>6, <3>1, <3>2, <3>3
  <2> QED
    BY <2>1, <2>2
<1>8. Gains(q, t, n, U)
  BY <1>2, <1>7 DEF Gains
<1> QED
  BY <1>5, <1>8 DEF Gained, q, n

-----------------------------------------------------------------------------
(* What each step of a pass does to the plan.                              *)

LEMMA Entries ==
  ASSUME NEW p \in Seq(Motions), NEW i \in 1 .. Len(p)
  PROVE  /\ p[i] \in Motions
         /\ \A c \in Motions : Changed(p, [p EXCEPT ![i] = c], i)
                               /\ [p EXCEPT ![i] = c][i] = c
BY DEF Changed

LEMMA ReverseDoes ==
  ASSUME TypeOK, Reverse
  PROVE  \/ /\ k > low /\ Len(plan) - low >= 2 /\ k \in 1 .. Len(plan) - 1
            /\ Changed(plan, plan', k)
            /\ Turned(plan[k], plan'[k], plan[k + 1])
            /\ pc' = "reverse" /\ k' = k - 1 /\ low' = low
         \/ /\ ~(k > low /\ Len(plan) - low >= 2)
            /\ plan' = plan /\ pc' = "forward" /\ k' = tail /\ low' = tail
<1>1. /\ plan \in Seq(Motions) /\ Len(plan) \in Nat /\ k \in Nat /\ low \in Nat
      /\ k < Len(plan)
  BY DEF TypeOK, Reverse
<1>2. CASE k > low /\ Len(plan) - low >= 2
  <2> DEFINE b == plan[k]
             d == plan[k + 1]
             fits == IF ~b.flag /\ b.jerk > d.entry
                     THEN Least(b.jerk, d.entry + b.reach) ELSE b.jerk
             c == IF b.entry # b.jerk
                  THEN [b EXCEPT !.entry = fits, !.redo = TRUE]
                  ELSE [b EXCEPT !.flag = TRUE]
  <2>1. k \in 1 .. Len(plan) - 1 /\ k \in 1 .. Len(plan)
        /\ k + 1 \in 1 .. Len(plan)
    BY <1>1, <1>2
  <2>2. b \in Motions /\ d \in Motions
    BY <1>1, <2>1, Entries
  <2>3. fits \in Nat
    BY <2>2, Numbers DEF Least
  <2>4. /\ plan' = [plan EXCEPT ![k] = c]
        /\ pc' = "reverse" /\ k' = k - 1 /\ low' = low
    BY <1>2 DEF Reverse
  <2>5. c \in Motions /\ Turned(b, c, d)
    <3> HIDE DEF b, d
    <3>1. CASE b.entry # b.jerk
      <4> HIDE DEF fits
      <4>1. c = [b EXCEPT !.entry = fits, !.redo = TRUE]
        BY <3>1
      <4>2. c \in Motions /\ Fixed(b, c) /\ SameProfile(b, c)
        BY <2>2, <2>3, <4>1 DEF Motions, Fixed, SameProfile
      <4>3. c.entry = fits /\ c.redo /\ c.flag = b.flag
        BY <2>2, <4>1 DEF Motions
      <4> QED
        BY <3>1, <4>2, <4>3 DEF Turned, fits
    <3>2. CASE b.entry = b.jerk
      <4>1. c = [b EXCEPT !.flag = TRUE]
        BY <3>2
      <4>2. c \in Motions /\ Fixed(b, c) /\ SameProfile(b, c)
        BY <2>2, <4>1 DEF Motions, Fixed, SameProfile
      <4>3. c.entry = b.entry /\ c.flag /\ c.redo = b.redo
        BY <2>2, <4>1 DEF Motions
      <4> QED
        BY <3>2, <4>2, <4>3 DEF Turned
    <3> QED
      BY <3>1, <3>2
  <2> HIDE DEF c
  <2>6. Changed(plan, plan', k) /\ plan'[k] = c
    BY <1>1, <2>1, <2>4, <2>5, Entries
  <2> QED
    BY <1>2, <2>1, <2>4, <2>5, <2>6
<1>3. CASE ~(k > low /\ Len(plan) - low >= 2)
  BY <1>3 DEF Reverse
<1> QED
  BY <1>2, <1>3

LEMMA ForwardDoes ==
  ASSUME TypeOK, Forward
  PROVE  \/ /\ k \in 1 .. Len(plan) - 1
            /\ Changed(plan, plan', k + 1)
            /\ Passed(plan[k], plan[k + 1], plan'[k + 1])
            /\ pc' = "forward" /\ k' = k + 1
         \/ /\ k >= Len(plan)
            /\ plan' = plan /\ pc' = "profile" /\ k' = tail
<1>1. /\ plan \in Seq(Motions) /\ Len(plan) \in Nat /\ k \in Nat /\ k > 0
  BY DEF TypeOK, Forward
<1>2. CASE k < Len(plan)
  <2> DEFINE b == plan[k]
             d == plan[k + 1]
             entry == Least(d.entry, b.entry + b.reach)
             c == [d EXCEPT !.entry = entry, !.redo = TRUE]
  <2>1. k \in 1 .. Len(plan) - 1 /\ k \in 1 .. Len(plan)
        /\ k + 1 \in 1 .. Len(plan)
    BY <1>1, <1>2
  <2>2. b \in Motions /\ d \in Motions
    BY <1>1, <2>1, Entries
  <2>3. entry \in Nat
    BY <2>2, Numbers DEF Least
  <2>4. /\ plan' = IF ~b.flag /\ d.entry # entry
                   THEN [plan EXCEPT ![k + 1] = c] ELSE plan
        /\ pc' = "forward" /\ k' = k + 1
    BY <1>2 DEF Forward
  <2>5. CASE ~b.flag /\ d.entry # entry
    <3> HIDE DEF b, d
    <3>1. entry = b.entry + b.reach /\ entry < d.entry
      BY <2>2, <2>5, Numbers DEF Least
    <3> HIDE DEF entry
    <3>2. c \in Motions /\ Fixed(d, c) /\ SameProfile(d, c)
      BY <2>2, <2>3 DEF Motions, Fixed, SameProfile
    <3>3. c.entry = entry /\ c.redo /\ c.flag = d.flag
      BY <2>2 DEF Motions
    <3>4. Passed(b, d, c)
      BY <2>5, <3>1, <3>2, <3>3 DEF Passed
    <3> HIDE DEF c
    <3>5. Changed(plan, plan', k + 1) /\ plan'[k + 1] = c
      BY <1>1, <2>1, <2>4, <2>5, <3>2, Entries
    <3> QED
      BY <2>1, <2>4, <3>4, <3>5 DEF b, d
  <2>6. CASE ~(~b.flag /\ d.entry # entry)
    <3>1. plan' = plan
      BY <2>4, <2>6
    <3>2. b.flag \/ d.entry <= b.entry + b.reach
      BY <2>2, <2>6, Numbers DEF Least
    <3> QED
      BY <1>1, <2>1, <2>4, <3>1, <3>2 DEF Passed, Changed
  <2> QED
    BY <2>5, <2>6
<1>3. CASE ~(k < Len(plan))
  BY <1>1, <1>3 DEF Forward
<1> QED
  BY <1>2, <1>3

(* Motion n is as fast and as flagged as before, and has its profile.      *)
Redone(p, q, n) ==
    /\ Fixed(p[n], q[n]) /\ q[n].entry = p[n].entry /\ q[n].flag = p[n].flag
    /\ \/ /\ n = Len(p) /\ Shaped(q[n], q[n].entry, Slowest)
       \/ /\ n < Len(p) /\ Shaped(q[n], q[n].entry, p[n + 1].entry)
       \/ /\ n < Len(p) /\ q[n] = p[n]
          /\ ~(p[n].redo \/ p[n + 1].redo)

LEMMA TrapezoidsDoes ==
  ASSUME TypeOK, Trapezoids
  PROVE  \/ /\ k \in 1 .. Len(plan)
            /\ Changed(plan, plan', k) /\ Redone(plan, plan', k)
            /\ pc' = "profile" /\ k' = k + 1
         \/ /\ k > Len(plan)
            /\ plan' = plan /\ pc' = "hand"
<1>1. /\ plan \in Seq(Motions) /\ Len(plan) \in Nat /\ k \in Nat /\ k > 0
  BY DEF TypeOK, Trapezoids
<1>2. CASE k <= Len(plan)
  <2> DEFINE b == plan[k]
  <2>1. k \in 1 .. Len(plan) /\ b \in Motions
        /\ (k < Len(plan) => plan[k + 1] \in Motions)
    BY <1>1, <1>2
  <2>2. pc' = "profile" /\ k' = k + 1
    BY <1>2 DEF Trapezoids
  <2>3. ASSUME NEW y \in Nat,
               plan' = [plan EXCEPT ![k] = [Profile(@, @.entry, y)
                                              EXCEPT !.redo = FALSE]]
        PROVE  /\ Changed(plan, plan', k)
               /\ Fixed(b, plan'[k]) /\ plan'[k].entry = b.entry
               /\ plan'[k].flag = b.flag
               /\ Shaped(plan'[k], plan'[k].entry, y)
    <3> DEFINE p == Profile(b, b.entry, y)
               c == [p EXCEPT !.redo = FALSE]
    <3>1. b.entry \in Nat
      BY <2>1, Numbers
    <3>2. /\ p \in Motions /\ Shaped(p, b.entry, y) /\ Fixed(p, b)
          /\ p.entry = b.entry /\ p.flag = b.flag
      BY <2>1, <3>1, ProfileFields
    <3>3. plan' = [plan EXCEPT ![k] = c]
      BY <2>3
    <3> HIDE DEF p, b
    <3>4. c \in Motions /\ Fixed(p, c) /\ SameProfile(p, c)
          /\ c.entry = p.entry /\ c.flag = p.flag
      BY <3>2 DEF Motions, Fixed, SameProfile
    <3> HIDE DEF c
    <3>5. Shaped(c, b.entry, y)
      BY <3>2, <3>4 DEF Shaped, Profile, Fixed, SameProfile
    <3>6. Changed(plan, plan', k) /\ plan'[k] = c
      BY <1>1, <2>1, <3>3, <3>4, Entries
    <3> QED
      BY <3>2, <3>4, <3>5, <3>6 DEF Fixed
  <2>4. CASE k = Len(plan)
    <3>1. plan' = [plan EXCEPT ![k] = [Profile(@, @.entry, Slowest)
                                         EXCEPT !.redo = FALSE]]
      BY <1>2, <2>4 DEF Trapezoids
    <3>2. Slowest \in Nat
      BY DEF Slowest
    <3> QED
      BY <2>1, <2>2, <2>3, <2>4, <3>1, <3>2 DEF Redone
  <2>5. CASE k # Len(plan) /\ (plan[k].redo \/ plan[k + 1].redo)
    <3>1. plan' = [plan EXCEPT ![k] = [Profile(@, @.entry, plan[k + 1].entry)
                                         EXCEPT !.redo = FALSE]]
      BY <1>2, <2>5 DEF Trapezoids
    <3>2. k < Len(plan) /\ plan[k + 1].entry \in Nat
      BY <1>1, <1>2, <2>1, <2>5, Numbers
    <3> QED
      BY <2>1, <2>2, <2>3, <3>1, <3>2 DEF Redone
  <2>6. CASE k # Len(plan) /\ ~(plan[k].redo \/ plan[k + 1].redo)
    <3>1. plan' = plan /\ k < Len(plan)
      BY <1>1, <1>2, <2>6 DEF Trapezoids
    <3> QED
      BY <1>1, <2>1, <2>2, <2>6, <3>1 DEF Redone, Changed, Fixed
  <2> QED
    BY <2>4, <2>5, <2>6
<1>3. CASE ~(k <= Len(plan))
  BY <1>1, <1>3 DEF Trapezoids
<1> QED
  BY <1>2, <1>3

-----------------------------------------------------------------------------
(* Types.                                                                  *)

LEMMA StillMotion == Still \in Motions
  BY DEF Still, Motions

(* The block stepPlanner_inputMotion makes.                                *)
Block(m, jerk) ==
    [Still EXCEPT !.nominal = m.nominal, !.reach = m.reach,
       !.ends = m.ends, !.jerk = jerk, !.entry = Least(jerk, m.ends + m.reach),
       !.flag = (Least(jerk + m.reach, m.nominal) = m.nominal
                 /\ m.nominal <= m.ends + m.reach),
       !.redo = TRUE]

LEMMA BlockFields ==
  ASSUME NEW m \in Motion, NEW jerk \in Nat
  PROVE  LET b == Block(m, jerk)
         IN  /\ b \in Motions
             /\ b.nominal = m.nominal /\ b.reach = m.reach /\ b.ends = m.ends
             /\ b.jerk = jerk /\ b.entry = Least(jerk, m.ends + m.reach)
             /\ b.redo
             /\ b.flag <=> /\ Least(jerk + m.reach, m.nominal) = m.nominal
                           /\ m.nominal <= m.ends + m.reach
<1> DEFINE entry == Least(jerk, m.ends + m.reach)
           flag == (Least(jerk + m.reach, m.nominal) = m.nominal
                    /\ m.nominal <= m.ends + m.reach)
<1>1. entry \in Nat
  BY Constants DEF Least
<1>2. flag \in BOOLEAN
  OBVIOUS
<1>3. m.nominal \in Nat /\ m.reach \in Nat /\ m.ends \in Nat
  BY Constants
<1>4. Block(m, jerk) = [Still EXCEPT !.nominal = m.nominal, !.reach = m.reach,
        !.ends = m.ends, !.jerk = jerk, !.entry = entry, !.flag = flag,
        !.redo = TRUE]
  BY DEF Block
<1> HIDE DEF entry, flag
<1>5. /\ Block(m, jerk) \in Motions
      /\ Block(m, jerk).nominal = m.nominal /\ Block(m, jerk).reach = m.reach
      /\ Block(m, jerk).ends = m.ends /\ Block(m, jerk).jerk = jerk
      /\ Block(m, jerk).entry = entry
      /\ Block(m, jerk).redo /\ Block(m, jerk).flag = flag
  <2>1. Block(m, jerk) =
          [nominal |-> m.nominal, reach |-> m.reach, ends |-> m.ends,
           jerk |-> jerk, entry |-> entry, flag |-> flag, redo |-> TRUE,
           in |-> 0, out |-> 0, up |-> 0, down |-> 0]
    BY <1>4 DEF Still
  <2>2. Block(m, jerk) \in Motions
    BY <1>1, <1>2, <1>3, <2>1 DEF Motions
  <2> QED
    BY <2>1, <2>2
<1> QED
  BY <1>5 DEF entry, flag

LEMMA PlanDoes ==
  ASSUME TypeOK, Plan
  PROVE  \E m \in Motion, j \in Junction :
           LET jerk == Jerk(m, j)
               b == Block(m, jerk)
           IN  /\ jerk \in Nat /\ b \in Motions
               /\ next' = Profile(b, b.entry, Least(m.ends, m.nominal))
               /\ next' \in Motions
               /\ prevExit' = Least(jerk + m.reach, m.nominal)
               /\ prevExit' \in Nat
<1>1. PICK m \in Motion, j \in Junction :
        LET jerk == Jerk(m, j)
        IN  /\ next' = Profile(Block(m, jerk), Least(jerk, m.ends + m.reach),
                               Least(m.ends, m.nominal))
            /\ prevExit' = Least(jerk + m.reach, m.nominal)
  BY DEF Plan, Block
<1> DEFINE jerk == Jerk(m, j)
           b == Block(m, jerk)
<1>2. jerk \in Nat
  BY JerkBounds DEF TypeOK
<1> HIDE DEF jerk
<1>3. b \in Motions /\ b.entry = Least(jerk, m.ends + m.reach)
  BY <1>2, BlockFields
<1>4. b.entry \in Nat /\ Least(m.ends, m.nominal) \in Nat
  BY <1>3, Numbers, Constants DEF Least
<1> HIDE DEF b
<1>5. next' = Profile(b, b.entry, Least(m.ends, m.nominal))
  BY <1>1, <1>3 DEF b, jerk
<1>6. next' \in Motions
  BY <1>3, <1>4, <1>5, ProfileFields
<1>7. /\ prevExit' = Least(jerk + m.reach, m.nominal)
      /\ prevExit' \in Nat
  BY <1>1, <1>2, Constants DEF Least, jerk
<1> QED
  BY <1>2, <1>3, <1>5, <1>6, <1>7 DEF b, jerk

LEMMA StepTyped == TypeOK /\ [Next]_vars => TypeOK'
<1> SUFFICES ASSUME TypeOK, [Next]_vars PROVE TypeOK'
  OBVIOUS
<1>1. /\ plan \in Seq(Motions) /\ Len(plan) \in Nat
      /\ tail \in 1 .. Len(plan) + 1 /\ tail \in Nat /\ k \in Nat
      /\ low \in Nat
      /\ Room \in Nat
  BY Constants DEF TypeOK
<1>2. CASE Plan
  <2>1. next' \in Motions /\ prevExit' \in Nat
    BY <1>2, PlanDoes
  <2>2. raced' \in BOOLEAN
    BY <1>2 DEF Plan
  <2> QED
    BY <1>2, <2>1, <2>2 DEF Plan, TypeOK, Waiting
<1>3. CASE Put
  <2>1. /\ plan' \in Seq(Motions) /\ Len(plan') = Len(plan) + 1
    BY <1>1, <1>3, Appended DEF Put, TypeOK
  <2>2. /\ tail' \in 1 .. Len(plan') + 1 /\ Waiting' <= Room
        /\ k' \in Nat /\ low' \in Nat /\ low' > 0 /\ k' < Len(plan')
        /\ pc' = "reverse"
    BY <1>1, <1>3, <2>1, Constants DEF Put, Waiting
  <2> QED
    BY <1>3, <2>1, <2>2 DEF Put, TypeOK
<1>4. CASE Reverse
  <2>1. /\ plan' \in Seq(Motions) /\ Len(plan') = Len(plan)
        /\ tail' = tail
        /\ \/ /\ pc' = "reverse" /\ k > low /\ k' = k - 1 /\ low' = low
              /\ k < Len(plan) /\ pc = "reverse"
           \/ pc' = "forward" /\ k' = tail /\ low' = tail
    BY <1>1, <1>4, ReverseDoes DEF Changed, Reverse, Keep
  <2>2. /\ pc' \in {"reverse", "forward"} /\ k' \in Nat /\ low' \in Nat
        /\ pc' = "reverse" => low' > 0 /\ k' < Len(plan')
        /\ pc' \in {"forward", "profile"} => k' > 0
    BY <1>1, <2>1 DEF TypeOK
  <2> QED
    BY <1>4, <2>1, <2>2 DEF Reverse, Keep, TypeOK, Waiting
<1>5. CASE Forward
  <2>1. /\ plan' \in Seq(Motions) /\ Len(plan') = Len(plan)
        /\ \/ pc' = "forward" /\ k' = k + 1
           \/ pc' = "profile" /\ k' = tail
    BY <1>1, <1>5, ForwardDoes DEF Changed
  <2>2. pc' \in {"forward", "profile"} /\ k' \in Nat /\ k' > 0
        /\ low' \in Nat
    BY <1>1, <1>5, <2>1 DEF Forward
  <2> QED
    BY <1>5, <2>1, <2>2 DEF Forward, Keep, TypeOK, Waiting
<1>6. CASE Trapezoids
  <2>1. /\ plan' \in Seq(Motions) /\ Len(plan') = Len(plan)
        /\ \/ pc' = "profile" /\ k' = k + 1
           \/ pc' = "hand" /\ k' = k
    BY <1>1, <1>6, TrapezoidsDoes DEF Changed, Trapezoids
  <2>2. /\ pc' \in {"profile", "hand"} /\ k' \in Nat /\ low' = low
        /\ pc' = "profile" => k' > 0
    BY <1>1, <1>6, <2>1 DEF Trapezoids
  <2> QED
    BY <1>6, <2>1, <2>2 DEF Trapezoids, Keep, TypeOK, Waiting
<1>7. ASSUME LoadTail, Waiting > 0
      PROVE  /\ current' \in Motions /\ from' \in Nat
             /\ tail' \in 1 .. Len(plan) + 1
             /\ Len(plan) - tail' + 1 <= Room
  <2>1. tail \in 1 .. Len(plan) /\ tail' = tail + 1
    BY <1>1, <1>7 DEF Waiting, LoadTail
  <2>2. current' \in Motions
    BY <1>1, <1>7, <2>1 DEF LoadTail
  <2>3. from' \in Nat
    BY <1>7, EndOfNat DEF LoadTail, TypeOK
  <2>4. Len(plan) - tail' + 1 <= Room
    BY <1>1, <2>1 DEF TypeOK, Waiting
  <2> QED
    BY <1>1, <2>1, <2>2, <2>3, <2>4
<1>8. CASE HandOff
  <2>1. CASE ~engine /\ Waiting > 0
    BY <1>1, <1>7, <1>8, <2>1 DEF HandOff, TypeOK, Waiting
  <2>2. CASE ~(~engine /\ Waiting > 0)
    BY <1>1, <1>8, <2>2 DEF HandOff, TypeOK, Waiting
  <2> QED
    BY <2>1, <2>2
<1>9. CASE ISRLoad
  <2>1. raced' \in BOOLEAN
    BY <1>9 DEF ISRLoad
  <2> QED
    BY <1>1, <1>7, <1>9, <2>1 DEF ISRLoad, TypeOK, Waiting
<1>10. CASE ISRDrain
  BY <1>10 DEF ISRDrain, TypeOK, Waiting
<1>11. CASE UNCHANGED vars
  BY <1>11 DEF vars, TypeOK, Waiting
<1> QED
  BY <1>2, <1>3, <1>4, <1>5, <1>6, <1>8, <1>9, <1>10, <1>11 DEF Next, Done

(* Every variable has its type and the passes stay within the plan         *)
(* (stepPlanner_inputMotion, planner_recalculate and loadNextMotion read   *)
(* the ring's slots by these indices).                                     *)
THEOREM PlannerTyped == Spec => []TypeOK
<1>1. Init => TypeOK
  <2> SUFFICES ASSUME Init PROVE TypeOK
    OBVIOUS
  <2>1. plan \in Seq(Motions) /\ Len(plan) = 0
    BY DEF Init
  <2>2. engine \in BOOLEAN /\ raced \in BOOLEAN
    BY Zenon DEF Init
  <2> QED
    BY <2>1, <2>2, StillMotion, Constants DEF Init, TypeOK, Waiting
<1> QED
  BY <1>1, StepTyped, PTL DEF Spec

-----------------------------------------------------------------------------
(* What holds whatever the interrupt does.                                 *)

(* The block between its planning and its slot.                            *)
New == pc = "put" =>
    /\ Planned(next) /\ CanBeLast(next) /\ Newest(next)
    /\ next.in = Most(next.entry, Floor) /\ next.redo
    /\ prevExit = Exit(next)
    /\ Len(plan) > 0 => Follows(plan[Len(plan)], next)

(* The engine can stop after the last motion.                              *)
Last == Len(plan) > 0 =>
    /\ CanBeLast(plan[Len(plan)])
    /\ pc # "put" => prevExit = Exit(plan[Len(plan)])

Chain == \A i \in 1 .. Len(plan) :
    /\ Planned(plan[i])
    /\ i < Len(plan) => Follows(plan[i], plan[i + 1])

Engine ==
    /\ engine => tail > 1 /\ current.ends = plan[tail - 1].ends
    /\ engine /\ Waiting = 0 => EndOf(current) <= 2 * Slow(current)
    /\ pc \in {"plan", "put"} /\ ~engine => Waiting = 0

Always == New /\ Last /\ Chain /\ Engine

LEMMA FollowsSame ==
  ASSUME NEW b \in Motions, NEW c \in Motions, NEW d \in Motions,
         NEW e \in Motions, Fixed(b, d), Fixed(c, e), Follows(b, c)
  PROVE  Follows(d, e)
  BY DEF Follows, Fixed, Exit

LEMMA PassKeeps ==
  ASSUME TypeOK, Always, Keep,
         pc \in {"reverse", "forward", "profile"},
         pc' \in {"reverse", "forward", "profile", "hand"},
         plan' \in Seq(Motions), Len(plan') = Len(plan),
         \A i \in 1 .. Len(plan) : Fixed(plan[i], plan'[i])
                                   /\ Planned(plan'[i]),
         Len(plan) > 0 => CanBeLast(plan'[Len(plan)])
  PROVE  Always'
<1>1. /\ plan \in Seq(Motions) /\ Len(plan) \in Nat
      /\ tail \in 1 .. Len(plan) + 1
      /\ UNCHANGED <<tail, engine, current, from, next, prevExit>>
  BY DEF TypeOK, Keep
<1>2. \A i \in 1 .. Len(plan) : plan[i] \in Motions /\ plan'[i] \in Motions
  BY <1>1
<1>3. New'
  BY DEF New
<1>4. Last'
  <2> SUFFICES ASSUME Len(plan) > 0
               PROVE  prevExit = Exit(plan'[Len(plan)])
    BY <1>1 DEF Last
  <2>1. Len(plan) \in 1 .. Len(plan)
    BY <1>1
  <2>2. prevExit = Exit(plan[Len(plan)])
    BY DEF Always, Last
  <2> QED
    BY <1>2, <2>1, <2>2, GivenSame
<1>5. Chain'
  <2> SUFFICES ASSUME NEW i \in 1 .. Len(plan), i < Len(plan)
               PROVE  Follows(plan'[i], plan'[i + 1])
    BY DEF Chain
  <2>1. i + 1 \in 1 .. Len(plan) /\ Follows(plan[i], plan[i + 1])
    BY <1>1 DEF Always, Chain
  <2> QED
    BY <1>2, <2>1, FollowsSame
<1>6. Engine'
  <2>1. engine => tail > 1 /\ current.ends = plan'[tail - 1].ends
    BY <1>1 DEF Always, Engine, Fixed
  <2>2. Waiting' = Waiting
    BY <1>1 DEF Waiting
  <2> QED
    BY <1>1, <2>1, <2>2 DEF Always, Engine
<1> QED
  BY <1>3, <1>4, <1>5, <1>6 DEF Always

LEMMA PassStill ==
  ASSUME TypeOK, Always, Keep, plan' = plan,
         pc \in {"reverse", "forward", "profile"},
         pc' \in {"reverse", "forward", "profile", "hand"}
  PROVE  Always'
<1>1. plan \in Seq(Motions)
  BY DEF TypeOK
<1>2. \A i \in 1 .. Len(plan) : Fixed(plan[i], plan'[i]) /\ Planned(plan'[i])
  BY DEF Always, Chain, Fixed
<1>3. Len(plan) > 0 => CanBeLast(plan'[Len(plan)])
  BY DEF Always, Last
<1> QED
  BY <1>1, <1>2, <1>3, PassKeeps

(* Only motion n is another, and it is not badly another.                  *)
LEMMA PassChanges ==
  ASSUME TypeOK, Always, Keep,
         pc \in {"reverse", "forward", "profile"},
         pc' \in {"reverse", "forward", "profile", "hand"},
         NEW n \in 1 .. Len(plan), Changed(plan, plan', n),
         Fixed(plan[n], plan'[n]),
         Base <= plan'[n].entry, plan'[n].entry <= plan[n].jerk,
         n = Len(plan) => CanBeLast(plan'[n])
  PROVE  Always'
<1>1. /\ plan \in Seq(Motions) /\ plan' \in Seq(Motions)
      /\ Len(plan) \in Nat /\ Len(plan') = Len(plan)
      /\ \A i \in 1 .. Len(plan) : i # n => plan'[i] = plan[i]
  BY DEF TypeOK, Changed
<1>2. \A i \in 1 .. Len(plan) : Planned(plan[i])
  BY DEF Always, Chain
<1>3. Planned(plan'[n])
  BY <1>2 DEF Planned, Fixed
<1>4. \A i \in 1 .. Len(plan) : Fixed(plan[i], plan'[i]) /\ Planned(plan'[i])
  BY <1>1, <1>2, <1>3 DEF Fixed
<1>5. Len(plan) > 0 => CanBeLast(plan'[Len(plan)])
  BY <1>1 DEF Always, Last
<1> QED
  BY <1>1, <1>4, <1>5, PassKeeps

LEMMA CanStillBeLast ==
  ASSUME NEW b \in Motions, NEW c \in Motions, Fixed(b, c),
         SameProfile(b, c), c.entry <= b.entry, CanBeLast(b)
  PROVE  CanBeLast(c)
<1>1. EndOf(c) = EndOf(b) /\ Slow(c) = Slow(b)
  BY DEF EndOf, Slow, Fixed, SameProfile
<1>2. c.entry <= c.ends + c.reach
  BY Numbers DEF CanBeLast, Fixed
<1> QED
  BY <1>1, <1>2 DEF CanBeLast

LEMMA ReverseAlways == TypeOK /\ Always /\ Reverse => Always'
<1> SUFFICES ASSUME TypeOK, Always, Reverse PROVE Always'
  OBVIOUS
<1>1. pc = "reverse" /\ Keep /\ plan \in Seq(Motions) /\ Len(plan) \in Nat
  BY DEF Reverse, TypeOK
<1>2. CASE plan' = plan /\ pc' = "forward"
  BY <1>1, <1>2, PassStill
<1>3. CASE /\ k \in 1 .. Len(plan) - 1 /\ pc' = "reverse"
           /\ Changed(plan, plan', k)
           /\ Turned(plan[k], plan'[k], plan[k + 1])
  <2>1. /\ k \in 1 .. Len(plan) /\ k + 1 \in 1 .. Len(plan)
        /\ plan[k] \in Motions /\ plan[k + 1] \in Motions /\ k # Len(plan)
    BY <1>1, <1>3
  <2>2. Planned(plan[k]) /\ Planned(plan[k + 1])
    BY <2>1 DEF Always, Chain
  <2>3. Base <= plan'[k].entry /\ plan'[k].entry <= plan[k].jerk
    <3> DEFINE b == plan[k]
               c == plan'[k]
               d == plan[k + 1]
    <3>1. /\ b.jerk \in Nat /\ b.entry \in Nat /\ b.reach \in Nat
          /\ d.entry \in Nat /\ Base \in Nat
      BY <2>1, Numbers, Constants
    <3>2. Base <= b.jerk /\ Base <= d.entry
      BY <2>2, <3>1 DEF Planned
    <3>3. c.entry = b.jerk \/ c.entry = Least(b.jerk, d.entry + b.reach)
      BY <1>3 DEF Turned
    <3> HIDE DEF b, c, d
    <3>4. Base <= c.entry /\ c.entry <= b.jerk
      BY <3>1, <3>2, <3>3 DEF Least
    <3> QED
      BY <3>4 DEF b, c
  <2>4. Fixed(plan[k], plan'[k])
    BY <1>3 DEF Turned
  <2> QED
    BY <1>1, <1>3, <2>1, <2>3, <2>4, PassChanges
<1> QED
  BY <1>2, <1>3, ReverseDoes

LEMMA ForwardAlways == TypeOK /\ Always /\ Forward => Always'
<1> SUFFICES ASSUME TypeOK, Always, Forward PROVE Always'
  OBVIOUS
<1>1. pc = "forward" /\ Keep /\ plan \in Seq(Motions) /\ Len(plan) \in Nat
  BY DEF Forward, TypeOK
<1>2. CASE plan' = plan /\ pc' = "profile"
  BY <1>1, <1>2, PassStill
<1>3. CASE /\ k \in 1 .. Len(plan) - 1 /\ pc' = "forward"
           /\ Changed(plan, plan', k + 1)
           /\ Passed(plan[k], plan[k + 1], plan'[k + 1])
  <2>1. /\ k \in 1 .. Len(plan) /\ k + 1 \in 1 .. Len(plan)
        /\ plan[k] \in Motions /\ plan[k + 1] \in Motions
        /\ plan'[k + 1] \in Motions
    BY <1>1, <1>3 DEF Changed
  <2>2. Planned(plan[k]) /\ Planned(plan[k + 1])
    BY <2>1 DEF Always, Chain
  <2>3. CASE plan'[k + 1] = plan[k + 1]
    <3>1. plan' = plan
      BY <1>1, <1>3, <2>3 DEF Changed
    <3> QED
      BY <1>1, <1>3, <3>1, PassStill
  <2>4. CASE /\ Fixed(plan[k + 1], plan'[k + 1])
             /\ SameProfile(plan[k + 1], plan'[k + 1])
             /\ plan'[k + 1].entry = plan[k].entry + plan[k].reach
             /\ plan'[k + 1].entry < plan[k + 1].entry
    <3>1. /\ plan[k].entry \in Nat /\ plan[k].reach \in Nat
          /\ plan[k + 1].entry \in Nat /\ plan[k + 1].jerk \in Nat
          /\ Base \in Nat
      BY <2>1, Numbers, Constants
    <3>2. Base <= plan[k].entry /\ plan[k + 1].entry <= plan[k + 1].jerk
      BY <2>2 DEF Planned
    <3>3. Base <= plan'[k + 1].entry /\ plan'[k + 1].entry <= plan[k + 1].jerk
      BY <2>4, <3>1, <3>2
    <3>4. k + 1 = Len(plan) => CanBeLast(plan'[k + 1])
      <4>1. k + 1 = Len(plan) => CanBeLast(plan[k + 1])
        BY <1>3 DEF Always, Last
      <4>2. plan'[k + 1].entry <= plan[k + 1].entry
        BY <2>4, <3>1
      <4> QED
        BY <2>1, <2>4, <4>1, <4>2, CanStillBeLast
    <3> QED
      BY <1>1, <1>3, <2>1, <2>4, <3>3, <3>4, PassChanges
  <2> QED
    BY <1>3, <2>3, <2>4 DEF Passed
<1> QED
  BY <1>2, <1>3, ForwardDoes

LEMMA TrapezoidsAlways == TypeOK /\ Always /\ Trapezoids => Always'
<1> SUFFICES ASSUME TypeOK, Always, Trapezoids PROVE Always'
  OBVIOUS
<1>1. pc = "profile" /\ Keep /\ plan \in Seq(Motions) /\ Len(plan) \in Nat
  BY DEF Trapezoids, TypeOK
<1>2. CASE plan' = plan /\ pc' = "hand"
  BY <1>1, <1>2, PassStill
<1>3. CASE /\ k \in 1 .. Len(plan) /\ pc' = "profile"
           /\ Changed(plan, plan', k) /\ Redone(plan, plan', k)
  <2> DEFINE b == plan[k]
             c == plan'[k]
  <2>1. b \in Motions /\ c \in Motions
    BY <1>1, <1>3 DEF Changed
  <2>2. Planned(b)
    BY <1>3 DEF Always, Chain
  <2>3. Fixed(b, c) /\ c.entry = b.entry
    BY <1>3 DEF Redone
  <2>4. Base <= c.entry /\ c.entry <= b.jerk
    BY <2>2, <2>3 DEF Planned
  <2>5. k = Len(plan) => CanBeLast(c)
    <3> SUFFICES ASSUME k = Len(plan) PROVE CanBeLast(c)
      OBVIOUS
    <3>1. CanBeLast(b) /\ Shaped(c, c.entry, Slowest)
      BY <1>1, <1>3 DEF Always, Last, Redone
    <3> HIDE DEF b, c
    <3>2. /\ c.nominal = b.nominal /\ c.reach = b.reach /\ c.ends = b.ends
          /\ 0 < b.nominal /\ 0 < b.reach /\ b.entry <= b.jerk
          /\ b.jerk <= b.nominal
      BY <2>2, <2>3 DEF Fixed, Planned
    <3>3. /\ c.entry \in Nat /\ c.ends \in Nat /\ Slowest \in Nat
          /\ Slowest <= c.ends
          /\ b.entry \in Nat /\ b.jerk \in Nat /\ b.nominal \in Nat
      BY <2>1, Numbers DEF Slowest
    <3>4. c.entry <= c.nominal /\ c.entry <= c.ends + c.reach
      BY <2>3, <3>1, <3>2, <3>3 DEF CanBeLast
    <3>5. EndOf(c) <= 2 * Slow(c)
      BY <2>1, <3>1, <3>2, <3>3, <3>4, EndStops
    <3> QED
      BY <3>4, <3>5 DEF CanBeLast
  <2> QED
    BY <1>1, <1>3, <2>3, <2>4, <2>5, PassChanges
<1> QED
  BY <1>2, <1>3, TrapezoidsDoes

LEMMA PlanMakesNew ==
  ASSUME TypeOK, Always, Plan
  PROVE  /\ New' /\ next' \in Motions
         /\ Waiting = 0 => next'.jerk <= next'.ends
<1>1. pc = "plan" /\ UNCHANGED plan /\ prevExit \in Nat
      /\ plan \in Seq(Motions) /\ Len(plan) \in Nat
  BY DEF Plan, TypeOK
<1>2. PICK m \in Motion, j \in Junction :
        LET jerk == Jerk(m, j)
            b == Block(m, jerk)
        IN  /\ jerk \in Nat /\ b \in Motions
            /\ next' = Profile(b, b.entry, Least(m.ends, m.nominal))
            /\ next' \in Motions
            /\ prevExit' = Least(jerk + m.reach, m.nominal)
  BY PlanDoes
<1> DEFINE J == Jerk(m, j)
           b == Block(m, J)
           y == Least(m.ends, m.nominal)
<1>3. /\ m.nominal \in Nat /\ m.nominal > 0 /\ m.reach \in Nat
      /\ m.reach > 0 /\ m.ends \in Nat /\ Base <= m.nominal /\ Base <= m.ends
      /\ m.ends <= Base + Spread /\ Base \in Nat /\ Spread \in Nat
  BY Constants
<1>4. /\ J \in Nat /\ Least(m.nominal, m.ends) <= J
      /\ J <= m.nominal /\ J <= Most(m.ends, prevExit)
      /\ Waiting = 0 => J <= m.ends
  BY <1>1, JerkBounds
<1> HIDE DEF J
<1>5. /\ b \in Motions
      /\ b.nominal = m.nominal /\ b.reach = m.reach /\ b.ends = m.ends
      /\ b.jerk = J /\ b.entry = Least(J, m.ends + m.reach)
      /\ b.redo
      /\ b.flag => /\ Least(J + m.reach, m.nominal) = m.nominal
                   /\ m.nominal <= m.ends + m.reach
  BY <1>4, BlockFields
<1>6. y \in Nat /\ y <= m.ends /\ b.entry \in Nat
  BY <1>3, <1>5, Numbers DEF Least
<1> HIDE DEF b, y
<1>7. /\ next' = Profile(b, b.entry, y) /\ next' \in Motions
      /\ prevExit' = Least(J + m.reach, m.nominal)
  BY <1>2 DEF b, y, J
<1>8. /\ Shaped(next', b.entry, y) /\ Fixed(next', b)
      /\ next'.entry = b.entry /\ next'.flag = b.flag /\ next'.redo = b.redo
      /\ next'.in = Most(b.entry, Floor)
  BY <1>5, <1>6, <1>7, ProfileFields
<1> DEFINE c == next'
<1>9. /\ c \in Motions /\ c.nominal = m.nominal /\ c.reach = m.reach
      /\ c.ends = m.ends /\ c.jerk = J
      /\ c.entry = Least(J, m.ends + m.reach)
      /\ c.flag => /\ Least(J + m.reach, m.nominal) = m.nominal
                   /\ m.nominal <= m.ends + m.reach
      /\ c.redo /\ c.in = Most(c.entry, Floor) /\ Shaped(c, c.entry, y)
  BY <1>5, <1>7, <1>8 DEF Fixed
<1> HIDE DEF c
<1>10. Exit(c) = Least(J + m.reach, m.nominal)
  BY <1>9 DEF Exit
<1>11. /\ c.entry \in Nat /\ Base <= c.entry /\ c.entry <= J
       /\ c.entry <= c.ends + c.reach
  BY <1>3, <1>4, <1>9 DEF Least
<1>12. Planned(c)
  BY <1>3, <1>4, <1>9, <1>11 DEF Planned
<1>13. CanBeLast(c)
  <2>1. c.entry <= c.nominal /\ y <= c.ends
    BY <1>3, <1>4, <1>6, <1>9, <1>11
  <2>2. EndOf(c) <= 2 * Slow(c)
    BY <1>3, <1>6, <1>9, <1>11, <2>1, EndStops
  <2> QED
    BY <1>11, <2>2 DEF CanBeLast
<1>14. Newest(c)
  <2>1. c.flag => Given(c)
    BY <1>3, <1>9, <1>10 DEF Given
  <2> QED
    BY <1>9, <2>1 DEF Newest
<1>15. Len(plan) > 0 => Follows(plan[Len(plan)], c)
  <2>1. Len(plan) > 0 => prevExit = Exit(plan[Len(plan)])
    BY <1>1 DEF Always, Last
  <2> QED
    BY <1>4, <1>9, <2>1 DEF Follows
<1>16. prevExit' = Exit(c)
  BY <1>7, <1>10
<1>17. c.jerk = J /\ c.ends = m.ends
  BY <1>9
<1> QED
  BY <1>1, <1>4, <1>7, <1>9, <1>12, <1>13, <1>14, <1>15, <1>16, <1>17
  DEF New, c

LEMMA LoadKeepsEngine ==
  ASSUME TypeOK, Always, LoadTail, Waiting > 0, engine', UNCHANGED plan
  PROVE  Engine'
<1>1. /\ plan \in Seq(Motions) /\ Len(plan) \in Nat
      /\ tail \in 1 .. Len(plan)
      /\ tail' = tail + 1 /\ current' = plan[tail]
  BY DEF TypeOK, LoadTail, Waiting
<1>2. tail' > 1 /\ current'.ends = plan'[tail' - 1].ends
  BY <1>1
<1>3. Waiting' = 0 => EndOf(current') <= 2 * Slow(current')
  <2> SUFFICES ASSUME Waiting' = 0 PROVE tail = Len(plan) /\ Len(plan) > 0
    BY <1>1 DEF Always, Last, CanBeLast
  <2> QED
    BY <1>1 DEF Waiting
<1> QED
  BY <1>2, <1>3 DEF Engine

LEMMA StepAlways == TypeOK /\ Always /\ [Next]_vars => Always'
<1> SUFFICES ASSUME TypeOK, Always, [Next]_vars PROVE Always'
  OBVIOUS
<1>1. /\ plan \in Seq(Motions) /\ Len(plan) \in Nat
      /\ tail \in 1 .. Len(plan) + 1
  BY DEF TypeOK
<1>2. CASE Plan
  <2>1. New'
    BY <1>2, PlanMakesNew
  <2>2. Last' /\ Chain'
    BY <1>2 DEF Plan, Always, Last, Chain
  <2>3. Engine'
    BY <1>2 DEF Plan, Always, Engine, Waiting
  <2> QED
    BY <2>1, <2>2, <2>3 DEF Always
<1>3. CASE Put
  <2> DEFINE n == Len(plan)
             q == Append(plan, next)
  <2>1. /\ plan' = q /\ pc = "put" /\ pc' = "reverse" /\ next \in Motions
        /\ UNCHANGED <<tail, engine, current, prevExit>>
    BY <1>3 DEF Put, TypeOK
  <2>2. /\ Len(q) = n + 1 /\ q[n + 1] = next
        /\ \A i \in 1 .. n : q[i] = plan[i]
    BY <1>1, <2>1, Appended
  <2>3. /\ Planned(next) /\ CanBeLast(next) /\ prevExit = Exit(next)
        /\ n > 0 => Follows(plan[n], next)
    BY <2>1 DEF Always, New
  <2> HIDE DEF q, n
  <2>4. n \in Nat /\ n = Len(plan)
    BY <1>1 DEF n
  <2>5. New'
    BY <2>1 DEF New
  <2>6. Last'
    BY <2>1, <2>2, <2>3 DEF Last
  <2>7. Chain'
    <3> SUFFICES ASSUME NEW i \in 1 .. n + 1
                 PROVE  /\ Planned(q[i])
                        /\ i < n + 1 => Follows(q[i], q[i + 1])
      BY <2>1, <2>2 DEF Chain
    <3>1. CASE i = n + 1
      BY <2>2, <2>3, <3>1
    <3>2. CASE i = n
      <4>1. i \in 1 .. n /\ n > 0 /\ Planned(plan[i])
        BY <2>4, <3>2 DEF Always, Chain
      <4> QED
        BY <2>2, <2>3, <3>2, <4>1
    <3>3. CASE i < n
      <4>1. i \in 1 .. n /\ i + 1 \in 1 .. n
        BY <2>4, <3>3
      <4>2. Planned(plan[i]) /\ Follows(plan[i], plan[i + 1])
        BY <2>4, <3>3, <4>1 DEF Always, Chain
      <4> QED
        BY <2>2, <4>1, <4>2
    <3> QED
      BY <2>4, <3>1, <3>2, <3>3
  <2>8. Engine'
    <3>1. engine => tail > 1 /\ current.ends = plan'[tail - 1].ends
      <4>1. tail > 1 => tail - 1 \in 1 .. n
        BY <1>1, <2>4
      <4> QED
        BY <2>1, <2>2, <4>1 DEF Always, Engine
    <3>2. Waiting' # 0
      BY <1>1, <2>1, <2>2, <2>4 DEF Waiting
    <3> QED
      BY <2>1, <3>1, <3>2 DEF Engine
  <2> QED
    BY <2>5, <2>6, <2>7, <2>8 DEF Always
<1>4. CASE Reverse
  BY <1>4, ReverseAlways
<1>5. CASE Forward
  BY <1>5, ForwardAlways
<1>6. CASE Trapezoids
  BY <1>6, TrapezoidsAlways
<1>7. CASE HandOff
  <2>1. New' /\ Last' /\ Chain'
    BY <1>7 DEF HandOff, Always, New, Last, Chain
  <2>2. CASE ~engine /\ Waiting > 0
    <3>1. LoadTail /\ engine' /\ UNCHANGED plan
      BY <1>7, <2>2 DEF HandOff
    <3> QED
      BY <2>1, <2>2, <3>1, LoadKeepsEngine DEF Always
  <2>3. CASE ~(~engine /\ Waiting > 0)
    <3>1. UNCHANGED <<plan, tail, engine, current>>
      BY <1>7, <2>3 DEF HandOff
    <3>2. Waiting \in Nat
      BY <1>1 DEF Waiting
    <3>3. Engine'
      BY <2>3, <3>1, <3>2 DEF Always, Engine, Waiting
    <3> QED
      BY <2>1, <3>3 DEF Always
  <2> QED
    BY <2>2, <2>3
<1>8. CASE ISRLoad
  <2>1. New' /\ Last' /\ Chain'
    BY <1>8 DEF ISRLoad, Always, New, Last, Chain
  <2>2. Engine'
    BY <1>8, LoadKeepsEngine DEF ISRLoad
  <2> QED
    BY <2>1, <2>2 DEF Always
<1>9. CASE ISRDrain
  BY <1>9 DEF ISRDrain, Always, New, Last, Chain, Engine, Waiting
<1>10. CASE UNCHANGED vars
  BY <1>10 DEF vars, Always, New, Last, Chain, Engine, Waiting
<1> QED
  BY <1>2, <1>3, <1>4, <1>5, <1>6, <1>7, <1>8, <1>9, <1>10 DEF Next, Done

-----------------------------------------------------------------------------
(* What holds unless the interrupt took a motion while it was planned.     *)

Places ==
    /\ pc = "reverse" => low = tail /\ tail - 1 <= k /\ k < Len(plan)
    /\ pc = "forward" => k \in tail .. Len(plan)
    /\ pc = "profile" => k \in tail .. Len(plan) + 1

Looked == IF pc = "reverse" THEN k ELSE Len(plan)
Settled == IF pc \in {"reverse", "forward"} THEN k ELSE Len(plan)
Slopes == Braked(plan, tail, Looked) /\ Gained(plan, tail, Settled)

(* When the backward pass is over, each motion can slow down.              *)
Slowing == pc # "reverse" => \A i \in tail .. Len(plan) : i < Len(plan) =>
    plan[i].entry <= plan[i + 1].entry + plan[i].reach + Spread

(* A motion has its profile, or it will be given one.                      *)
Pending(i) == pc \in {"reverse", "forward"} \/ (pc = "profile" /\ i >= k)
Profiles == \A i \in tail .. Len(plan) :
    /\ i < Len(plan) =>
         \/ Shaped(plan[i], plan[i].entry, plan[i + 1].entry)
         \/ Pending(i) /\ (plan[i].redo \/ plan[i + 1].redo)
    /\ i = tail \/ ~Pending(i) => plan[i].in = Most(plan[i].entry, Floor)

(* The motion executed joins the one before it and the next.               *)
Joins ==
    /\ engine /\ from = 0 => current.in <= Slow(current)
    /\ engine /\ from > 0 => tail > 2 /\ Smooth(from, plan[tail - 2], current)
    /\ engine /\ Waiting > 0 =>
         /\ Smooth(EndOf(current), current, plan[tail])
         /\ EndOf(current) = 0 => plan[tail].in <= Slow(plan[tail])
    /\ pc = "put" /\ Waiting = 0 => next.jerk <= next.ends
    /\ ~engine /\ Waiting > 0 =>
         Waiting = 1 /\ plan[tail].jerk <= plan[tail].ends

InTime == Places /\ Slopes /\ Slowing /\ Profiles /\ Joins

IInv == TypeOK /\ Always /\ (~raced => InTime)

LEMMA ShapedSame ==
  ASSUME NEW b \in Motions, NEW c \in Motions, NEW x, NEW y,
         Fixed(b, c), SameProfile(b, c), Shaped(b, x, y)
  PROVE  Shaped(c, x, y)
  BY DEF Shaped, Profile, Fixed, SameProfile

LEMMA SmoothSame ==
  ASSUME NEW v, NEW b \in Motions, NEW c \in Motions, NEW d \in Motions,
         NEW e \in Motions, b.ends = d.ends, c.ends = e.ends, c.in = e.in,
         Smooth(v, b, c)
  PROVE  Smooth(v, d, e)
  BY DEF Smooth, Slow

(* A plan ready to be executed: each motion joins the next.                *)
LEMMA PlanJoins ==
  ASSUME TypeOK, Always, InTime, pc \in {"plan", "put", "hand"},
         NEW i \in tail .. Len(plan), i < Len(plan)
  PROVE  /\ Smooth(EndOf(plan[i]), plan[i], plan[i + 1])
         /\ EndOf(plan[i]) = 0 => plan[i + 1].in <= Slow(plan[i + 1])
<1>1. /\ plan \in Seq(Motions) /\ Len(plan) \in Nat /\ tail \in Nat \ {0}
      /\ i \in 1 .. Len(plan) /\ i + 1 \in 1 .. Len(plan)
      /\ i + 1 \in tail .. Len(plan)
  BY DEF TypeOK
<1>2. plan[i] \in Motions /\ plan[i + 1] \in Motions
  BY <1>1
<1>3. /\ Planned(plan[i]) /\ Planned(plan[i + 1])
      /\ Follows(plan[i], plan[i + 1])
  BY <1>1 DEF Always, Chain
<1>4. ~Pending(i) /\ ~Pending(i + 1)
  BY DEF Pending
<1>5. /\ Shaped(plan[i], plan[i].entry, plan[i + 1].entry)
      /\ plan[i + 1].in = Most(plan[i + 1].entry, Floor)
  BY <1>1, <1>4 DEF InTime, Profiles
<1>6. plan[i].entry <= plan[i + 1].entry + plan[i].reach + Spread
  BY DEF InTime, Slowing
<1>7. plan[i + 1].entry <= plan[i].entry + plan[i].reach + Spread
  <2>1. Gained(plan, tail, Len(plan))
    BY DEF InTime, Slopes, Settled
  <2> QED
    BY <1>1, <2>1, CanSpeedUp
<1> QED
  BY <1>2, <1>3, <1>5, <1>6, <1>7, EndJoins

(* A pass keeps the joins, as it does not touch how the next one begins.   *)
LEMMA PassJoins ==
  ASSUME TypeOK, Always, Joins, Keep, pc' # "put",
         plan' \in Seq(Motions), Len(plan') = Len(plan),
         \A i \in 1 .. Len(plan) : Fixed(plan[i], plan'[i]),
         tail <= Len(plan) => plan'[tail].in = plan[tail].in
  PROVE  Joins'
<1>1. /\ plan \in Seq(Motions) /\ Len(plan) \in Nat
      /\ tail \in 1 .. Len(plan) + 1 /\ current \in Motions
      /\ UNCHANGED <<tail, engine, current, from, next>>
      /\ Waiting' = Waiting
  BY DEF TypeOK, Keep, Waiting
<1>2. \A i \in 1 .. Len(plan) : plan[i] \in Motions /\ plan'[i] \in Motions
  BY <1>1
<1>3. engine /\ from > 0 => tail > 2 /\ Smooth(from, plan'[tail - 2], current)
  <2> SUFFICES ASSUME engine, from > 0
               PROVE  tail > 2 /\ Smooth(from, plan'[tail - 2], current)
    OBVIOUS
  <2>1. tail > 2 /\ Smooth(from, plan[tail - 2], current)
    BY DEF Joins
  <2>2. tail - 2 \in 1 .. Len(plan)
    BY <1>1, <2>1
  <2>3. plan'[tail - 2].ends = plan[tail - 2].ends
    BY <2>2 DEF Fixed
  <2> QED
    BY <1>1, <1>2, <2>1, <2>2, <2>3, SmoothSame
<1>4. engine /\ Waiting > 0 =>
         /\ Smooth(EndOf(current), current, plan'[tail])
         /\ EndOf(current) = 0 => plan'[tail].in <= Slow(plan'[tail])
  <2> SUFFICES ASSUME engine, Waiting > 0
               PROVE  /\ Smooth(EndOf(current), current, plan'[tail])
                      /\ EndOf(current) = 0 =>
                           plan'[tail].in <= Slow(plan'[tail])
    OBVIOUS
  <2>1. tail \in 1 .. Len(plan)
    BY <1>1 DEF Waiting
  <2>2. plan'[tail].ends = plan[tail].ends /\ plan'[tail].in = plan[tail].in
    BY <2>1 DEF Fixed
  <2>3. /\ Smooth(EndOf(current), current, plan[tail])
        /\ EndOf(current) = 0 => plan[tail].in <= Slow(plan[tail])
    BY DEF Joins
  <2>4. Smooth(EndOf(current), current, plan'[tail])
    BY <1>1, <1>2, <2>1, <2>2, <2>3, SmoothSame
  <2> QED
    BY <2>2, <2>3, <2>4 DEF Slow
<1>5. ~engine /\ Waiting > 0 =>
         Waiting = 1 /\ plan'[tail].jerk <= plan'[tail].ends
  <2> SUFFICES ASSUME ~engine, Waiting > 0
               PROVE  Waiting = 1 /\ plan'[tail].jerk <= plan'[tail].ends
    OBVIOUS
  <2>1. tail \in 1 .. Len(plan)
    BY <1>1 DEF Waiting
  <2> QED
    BY <2>1 DEF Joins, Fixed
<1> QED
  BY <1>1, <1>3, <1>4, <1>5 DEF Joins

LEMMA ChangedFixed ==
  ASSUME NEW p \in Seq(Motions), NEW q, NEW n \in 1 .. Len(p),
         Changed(p, q, n), Fixed(p[n], q[n])
  PROVE  /\ q \in Seq(Motions) /\ Len(q) = Len(p)
         /\ \A i \in 1 .. Len(p) : Fixed(p[i], q[i])
  BY DEF Changed, Fixed

LEMMA ReverseInTime == TypeOK /\ Always /\ InTime /\ Reverse => InTime'
<1> SUFFICES ASSUME TypeOK, Always, InTime, Reverse PROVE InTime'
  OBVIOUS
<1>1. /\ plan \in Seq(Motions) /\ Len(plan) \in Nat /\ tail \in Nat \ {0}
      /\ tail \in 1 .. Len(plan) + 1 /\ k \in Nat
      /\ pc = "reverse" /\ Keep /\ tail' = tail
      /\ low = tail /\ tail - 1 <= k /\ k < Len(plan)
      /\ Braked(plan, tail, k) /\ Gained(plan, tail, k)
  BY DEF TypeOK, Reverse, Keep, InTime, Places, Slopes, Looked, Settled
<1>2. CASE /\ k > low /\ k \in 1 .. Len(plan) - 1
           /\ Changed(plan, plan', k)
           /\ Turned(plan[k], plan'[k], plan[k + 1])
           /\ pc' = "reverse" /\ k' = k - 1 /\ low' = low
  <2>1. /\ k \in 1 .. Len(plan) /\ k + 1 \in 1 .. Len(plan)
        /\ k \in tail .. Len(plan) - 1 /\ k \in tail + 1 .. Len(plan) - 1
        /\ Planned(plan[k]) /\ Planned(plan[k + 1])
    BY <1>1, <1>2 DEF Always, Chain
  <2>2. /\ plan' \in Seq(Motions) /\ Len(plan') = Len(plan)
        /\ \A i \in 1 .. Len(plan) : /\ Fixed(plan[i], plan'[i])
                                     /\ i # k => plan'[i] = plan[i]
    BY <1>1, <1>2, <2>1, ChangedFixed DEF Turned, Changed
  <2>3. Places'
    BY <1>1, <1>2, <2>1, <2>2 DEF Places
  <2>4. Slopes'
    <3>1. Braked(plan', tail, k - 1)
      BY <1>1, <1>2, <2>1, <2>2, BrakedTurned
    <3>2. Gained(plan', tail, k - 1)
      BY <1>1, <1>2, <2>1, <2>2, GainedTurned
    <3> QED
      BY <1>1, <1>2, <3>1, <3>2 DEF Slopes, Looked, Settled
  <2>5. Slowing'
    BY <1>2 DEF Slowing
  <2>6. Profiles'
    <3> SUFFICES ASSUME NEW i \in tail .. Len(plan)
                 PROVE  /\ i < Len(plan) =>
                             \/ Shaped(plan'[i], plan'[i].entry,
                                       plan'[i + 1].entry)
                             \/ plan'[i].redo \/ plan'[i + 1].redo
                        /\ i = tail =>
                             plan'[i].in = Most(plan'[i].entry, Floor)
      BY <1>1, <1>2, <2>2 DEF Profiles, Pending
    <3>1. i = tail => plan'[i].in = Most(plan'[i].entry, Floor)
      BY <1>1, <1>2, <2>1, <2>2 DEF InTime, Profiles
    <3> SUFFICES ASSUME i < Len(plan)
                 PROVE  \/ Shaped(plan'[i], plan'[i].entry,
                                  plan'[i + 1].entry)
                        \/ plan'[i].redo \/ plan'[i + 1].redo
      BY <3>1
    <3>2. i \in 1 .. Len(plan) /\ i + 1 \in 1 .. Len(plan)
      BY <1>1
    <3>3. CASE plan'[k].redo /\ (i = k \/ i + 1 = k)
      BY <3>3
    <3>4. CASE i # k /\ i + 1 # k
      <4>1. plan'[i] = plan[i] /\ plan'[i + 1] = plan[i + 1]
        BY <2>2, <3>2, <3>4
      <4> QED
        BY <4>1 DEF InTime, Profiles
    <3>5. CASE /\ plan[k].entry = plan[k].jerk
               /\ plan'[k].entry = plan[k].entry
               /\ plan'[k].redo = plan[k].redo
      <4>1. \A n \in 1 .. Len(plan) :
              /\ plan'[n].entry = plan[n].entry
              /\ plan'[n].redo = plan[n].redo
              /\ Fixed(plan[n], plan'[n]) /\ SameProfile(plan[n], plan'[n])
              /\ plan[n] \in Motions /\ plan'[n] \in Motions
        BY <1>1, <1>2, <2>2, <3>5 DEF Turned, SameProfile
      <4>2. \/ Shaped(plan[i], plan[i].entry, plan[i + 1].entry)
            \/ plan[i].redo \/ plan[i + 1].redo
        BY DEF InTime, Profiles
      <4> QED
        BY <3>2, <4>1, <4>2, ShapedSame
    <3> QED
      BY <1>2, <3>3, <3>4, <3>5 DEF Turned
  <2>7. Joins'
    BY <1>1, <1>2, <2>1, <2>2, PassJoins DEF InTime
  <2> QED
    BY <2>3, <2>4, <2>5, <2>6, <2>7 DEF InTime
<1>3. CASE /\ ~(k > low /\ Len(plan) - low >= 2)
           /\ plan' = plan /\ pc' = "forward" /\ k' = tail /\ low' = tail
  <2>1. k <= tail
    BY <1>1, <1>3
  <2>2. Places'
    BY <1>1, <1>3 DEF Places
  <2>3. Slopes'
    BY <1>1, <1>3, PassTurns DEF Slopes, Looked, Settled
  <2>4. Slowing'
    <3> SUFFICES ASSUME NEW i \in tail .. Len(plan), i < Len(plan)
                 PROVE  plan[i].entry
                          <= plan[i + 1].entry + plan[i].reach + Spread
      BY <1>1, <1>3 DEF Slowing
    <3>1. k < i + 1
      BY <1>1, <2>1
    <3> QED
      BY <1>1, <3>1, CanSlowDown
  <2>5. Profiles'
    BY <1>1, <1>3 DEF InTime, Profiles, Pending
  <2>6. Joins'
    BY <1>3 DEF InTime, Joins, Reverse, Keep, Waiting
  <2> QED
    BY <2>2, <2>3, <2>4, <2>5, <2>6 DEF InTime
<1> QED
  BY <1>2, <1>3, ReverseDoes

LEMMA ForwardInTime == TypeOK /\ Always /\ InTime /\ Forward => InTime'
<1> SUFFICES ASSUME TypeOK, Always, InTime, Forward PROVE InTime'
  OBVIOUS
<1>1. /\ plan \in Seq(Motions) /\ Len(plan) \in Nat /\ tail \in Nat \ {0}
      /\ tail \in 1 .. Len(plan) + 1 /\ k \in Nat
      /\ pc = "forward" /\ Keep /\ tail' = tail
      /\ k \in tail .. Len(plan)
      /\ Braked(plan, tail, Len(plan)) /\ Gained(plan, tail, k)
  BY DEF TypeOK, Forward, Keep, InTime, Places, Slopes, Looked, Settled
<1>2. CASE /\ k \in 1 .. Len(plan) - 1
           /\ Changed(plan, plan', k + 1)
           /\ Passed(plan[k], plan[k + 1], plan'[k + 1])
           /\ pc' = "forward" /\ k' = k + 1
  <2> DEFINE m == k + 1
  <2>1. /\ k \in 1 .. Len(plan) /\ m \in 1 .. Len(plan)
        /\ k \in tail .. Len(plan) - 1 /\ m # tail
        /\ Planned(plan[k]) /\ Planned(plan[m])
        /\ Follows(plan[k], plan[m])
    BY <1>1, <1>2 DEF Always, Chain
  <2>2. /\ plan' \in Seq(Motions) /\ Len(plan') = Len(plan)
        /\ \A i \in 1 .. Len(plan) : /\ Fixed(plan[i], plan'[i])
                                     /\ i # m => plan'[i] = plan[i]
    <3>1. Fixed(plan[m], plan'[m])
      BY <1>2 DEF Passed, Fixed
    <3> QED
      BY <1>1, <1>2, <2>1, <3>1, ChangedFixed DEF Changed
  <2>3. \A i \in 1 .. Len(plan) : /\ plan[i] \in Motions
                                  /\ plan'[i] \in Motions
    BY <1>1, <2>2
  <2>4. /\ plan[m].entry \in Nat /\ plan[k].entry \in Nat
        /\ plan[k].reach \in Nat /\ plan'[m].entry \in Nat
        /\ Spread \in Nat
    BY <2>1, <2>3, Numbers, Constants
  <2>5. Places'
    BY <1>1, <1>2, <2>2 DEF Places
  <2>6. Slopes'
    <3>1. Lowered(plan, plan')
      <4>1. plan'[m].flag = plan[m].flag /\ plan'[m].entry <= plan[m].entry
        BY <1>2, <2>4 DEF Passed
      <4>2. ASSUME NEW i \in 1 .. Len(plan)
            PROVE  /\ plan'[i].flag = plan[i].flag
                   /\ plan'[i].entry <= plan[i].entry
        <5>1. CASE i = m
          BY <4>1, <5>1
        <5>2. CASE i # m
          BY <2>2, <2>3, <5>2, Numbers
        <5> QED
          BY <5>1, <5>2
      <4> QED
        BY <2>2, <4>2 DEF Lowered
    <3>2. Braked(plan', tail, Len(plan'))
      BY <1>1, <2>2, <3>1, BrakedLowered
    <3>3. Gained(plan', tail, k + 1)
      BY <1>1, <1>2, <2>1, <2>2, GainedPassed
    <3> QED
      BY <1>1, <1>2, <3>2, <3>3 DEF Slopes, Looked, Settled
  <2>7. Slowing'
    <3> SUFFICES ASSUME NEW i \in tail .. Len(plan), i < Len(plan)
                 PROVE  plan'[i].entry
                          <= plan'[i + 1].entry + plan'[i].reach + Spread
      BY <1>1, <1>2, <2>2 DEF Slowing
    <3>1. /\ i \in 1 .. Len(plan) /\ i + 1 \in 1 .. Len(plan)
      BY <1>1
    <3>2. /\ plan[i].entry \in Nat /\ plan[i + 1].entry \in Nat
          /\ plan[i].reach \in Nat /\ plan'[i].entry \in Nat
          /\ plan'[i + 1].entry \in Nat /\ plan'[i].reach = plan[i].reach
      <4>1. plan'[i].reach = plan[i].reach
        BY <2>2, <3>1 DEF Fixed
      <4> QED
        BY <2>3, <3>1, <4>1, Numbers
    <3>3. plan[i].entry <= plan[i + 1].entry + plan[i].reach + Spread
      BY <1>1 DEF InTime, Slowing
    <3>4. CASE i = k
      <4>1. \/ plan'[m] = plan[m]
            \/ plan'[m].entry = plan[k].entry + plan[k].reach
        BY <1>2 DEF Passed
      <4>2. plan'[k] = plan[k]
        BY <2>1, <2>2
      <4> QED
        BY SMTT(30), <2>4, <3>2, <3>3, <3>4, <4>1, <4>2
    <3>5. CASE i = m
      <4>1. plan'[m].entry <= plan[m].entry
        BY <1>2, <2>4 DEF Passed
      <4>2. plan'[i + 1] = plan[i + 1]
        BY <1>1, <2>1, <2>2, <3>1, <3>5
      <4> QED
        BY <2>4, <3>2, <3>3, <3>5, <4>1, <4>2
    <3>6. CASE i # k /\ i # m
      <4>1. plan'[i] = plan[i] /\ plan'[i + 1] = plan[i + 1]
        BY <1>1, <2>2, <3>1, <3>6
      <4> QED
        BY <3>3, <4>1
    <3> QED
      BY <3>4, <3>5, <3>6
  <2>8. Profiles'
    <3> SUFFICES ASSUME NEW i \in tail .. Len(plan)
                 PROVE  /\ i < Len(plan) =>
                             \/ Shaped(plan'[i], plan'[i].entry,
                                       plan'[i + 1].entry)
                             \/ plan'[i].redo \/ plan'[i + 1].redo
                        /\ i = tail =>
                             plan'[i].in = Most(plan'[i].entry, Floor)
      BY <1>1, <1>2, <2>2 DEF Profiles, Pending
    <3>1. i = tail => plan'[i].in = Most(plan'[i].entry, Floor)
      BY <1>1, <2>1, <2>2 DEF InTime, Profiles
    <3> SUFFICES ASSUME i < Len(plan)
                 PROVE  \/ Shaped(plan'[i], plan'[i].entry,
                                  plan'[i + 1].entry)
                        \/ plan'[i].redo \/ plan'[i + 1].redo
      BY <3>1
    <3>2. i \in 1 .. Len(plan) /\ i + 1 \in 1 .. Len(plan)
      BY <1>1
    <3>3. CASE plan'[m].redo /\ (i = m \/ i + 1 = m)
      BY <3>3
    <3>4. CASE i # m /\ i + 1 # m
      <4>1. plan'[i] = plan[i] /\ plan'[i + 1] = plan[i + 1]
        BY <2>2, <3>2, <3>4
      <4> QED
        BY <4>1 DEF InTime, Profiles
    <3>5. CASE plan'[m] = plan[m]
      <4>1. plan'[i] = plan[i] /\ plan'[i + 1] = plan[i + 1]
        BY <2>2, <3>2, <3>5
      <4> QED
        BY <4>1 DEF InTime, Profiles
    <3> QED
      BY <1>2, <3>3, <3>4, <3>5 DEF Passed
  <2>9. Joins'
    <3>1. tail <= Len(plan) => plan'[tail].in = plan[tail].in
      BY <1>1, <2>1, <2>2
    <3> QED
      BY <1>1, <1>2, <2>2, <3>1, PassJoins DEF InTime
  <2> QED
    BY <2>5, <2>6, <2>7, <2>8, <2>9 DEF InTime
<1>3. CASE /\ k >= Len(plan)
           /\ plan' = plan /\ pc' = "profile" /\ k' = tail
  <2>1. k = Len(plan)
    BY <1>1, <1>3
  <2>2. Places'
    BY <1>1, <1>3 DEF Places
  <2>3. Slopes'
    BY <1>1, <1>3, <2>1 DEF Slopes, Looked, Settled
  <2>4. Slowing'
    BY <1>1, <1>3 DEF InTime, Slowing
  <2>5. Profiles'
    BY <1>1, <1>3 DEF InTime, Profiles, Pending
  <2>6. Joins'
    BY <1>3 DEF InTime, Joins, Forward, Keep, Waiting
  <2> QED
    BY <2>2, <2>3, <2>4, <2>5, <2>6 DEF InTime
<1> QED
  BY <1>2, <1>3, ForwardDoes

LEMMA TrapezoidsInTime ==
  TypeOK /\ Always /\ InTime /\ Trapezoids => InTime'
<1> SUFFICES ASSUME TypeOK, Always, InTime, Trapezoids PROVE InTime'
  OBVIOUS
<1>1. /\ plan \in Seq(Motions) /\ Len(plan) \in Nat /\ tail \in Nat \ {0}
      /\ tail \in 1 .. Len(plan) + 1 /\ k \in Nat
      /\ pc = "profile" /\ Keep /\ tail' = tail
      /\ k \in tail .. Len(plan) + 1
      /\ Braked(plan, tail, Len(plan)) /\ Gained(plan, tail, Len(plan))
  BY DEF TypeOK, Trapezoids, Keep, InTime, Places, Slopes, Looked, Settled
<1>2. CASE /\ k \in 1 .. Len(plan)
           /\ Changed(plan, plan', k) /\ Redone(plan, plan', k)
           /\ pc' = "profile" /\ k' = k + 1
  <2>1. /\ plan' \in Seq(Motions) /\ Len(plan') = Len(plan)
        /\ \A i \in 1 .. Len(plan) : /\ Fixed(plan[i], plan'[i])
                                     /\ i # k => plan'[i] = plan[i]
    BY <1>1, <1>2, ChangedFixed DEF Redone, Changed
  <2>2. \A i \in 1 .. Len(plan) : /\ plan[i] \in Motions
                                  /\ plan'[i] \in Motions
    BY <1>1, <2>1
  <2>3. \A i \in 1 .. Len(plan) : /\ plan'[i].entry = plan[i].entry
                                  /\ plan'[i].flag = plan[i].flag
                                  /\ plan'[i].reach = plan[i].reach
    BY <1>2, <2>1 DEF Redone, Fixed
  <2>4. \A i \in 1 .. Len(plan) : plan[i].entry \in Nat
    BY <2>2, Numbers
  <2>5. Places'
    BY <1>1, <1>2, <2>1 DEF Places
  <2>6. Slopes'
    <3>1. Lowered(plan, plan')
      BY <2>1, <2>3, <2>4 DEF Lowered
    <3>2. Braked(plan', tail, Len(plan'))
      BY <1>1, <2>1, <3>1, BrakedLowered
    <3>3. Gained(plan', tail, Len(plan))
      BY <1>1, <2>1, <2>3, <3>1, GainedKept
    <3> QED
      BY <1>1, <1>2, <2>1, <3>2, <3>3 DEF Slopes, Looked, Settled
  <2>7. Slowing'
    <3> SUFFICES ASSUME NEW i \in tail .. Len(plan), i < Len(plan)
                 PROVE  plan'[i].entry
                          <= plan'[i + 1].entry + plan'[i].reach + Spread
      BY <1>1, <1>2, <2>1 DEF Slowing
    <3>1. /\ i \in 1 .. Len(plan) /\ i + 1 \in 1 .. Len(plan)
      BY <1>1
    <3>2. plan[i].entry <= plan[i + 1].entry + plan[i].reach + Spread
      BY <1>1 DEF InTime, Slowing
    <3> QED
      BY <2>3, <3>1, <3>2
  <2>8. ASSUME NEW i \in tail .. Len(plan)
        PROVE  /\ i < Len(plan) =>
                    \/ Shaped(plan'[i], plan'[i].entry, plan'[i + 1].entry)
                    \/ i >= k + 1 /\ (plan'[i].redo \/ plan'[i + 1].redo)
               /\ i = tail \/ ~(i >= k + 1) =>
                    plan'[i].in = Most(plan'[i].entry, Floor)
    <3>1. /\ i \in 1 .. Len(plan)
          /\ i < Len(plan) => i + 1 \in 1 .. Len(plan)
      BY <1>1
    <3>2. /\ i < Len(plan) =>
               \/ Shaped(plan[i], plan[i].entry, plan[i + 1].entry)
               \/ i >= k /\ (plan[i].redo \/ plan[i + 1].redo)
          /\ i = tail \/ ~(i >= k) => plan[i].in = Most(plan[i].entry, Floor)
      BY <1>1 DEF InTime, Profiles, Pending
    <3>3. CASE i = k
      <4> DEFINE c == plan'[k]
      <4>1. \/ /\ k = Len(plan) /\ Shaped(c, c.entry, Slowest)
            \/ /\ k < Len(plan) /\ Shaped(c, c.entry, plan[k + 1].entry)
            \/ /\ k < Len(plan) /\ c = plan[k]
               /\ Shaped(c, c.entry, plan[k + 1].entry)
        BY <1>2, <3>2, <3>3, <2>3, <3>1 DEF Redone
      <4>2. k < Len(plan) => plan'[k + 1] = plan[k + 1]
        BY <1>1, <2>1, <3>1, <3>3
      <4>3. c.in = Most(c.entry, Floor)
        BY <4>1 DEF Shaped, Profile
      <4> QED
        BY <3>3, <4>1, <4>2, <4>3
    <3>4. CASE i < k
      <4>1. /\ Shaped(plan[i], plan[i].entry, plan[i + 1].entry)
            /\ plan[i].in = Most(plan[i].entry, Floor)
            /\ plan'[i] = plan[i] /\ i < Len(plan)
        BY <1>1, <1>2, <2>1, <3>1, <3>2, <3>4
      <4>2. plan'[i + 1].entry = plan[i + 1].entry
        BY <2>3, <3>1, <4>1
      <4> QED
        BY <4>1, <4>2
    <3>5. CASE i > k
      <4>1. /\ plan'[i] = plan[i] /\ i >= k + 1 /\ i # tail
            /\ i < Len(plan) => plan'[i + 1] = plan[i + 1]
        BY <1>1, <2>1, <3>1, <3>5
      <4> QED
        BY <3>2, <4>1
    <3> QED
      BY <1>1, <3>3, <3>4, <3>5
  <2>9. Profiles'
    BY <1>1, <1>2, <2>1, <2>8 DEF Profiles, Pending
  <2>10. Joins'
    <3>1. tail <= Len(plan) => plan'[tail].in = plan[tail].in
      <4> SUFFICES ASSUME tail <= Len(plan)
                   PROVE  plan'[tail].in = plan[tail].in
        OBVIOUS
      <4>1. tail \in tail .. Len(plan) /\ tail \in 1 .. Len(plan)
        BY <1>1
      <4>2. plan'[tail].in = Most(plan'[tail].entry, Floor)
        BY <2>8, <4>1
      <4>3. plan[tail].in = Most(plan[tail].entry, Floor)
        BY <4>1 DEF InTime, Profiles
      <4> QED
        BY <2>3, <4>1, <4>2, <4>3
    <3> QED
      BY <1>1, <1>2, <2>1, <3>1, PassJoins DEF InTime
  <2> QED
    BY <2>5, <2>6, <2>7, <2>9, <2>10 DEF InTime
<1>3. CASE k > Len(plan) /\ plan' = plan /\ pc' = "hand"
  <2>1. Places'
    BY <1>3 DEF Places
  <2>2. Slopes'
    BY <1>1, <1>3 DEF Slopes, Looked, Settled
  <2>3. Slowing'
    BY <1>1, <1>3 DEF InTime, Slowing
  <2>4. Profiles'
    BY <1>1, <1>3 DEF InTime, Profiles, Pending
  <2>5. Joins'
    BY <1>3 DEF InTime, Joins, Trapezoids, Keep, Waiting
  <2> QED
    BY <2>1, <2>2, <2>3, <2>4, <2>5 DEF InTime
<1> QED
  BY <1>2, <1>3, TrapezoidsDoes

(* A new block: in time as before, or nothing moves and nothing waits.     *)
LEMMA PlanInTime ==
  ASSUME TypeOK, Always, ~raced => InTime, Plan, ~raced'
  PROVE  InTime'
<1>1. /\ plan \in Seq(Motions) /\ Len(plan) \in Nat /\ tail \in Nat \ {0}
      /\ tail \in 1 .. Len(plan) + 1
      /\ pc = "plan" /\ pc' = "put"
      /\ UNCHANGED <<plan, tail, engine, current, from, k, low>>
      /\ Waiting' = Waiting
  BY DEF TypeOK, Plan, Waiting
<1>2. Waiting = 0 => next'.jerk <= next'.ends
  BY PlanMakesNew
<1>3. CASE ~raced
  <2>1. InTime
    BY <1>3
  <2>2. Places' /\ Slopes' /\ Slowing' /\ Profiles'
    BY <1>1, <2>1
    DEF InTime, Places, Slopes, Looked, Settled, Slowing, Profiles, Pending
  <2>3. Joins'
    BY <1>1, <1>2, <2>1 DEF InTime, Joins
  <2> QED
    BY <2>2, <2>3 DEF InTime
<1>4. CASE ~engine /\ ~(Waiting > 0)
  <2>1. tail > Len(plan) /\ tail .. Len(plan) = {} /\ Waiting = 0
    BY <1>1, <1>4 DEF Waiting
  <2>2. Places' /\ Slowing' /\ Profiles'
    BY <1>1, <2>1 DEF Places, Slowing, Profiles
  <2>3. Slopes'
    BY <1>1, <2>1, NoneWait DEF Slopes, Looked, Settled
  <2>4. Joins'
    BY <1>1, <1>2, <1>4, <2>1 DEF Joins
  <2> QED
    BY <2>2, <2>3, <2>4 DEF InTime
<1> QED
  BY <1>3, <1>4 DEF Plan

LEMMA PutInTime == TypeOK /\ Always /\ InTime /\ Put => InTime'
<1> SUFFICES ASSUME TypeOK, Always, InTime, Put PROVE InTime'
  OBVIOUS
<1> DEFINE n == Len(plan)
           q == Append(plan, next)
<1>1. /\ plan \in Seq(Motions) /\ n \in Nat /\ tail \in Nat \ {0}
      /\ tail \in 1 .. n + 1 /\ next \in Motions /\ current \in Motions
      /\ pc = "put" /\ pc' = "reverse" /\ plan' = q
      /\ k' = n /\ low' = tail
      /\ UNCHANGED <<tail, engine, current, from, next>>
      /\ Braked(plan, tail, n) /\ Gained(plan, tail, n)
  BY DEF TypeOK, Put, InTime, Slopes, Looked, Settled
<1>2. /\ q \in Seq(Motions) /\ Len(q) = n + 1 /\ q[n + 1] = next
      /\ \A i \in 1 .. n : q[i] = plan[i]
  BY <1>1, Appended
<1>3. /\ Planned(next) /\ Newest(next) /\ next.redo
      /\ next.in = Most(next.entry, Floor)
  BY <1>1 DEF Always, New
<1>4. Slopes'
  <2>1. Braked(q, tail, n) /\ Gained(q, tail, n)
    BY <1>1, <1>3, BrakedAppended, GainedAppended
  <2> QED
    BY <1>1, <2>1 DEF Slopes, Looked, Settled
<1> HIDE DEF q
<1>5. Places'
  BY <1>1, <1>2 DEF Places
<1>6. Slowing'
  BY <1>1 DEF Slowing
<1>7. Profiles'
  <2> SUFFICES ASSUME NEW i \in tail .. n + 1
               PROVE  /\ i < n + 1 => \/ Shaped(q[i], q[i].entry,
                                                q[i + 1].entry)
                                      \/ q[i].redo \/ q[i + 1].redo
                      /\ i = tail => q[i].in = Most(q[i].entry, Floor)
    BY <1>1, <1>2 DEF Profiles, Pending
  <2>1. CASE i = n + 1
    BY <1>2, <1>3, <2>1
  <2>2. CASE i = n
    <3>1. i \in 1 .. n /\ i \in tail .. n
      BY <1>1, <2>2
    <3>2. i = tail => plan[i].in = Most(plan[i].entry, Floor)
      BY <3>1 DEF InTime, Profiles
    <3> QED
      BY <1>2, <1>3, <2>2, <3>1, <3>2
  <2>3. CASE i < n
    <3>1. i \in 1 .. n /\ i + 1 \in 1 .. n /\ i \in tail .. n
      BY <1>1, <2>3
    <3>2. /\ Shaped(plan[i], plan[i].entry, plan[i + 1].entry)
          /\ i = tail => plan[i].in = Most(plan[i].entry, Floor)
      BY <1>1, <2>3, <3>1 DEF InTime, Profiles, Pending
    <3> QED
      BY <1>2, <3>1, <3>2
  <2> QED
    BY <1>1, <2>1, <2>2, <2>3
<1>8. Joins'
  <2>1. /\ Waiting' = n + 1 - tail + 1 /\ Waiting' > 0
        /\ Waiting = n - tail + 1 /\ Waiting \in Nat
    BY <1>1, <1>2 DEF Waiting
  <2>2. engine /\ from = 0 => current.in <= Slow(current)
    BY DEF InTime, Joins
  <2>3. engine /\ from > 0 => tail > 2 /\ Smooth(from, q[tail - 2], current)
    <3> SUFFICES ASSUME engine, from > 0
                 PROVE  tail > 2 /\ Smooth(from, q[tail - 2], current)
      OBVIOUS
    <3>1. tail > 2 /\ Smooth(from, plan[tail - 2], current)
      BY DEF InTime, Joins
    <3>2. tail - 2 \in 1 .. n
      BY <1>1, <3>1
    <3> QED
      BY <1>2, <3>1, <3>2
  <2>4. engine => /\ Smooth(EndOf(current), current, q[tail])
                  /\ EndOf(current) = 0 => q[tail].in <= Slow(q[tail])
    <3> SUFFICES ASSUME engine
                 PROVE  /\ Smooth(EndOf(current), current, q[tail])
                        /\ EndOf(current) = 0 => q[tail].in <= Slow(q[tail])
      OBVIOUS
    <3>1. CASE Waiting > 0
      <4>1. tail \in 1 .. n
        BY <1>1, <2>1, <3>1
      <4> QED
        BY <1>2, <3>1, <4>1 DEF InTime, Joins
    <3>2. CASE Waiting = 0
      <4>1. tail = n + 1 /\ q[tail] = next
        BY <1>1, <1>2, <2>1, <3>2
      <4>2. next.jerk <= next.ends /\ EndOf(current) <= 2 * Slow(current)
        BY <1>1, <3>2 DEF InTime, Joins, Always, Engine
      <4>3. /\ next.entry \in Nat /\ next.jerk \in Nat /\ next.ends \in Nat
            /\ current.ends \in Nat /\ Floor \in Nat
            /\ EndOf(current) \in Nat /\ next.entry <= next.jerk
        BY <1>1, <1>3, Numbers, Constants, EndOfNat DEF Planned
      <4>4. next.in <= Slow(next) /\ Slow(next) \in Nat
            /\ Slow(current) \in Nat
        BY <1>3, <4>2, <4>3 DEF Slow, Most
      <4>5. LET slow == Most(Slow(current), Slow(next))
            IN  EndOf(current) <= 2 * slow /\ next.in <= slow
        <5>1. next.in \in Nat
          BY <1>1, Numbers
        <5> QED
          BY <4>2, <4>3, <4>4, <5>1 DEF Most
      <4> QED
        BY <4>1, <4>4, <4>5 DEF Smooth
    <3> QED
      BY <2>1, <3>1, <3>2
  <2>5. ~engine => Waiting' = 1 /\ q[tail].jerk <= q[tail].ends
    <3> SUFFICES ASSUME ~engine
                 PROVE  Waiting' = 1 /\ q[tail].jerk <= q[tail].ends
      OBVIOUS
    <3>1. Waiting = 0
      BY <1>1 DEF Always, Engine
    <3>2. tail = n + 1 /\ next.jerk <= next.ends
      BY <1>1, <2>1, <3>1 DEF InTime, Joins
    <3> QED
      BY <1>1, <1>2, <2>1, <3>2
  <2> QED
    BY <1>1, <2>1, <2>2, <2>3, <2>4, <2>5 DEF Joins
<1> QED
  BY <1>4, <1>5, <1>6, <1>7, <1>8 DEF InTime

(* A motion taken from a plan that is ready.                               *)
LEMMA LoadInTime ==
  ASSUME TypeOK, Always, InTime, LoadTail, Waiting > 0, engine',
         UNCHANGED <<plan, next>>,
         pc \in {"plan", "put", "hand"}, pc' \in {"plan", "put", "hand"},
         pc' = "put" => Waiting # 1
  PROVE  InTime'
<1>1. /\ plan \in Seq(Motions) /\ Len(plan) \in Nat /\ tail \in Nat \ {0}
      /\ tail \in 1 .. Len(plan) /\ tail \in tail .. Len(plan)
      /\ tail' = tail + 1 /\ current' = plan[tail]
      /\ from' = IF engine THEN EndOf(current) ELSE 0
      /\ plan' = plan /\ next' = next /\ current \in Motions
      /\ Waiting' = Waiting - 1 /\ Waiting \in Nat
      /\ Waiting = Len(plan) - tail + 1
      /\ tail' .. Len(plan) \subseteq tail .. Len(plan)
  BY DEF TypeOK, LoadTail, Waiting
<1>2. Places'
  BY DEF Places
<1>3. Slopes'
  <2>1. Braked(plan, tail, Len(plan)) /\ Gained(plan, tail, Len(plan))
    BY DEF InTime, Slopes, Looked, Settled
  <2>2. Braked(plan, tail + 1, Len(plan)) /\ Gained(plan, tail + 1, Len(plan))
    BY <1>1, <2>1, OneFewer
  <2> QED
    BY <1>1, <2>2 DEF Slopes, Looked, Settled
<1>4. Slowing'
  BY <1>1 DEF InTime, Slowing
<1>5. Profiles'
  BY <1>1 DEF InTime, Profiles, Pending
<1>6. Joins'
  <2>1. plan[tail] \in Motions
    BY <1>1
  <2>2. from' = 0 => current'.in <= Slow(current')
    <3>1. CASE engine
      BY <1>1, <3>1 DEF InTime, Joins
    <3>2. CASE ~engine
      <4>1. plan[tail].jerk <= plan[tail].ends
        BY <3>2 DEF InTime, Joins
      <4>2. plan[tail].in = Most(plan[tail].entry, Floor)
        BY <1>1 DEF InTime, Profiles
      <4>3. plan[tail].entry <= plan[tail].jerk
        BY <1>1 DEF Always, Chain, Planned
      <4>4. /\ plan[tail].entry \in Nat /\ plan[tail].jerk \in Nat
            /\ plan[tail].ends \in Nat /\ Floor \in Nat
        BY <2>1, Numbers, Constants
      <4> QED
        BY <1>1, <4>1, <4>2, <4>3, <4>4 DEF Slow, Most
    <3> QED
      BY <3>1, <3>2
  <2>3. from' > 0 => tail' > 2 /\ Smooth(from', plan[tail' - 2], current')
    <3> SUFFICES ASSUME from' > 0
                 PROVE  tail' > 2 /\ Smooth(from', plan[tail' - 2], current')
      OBVIOUS
    <3>1. engine /\ from' = EndOf(current)
      BY <1>1
    <3>2. Smooth(EndOf(current), current, plan[tail])
      BY <3>1 DEF InTime, Joins
    <3>3. tail > 1 /\ current.ends = plan[tail - 1].ends
      BY <3>1 DEF Always, Engine
    <3>4. tail - 1 \in 1 .. Len(plan)
      BY <1>1, <3>3
    <3>5. plan[tail - 1] \in Motions
      BY <1>1, <3>4
    <3>6. Smooth(EndOf(current), plan[tail - 1], plan[tail])
      BY <1>1, <2>1, <3>2, <3>3, <3>5, SmoothSame
    <3>7. tail' > 2 /\ tail' - 2 = tail - 1
      BY <1>1, <3>3
    <3> QED
      BY <1>1, <3>1, <3>6, <3>7
  <2>4. Waiting' > 0 =>
          /\ Smooth(EndOf(current'), current', plan[tail'])
          /\ EndOf(current') = 0 => plan[tail'].in <= Slow(plan[tail'])
    <3> SUFFICES ASSUME Waiting' > 0
                 PROVE  /\ Smooth(EndOf(plan[tail]), plan[tail],
                                  plan[tail + 1])
                        /\ EndOf(plan[tail]) = 0 =>
                             plan[tail + 1].in <= Slow(plan[tail + 1])
      BY <1>1
    <3>1. tail < Len(plan)
      BY <1>1
    <3> QED
      BY <1>1, <3>1, PlanJoins
  <2>5. pc' = "put" => Waiting' # 0
    BY <1>1
  <2> QED
    BY <1>1, <2>2, <2>3, <2>4, <2>5 DEF Joins
<1> QED
  BY <1>2, <1>3, <1>4, <1>5, <1>6 DEF InTime

LEMMA StepInTime ==
  ASSUME TypeOK, Always, ~raced => InTime, [Next]_vars
  PROVE  ~raced' => InTime'
<1> SUFFICES ASSUME ~raced' PROVE InTime'
  OBVIOUS
<1>1. CASE Plan
  BY <1>1, PlanInTime
<1>2. CASE Put
  BY <1>2, PutInTime DEF Put
<1>3. CASE Reverse
  BY <1>3, ReverseInTime DEF Reverse, Keep
<1>4. CASE Forward
  BY <1>4, ForwardInTime DEF Forward, Keep
<1>5. CASE Trapezoids
  BY <1>5, TrapezoidsInTime DEF Trapezoids, Keep
<1>6. CASE HandOff
  <2>1. InTime /\ pc = "hand" /\ pc' = "plan" /\ UNCHANGED <<plan, next>>
    BY <1>6 DEF HandOff
  <2>2. CASE ~engine /\ Waiting > 0
    BY <1>6, <2>1, <2>2, LoadInTime DEF HandOff
  <2>3. CASE ~(~engine /\ Waiting > 0)
    <3>1. UNCHANGED <<plan, next, tail, engine, current, from>>
      BY <1>6, <2>3 DEF HandOff
    <3>2. Places' /\ Slopes' /\ Slowing' /\ Profiles'
      BY <2>1, <3>1
      DEF InTime, Places, Slopes, Looked, Settled, Slowing, Profiles, Pending
    <3>3. Joins'
      BY <2>1, <3>1 DEF InTime, Joins, Waiting
    <3> QED
      BY <3>2, <3>3 DEF InTime
  <2> QED
    BY <2>2, <2>3
<1>7. CASE ISRLoad
  <2>1. /\ InTime /\ LoadTail /\ Waiting > 0 /\ engine /\ engine' = engine
        /\ UNCHANGED <<plan, next>> /\ pc' = pc
        /\ pc \notin {"reverse", "forward", "profile"}
        /\ pc = "put" => Waiting # 1
    BY <1>7 DEF ISRLoad
  <2>2. pc \in {"plan", "put", "hand"}
    BY <2>1 DEF TypeOK
  <2> QED
    BY <2>1, <2>2, LoadInTime
<1>8. CASE ISRDrain
  <2>1. /\ InTime /\ ~engine' /\ Waiting' = Waiting /\ Waiting = 0
        /\ UNCHANGED <<plan, tail, current, from, next, prevExit, pc, k, low>>
    BY <1>8 DEF ISRDrain, Waiting
  <2>2. Places' /\ Slopes' /\ Slowing' /\ Profiles'
    BY <2>1
    DEF InTime, Places, Slopes, Looked, Settled, Slowing, Profiles, Pending
  <2>3. Joins'
    BY <2>1 DEF InTime, Joins
  <2> QED
    BY <2>2, <2>3 DEF InTime
<1>9. CASE UNCHANGED vars
  <2>1. InTime
    BY <1>9 DEF vars
  <2>2. Places' /\ Slopes' /\ Slowing' /\ Profiles'
    BY <1>9, <2>1 DEF vars,
      InTime, Places, Slopes, Looked, Settled, Slowing, Profiles, Pending
  <2>3. Joins'
    BY <1>9, <2>1 DEF vars, InTime, Joins, Waiting
  <2> QED
    BY <2>2, <2>3 DEF InTime
<1> QED
  BY <1>1, <1>2, <1>3, <1>4, <1>5, <1>6, <1>7, <1>8, <1>9 DEF Next, Done

-----------------------------------------------------------------------------
(* The properties.                                                         *)

LEMMA StartsIn == Init => IInv
<1> SUFFICES ASSUME Init PROVE IInv
  OBVIOUS
<1>1. /\ plan = <<>> /\ Len(plan) = 0 /\ tail = 1 /\ ~engine
      /\ pc = "plan" /\ Waiting = 0 /\ plan \in Seq(Motions)
      /\ tail .. Len(plan) = {} /\ 1 .. Len(plan) = {}
      /\ tail \in Nat \ {0} /\ tail > Len(plan)
  BY DEF Init, Waiting
<1>2. TypeOK
  <2>1. engine \in BOOLEAN /\ raced \in BOOLEAN
    BY Zenon DEF Init
  <2> QED
    BY <1>1, <2>1, StillMotion, Constants DEF Init, TypeOK
<1>3. Always
  BY <1>1 DEF Always, New, Last, Chain, Engine
<1>4. InTime
  <2>1. Slopes
    BY <1>1, NoneWait DEF Slopes
  <2> QED
    BY <1>1, <2>1 DEF InTime, Places, Slowing, Profiles, Joins
<1> QED
  BY <1>2, <1>3, <1>4 DEF IInv

LEMMA StaysIn == IInv /\ [Next]_vars => IInv'
  BY StepTyped, StepAlways, StepInTime DEF IInv

LEMMA Holds == Spec => []IInv
  BY StartsIn, StaysIn, PTL DEF Spec

(* What the motors are made to do: from motion to motion the speed does    *)
(* not jump, the engine starts slowly and never runs dry at a fast speed   *)
(* (libPlanner.c:262-264), for every set of motions and of limits at their *)
(* junctions.                                                              *)
THEOREM PlannerJoins == Spec => []SpeedJoins
<1>1. IInv => SpeedJoins
  <2> SUFFICES ASSUME IInv, engine
               PROVE  /\ \/ raced
                         \/ from = 0 /\ current.in <= Slow(current)
                         \/ from > 0 /\ Smooth(from, plan[tail - 2], current)
                      /\ Waiting = 0 => EndOf(current) <= 2 * Slow(current)
    BY DEF SpeedJoins
  <2>1. Waiting = 0 => EndOf(current) <= 2 * Slow(current)
    BY DEF IInv, Always, Engine
  <2>2. from = 0 \/ from > 0
    BY DEF IInv, TypeOK
  <2> QED
    BY <2>1, <2>2 DEF IInv, InTime, Joins
<1> QED
  BY <1>1, Holds, PTL

(* After a recalculation no motion begins faster than its junction allows, *)
(* and each one can reach with the one acceleration the speed at which the *)
(* next begins (libPlanner.c:253-260), unless the interrupt took a motion  *)
(* while the plan was made.                                                *)
THEOREM PlannerFeasible == Spec => []PlanFeasible
<1>1. IInv => PlanFeasible
  <2> SUFFICES ASSUME IInv, pc = "plan", ~raced, NEW i \in tail .. Len(plan)
               PROVE  /\ plan[i].entry <= plan[i].jerk
                      /\ i < Len(plan) =>
                           Smooth(EndOf(plan[i]), plan[i], plan[i + 1])
    BY DEF PlanFeasible
  <2>1. i \in 1 .. Len(plan)
    BY DEF IInv, TypeOK
  <2>2. plan[i].entry <= plan[i].jerk
    BY <2>1 DEF IInv, Always, Chain, Planned
  <2>3. i < Len(plan) => Smooth(EndOf(plan[i]), plan[i], plan[i + 1])
    BY PlanJoins DEF IInv
  <2> QED
    BY <2>2, <2>3
<1> QED
  BY <1>1, Holds, PTL
=============================================================================
