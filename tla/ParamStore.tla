----------------------------- MODULE ParamStore -----------------------------
(***************************************************************************)
(* The printer's parameters: lib/param/param.c, called by the display      *)
(* (screen_config_sub.c) and by the G-code thread (M591, M995-M998).       *)
(* paramRam is in force, paramRom is the copy of what the file is thought  *)
(* to hold, and the file is on a card that may be pulled or lose power.    *)
(*                                                                         *)
(* A set of parameters is <<version, offset, checksum>>: the offset stands *)
(* for what can be changed, a checksum is right when it is that of the two *)
(* others.  The file is a prefix of one: a write may be cut short.         *)
(*                                                                         *)
(* Interleaving.  Nothing is locked: a save or a load is a sequence of     *)
(* steps, the other caller comes between any two, power fails at any time. *)
(* The card is external.  The histories promise, spoilt and clean are read *)
(* by no guard.                                                            *)
(***************************************************************************)
EXTENDS Integers, Sequences

CONSTANTS Offset,       \* values of the offset
          MaxCall       \* bound: calls and changes in a behaviour

ASSUME OffsetAssumption == 0 \in Offset /\ Offset \subseteq Int
ASSUME BoundAssumption == MaxCall \in Nat

Version == 13           \* PARAM_VERSION
Older == 12
CalcChecksum(p) == -1 - (p[1] + p[2])      \* ~ of the sum
Image(version, offset) ==
    <<version, offset, CalcChecksum(<<version, offset>>)>>
Zero == <<0, 0, 0>>     \* paramRam and paramRom at power-up
Missing == <<-1>>       \* no file

VARIABLES
    ram, rom,           \* paramRam, paramRom
    file,               \* external: what the card holds
    at,                 \* each caller's place
    calls,              \* calls and changes so far
    promise,            \* history: the offset last reported saved, if any
    spoilt,             \* history: why the file may not be as promised
    clean               \* history: callers nobody has come between so far

vars == <<ram, rom, file, at, calls, promise, spoilt, clean>>

Caller == {"hmi", "gcode"}
Other(p) == CHOOSE q \in Caller : q # p

CheckValid(p) == p[3] = CalcChecksum(p) /\ p[1] = Version

\* dfs_file_read into p: a short file leaves the rest of p as it was.
Read(p, f) == f \o SubSeq(p, Len(f) + 1, 3)

Reset == Image(Version, 0)

(* param_init: at power-up, before the threads exist.                      *)
Started(f) ==
    /\ rom' = IF f = Missing THEN Zero ELSE Read(Zero, f)
    /\ ram' = IF f # Missing /\ CheckValid(rom') THEN rom' ELSE Reset

Init ==
    /\ file \in {Missing, Image(Older, 0)}
               \cup {Image(Version, o) : o \in Offset}
    /\ rom = IF file = Missing THEN Zero ELSE file
    /\ ram = IF file # Missing /\ CheckValid(rom) THEN rom ELSE Reset
    /\ at = [p \in Caller |-> "rest"] /\ calls = 0
    /\ promise = {} /\ spoilt = {} /\ clean = {}

Go(p, place) == at' = [at EXCEPT ![p] = place]

\* p calls: the other's call, if there is one, is not alone any more.
Enter(p) ==
    /\ at[p] = "rest" /\ calls < MaxCall
    /\ calls' = calls + 1
    /\ clean' = IF at[Other(p)] = "rest" THEN {p} ELSE {}
    /\ spoilt' = IF at[Other(p)] = "rest" THEN spoilt
                 ELSE spoilt \cup {"mixed"}

-----------------------------------------------------------------------------
\* The display's offset buttons, M591.
Change(p, o) ==
    /\ Enter(p)
    /\ ram' = [ram EXCEPT ![2] = o]
    /\ UNCHANGED <<rom, file, at, promise>>

\* param_reset.
ResetRam(p) ==
    /\ Enter(p)
    /\ ram' = Reset
    /\ UNCHANGED <<rom, file, at, promise>>

-----------------------------------------------------------------------------
(* param_save: the checksum, the comparison (without it), the copy, and    *)
(* param_saveRom: open, which empties the file, and write, whose result is *)
(* not looked at.                                                          *)
Save(p) ==
    /\ Enter(p)
    /\ ram' = [ram EXCEPT ![3] = CalcChecksum(ram)]
    /\ Go(p, "compare")
    /\ UNCHANGED <<rom, file, promise>>

\* Mutants, here and below, stand before the definition they replace.
SameVersion(p, q) == p[1] = q[1]        \* one word is compared

Same(p, q) == p[1] = q[1] /\ p[2] = q[2]

Compare(p) ==
    /\ at[p] = "compare"
    /\ IF Same(rom, ram)
       THEN Go(p, "rest") /\ promise' = {ram[2]}
       ELSE Go(p, "copy") /\ UNCHANGED promise
    /\ UNCHANGED <<ram, rom, file, calls, spoilt, clean>>

Copy(p) ==
    /\ at[p] = "copy"
    /\ rom' = ram
    /\ Go(p, "open")
    /\ UNCHANGED <<ram, file, calls, promise, spoilt, clean>>

Open(p) ==
    /\ at[p] = "open"
    /\ file' = <<>>
    /\ Go(p, "write")
    /\ UNCHANGED <<ram, rom, calls, promise, spoilt, clean>>

\* The save is reported as failed; rom holds what was not written.
OpenFails(p) ==
    /\ at[p] = "open"
    /\ Go(p, "rest")
    /\ spoilt' = spoilt \cup {"unopened"}
    /\ UNCHANGED <<ram, rom, file, calls, promise, clean>>

Write(p) ==
    /\ at[p] = "write"
    /\ \E n \in 0 .. 3 :
         /\ file' = SubSeq(rom, 1, n)
         /\ spoilt' = IF n < 3 THEN spoilt \cup {"short"}
                      ELSE IF p \in clean /\ CheckValid(rom) THEN {}
                      ELSE spoilt
    /\ promise' = {rom[2]}
    /\ Go(p, "rest")
    /\ UNCHANGED <<ram, rom, calls, clean>>

-----------------------------------------------------------------------------
(* param_load.                                                             *)
Load(p) ==
    /\ Enter(p)
    /\ IF file = Missing
       THEN UNCHANGED <<rom, at>>
       ELSE rom' = Read(rom, file) /\ Go(p, "check")
    /\ UNCHANGED <<ram, file, promise>>

LoadFails(p) ==
    /\ Enter(p)
    /\ UNCHANGED <<ram, rom, file, at, promise>>

CheckSkipped(p) ==      \* the result of CheckValid is not looked at
    /\ at[p] = "check"
    /\ Go(p, "take")
    /\ UNCHANGED <<ram, rom, file, calls, promise, spoilt, clean>>

Check(p) ==
    /\ at[p] = "check"
    /\ Go(p, IF CheckValid(rom) THEN "take" ELSE "rest")
    /\ UNCHANGED <<ram, rom, file, calls, promise, spoilt, clean>>

Take(p) ==
    /\ at[p] = "take"
    /\ ram' = rom
    /\ Go(p, "rest")
    /\ UNCHANGED <<rom, file, calls, promise, spoilt, clean>>

-----------------------------------------------------------------------------
(* Power fails, or M998: the file is all that is left.                     *)
Restart ==
    /\ calls < MaxCall /\ calls' = calls + 1
    /\ Started(file)
    /\ spoilt' = IF \E p \in Caller : at[p] = "write"
                 THEN spoilt \cup {"cut"} ELSE spoilt
    /\ at' = [p \in Caller |-> "rest"] /\ clean' = {}
    /\ UNCHANGED <<file, promise>>

Done == calls = MaxCall /\ (\A p \in Caller : at[p] = "rest") /\ UNCHANGED vars
Step(p) == \/ \E o \in Offset : Change(p, o)
           \/ ResetRam(p) \/ Save(p) \/ Compare(p) \/ Copy(p)
           \/ Open(p) \/ OpenFails(p) \/ Write(p)
           \/ Load(p) \/ LoadFails(p) \/ Check(p) \/ Take(p)
Next == (\E p \in Caller : Step(p)) \/ Restart \/ Done
Spec == Init /\ [][Next]_vars

-----------------------------------------------------------------------------
(* Properties.                                                             *)

AtRest == \A p \in Caller : at[p] = "rest"

(* paramRom is what the file holds, or zero when there is none: what makes *)
(* the comparison of a save (param.c:66-81) a test whether to write.       *)
Agree == rom = IF file = Missing THEN Zero ELSE file

(* Parameters reported saved are in the file and stay there, whatever is   *)
(* changed, loaded or reset and however often power fails, up to a next    *)
(* save, unless since the last whole write the file could not be opened    *)
(* (the save after that one writes nothing and reports success), a write   *)
(* was short, power failed within one, or two calls met.                   *)
PromiseKept ==
    AtRest /\ spoilt = {} =>
        Agree /\ \A o \in promise : file = Image(Version, o)

(* A load that reports success has put in force what the file holds, if    *)
(* nobody came between and the file is whole, whatever happened before.    *)
LoadTaken ==
    \A p \in clean :
        at[p] = "take" /\ at'[p] = "rest" /\ calls' = calls /\ Len(file) = 3
           => ram' = file /\ CheckValid(file)
LoadTakesFile == [][LoadTaken]_vars

(* What makes them inductive: the types, ...                               *)
Parameters == {p \in Seq(Int) : Len(p) = 3}
Place == {"rest", "compare", "copy", "open", "write", "check", "take"}
Types ==
    /\ ram \in Parameters /\ rom \in Parameters
    /\ file \in Seq(Int) /\ Len(file) <= 3
    /\ at \in [Caller -> Place] /\ calls \in Nat
    /\ promise \subseteq Int /\ clean \subseteq Caller

(* ... who is alone, ...                                                   *)
Alone ==
    /\ \A p \in clean : at[Other(p)] = "rest"
    /\ spoilt = {} => \A p \in Caller : at[p] # "rest" => p \in clean

(* ... what a caller nobody has come between knows at each place, ...      *)
Undisturbed ==
    \A p \in clean :
        /\ at[p] \in {"compare", "copy", "open", "write"}
              => ram[3] = CalcChecksum(ram)
        /\ at[p] \in {"open", "write"} => rom = ram
        /\ at[p] = "take" => CheckValid(rom)
        /\ at[p] \in {"check", "take"} /\ Len(file) = 3 => rom = file

(* ... and what is in the file while nothing has spoilt it.                *)
Whole ==
    /\ Len(file) = 3
    /\ file[1] = Version => file[3] = CalcChecksum(file)
    /\ \A o \in promise : file = Image(Version, o)
Kept == Whole \/ (file = Missing /\ promise = {})
Intact ==
    spoilt = {} =>
        /\ ram[1] = Version
        /\ (\A p \in Caller : at[p] # "write") => Kept
        /\ (\A p \in Caller : at[p] \notin {"open", "write"}) => Agree

IInv == Types /\ Alone /\ Undisturbed /\ Intact
=============================================================================
