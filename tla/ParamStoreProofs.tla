-------------------------- MODULE ParamStoreProofs --------------------------
(***************************************************************************)
(* The parameter store for every set of offsets and every number of calls. *)
(* IInv is inductive.  Its parts build on each other: Alone says when a    *)
(* caller is undisturbed, Undisturbed what such a caller can rely on at    *)
(* each place, Intact what that makes of the file.  The lemmas before them *)
(* say what reading, cutting and signing do to three words.                *)
(***************************************************************************)
EXTENDS ParamStore, SequenceTheorems, TLAPS

(* A set of parameters is three words, and a file that holds three words   *)
(* is one.                                                                 *)
LEMMA Words ==
  ASSUME NEW p \in Parameters
  PROVE  /\ p[1] \in Int /\ p[2] \in Int /\ p[3] \in Int
         /\ CalcChecksum(p) = -1 - (p[1] + p[2])
         /\ Len(p) = 3 /\ p \in Seq(Int) /\ p # Missing
<1>1. Len(p) = 3 /\ p \in Seq(Int)
  BY DEF Parameters
<1>2. p[1] \in Int /\ p[2] \in Int /\ p[3] \in Int
  <2>1. 1 \in 1 .. Len(p) /\ 2 \in 1 .. Len(p) /\ 3 \in 1 .. Len(p)
    BY <1>1
  <2> QED
    BY <1>1, <2>1, ElementOfSeq
<1>3. p # Missing
  <2>1. Len(Missing) = 1
    BY DEF Missing
  <2> QED
    BY <1>1, <2>1
<1>4. CalcChecksum(p) = -1 - (p[1] + p[2])
  BY DEF CalcChecksum
<1> QED
  BY <1>1, <1>2, <1>3, <1>4

LEMMA ImageIs ==
  ASSUME NEW v \in Int, NEW o \in Int
  PROVE  /\ Image(v, o) \in Parameters
         /\ Image(v, o)[1] = v /\ Image(v, o)[2] = o
         /\ Image(v, o)[3] = CalcChecksum(Image(v, o))
  BY DEF Image, CalcChecksum, Parameters

LEMMA ImageOf ==
  ASSUME NEW p \in Parameters, p[1] = Version, p[3] = CalcChecksum(p)
  PROVE  p = Image(Version, p[2])
<1>1. p = <<p[1], p[2], p[3]>>
  BY DEF Parameters
<1> QED
  BY <1>1, Words DEF Image, CalcChecksum

LEMMA ReadIs ==
  ASSUME NEW p \in Parameters, NEW f \in Seq(Int), Len(f) <= 3
  PROVE  /\ Read(p, f) \in Parameters
         /\ Len(f) = 3 => Read(p, f) = f /\ f \in Parameters
<1> DEFINE m == Len(f) + 1
           rest == SubSeq(p, m, 3)
<1>1. p \in Seq(Int) /\ Len(p) = 3 /\ m \in 1 .. 4
  BY DEF Parameters
<1>2. Len(rest) = 3 - Len(f)
  BY <1>1
<1>3. rest \in Seq(Int)
  <2>1. 3 \in Int /\ m \in Int /\ \A i \in m .. 3 : p[i] \in Int
    BY <1>1
  <2> HIDE DEF m
  <2> QED
    BY <2>1, SubSeqProperties, Zenon
<1>4. Len(f) = 3 => rest = <<>>
  BY <1>2, <1>3
<1> HIDE DEF rest
<1>5. f \o rest \in Seq(Int) /\ Len(f \o rest) = 3
  BY <1>2, <1>3
<1>6. Len(f) = 3 => f \o rest = f
  BY <1>4, ConcatEmptySeq
<1>7. Read(p, f) = f \o rest
  BY DEF Read, rest
<1> QED
  BY <1>5, <1>6, <1>7 DEF Parameters

LEMMA CutIs ==
  ASSUME NEW p \in Parameters, NEW n \in 0 .. 3
  PROVE  /\ SubSeq(p, 1, n) \in Seq(Int) /\ Len(SubSeq(p, 1, n)) = n
         /\ n = 3 => SubSeq(p, 1, n) = p
<1>1. p \in Seq(Int) /\ Len(p) = 3
  BY DEF Parameters
<1>2. SubSeq(p, 1, n) \in Seq(Int)
  BY <1>1
<1>3. Len(SubSeq(p, 1, n)) = n
  BY <1>1
<1>4. SubSeq(p, 1, 3) = p
  BY <1>1, SubSeqFull
<1> QED
  BY <1>2, <1>3, <1>4

LEMMA ExceptIs ==
  ASSUME NEW p \in Parameters, NEW i \in {1, 2, 3}, NEW x \in Int
  PROVE  /\ [p EXCEPT ![i] = x] \in Parameters
         /\ [p EXCEPT ![i] = x][i] = x
         /\ \A j \in {1, 2, 3} \ {i} : [p EXCEPT ![i] = x][j] = p[j]
<1>1. i \in 1 .. Len(p) /\ p \in Seq(Int) /\ Len(p) = 3
  BY DEF Parameters
<1> QED
  BY <1>1, ExceptSeq DEF Parameters

(* What a save writes has the right checksum.                              *)
LEMMA SignedIs ==
  ASSUME NEW p \in Parameters, NEW q, q = [p EXCEPT ![3] = CalcChecksum(p)]
  PROVE  /\ q \in Parameters /\ q[3] = CalcChecksum(q)
         /\ q[1] = p[1] /\ q[2] = p[2]
<1> DEFINE c == CalcChecksum(p)
<1>1. c \in Int /\ p[1] \in Int /\ p[2] \in Int
  BY Words
<1>2. p \in Seq(Int) /\ Len(p) = 3
  BY DEF Parameters
<1> HIDE DEF c
<1> DEFINE t == <<p[1], p[2], c>>
<1>3. q = t
  BY <1>1, <1>2 DEF c
<1>4. t \in Parameters /\ t[3] = c /\ t[1] = p[1] /\ t[2] = p[2]
  BY <1>1 DEF Parameters
<1> HIDE DEF t
<1> QED
  BY <1>3, <1>4 DEF CalcChecksum, c

(* The two callers.                                                        *)
LEMMA OtherIs ==
  \A p \in Caller : /\ Other(p) \in Caller /\ Other(p) # p
                    /\ \A q \in Caller : q = p \/ q = Other(p)
<1> SUFFICES ASSUME NEW p \in Caller
             PROVE  /\ Other(p) \in Caller /\ Other(p) # p
                    /\ \A q \in Caller : q = p \/ q = Other(p)
  OBVIOUS
<1>1. \E q \in Caller : q # p
  BY DEF Caller
<1>2. Other(p) \in Caller /\ Other(p) # p
  BY <1>1 DEF Other
<1> QED
  BY <1>2 DEF Caller

LEMMA Constants ==
  /\ Reset \in Parameters /\ Zero \in Parameters
  /\ Reset[1] = Version /\ CheckValid(Reset)
  /\ Zero[1] # Version
  /\ Missing \in Seq(Int) /\ Len(Missing) = 1
  BY ImageIs DEF Reset, Zero, Version, Parameters, CheckValid, Missing

(* Types are kept.                                                         *)
LEMMA TypesStep ==
  ASSUME Types, [Next]_vars
  PROVE  Types'
<1> USE OffsetAssumption DEF Types, Place
<1>1. ASSUME NEW p \in Caller, NEW o \in Offset, Change(p, o)
      PROVE  Types'
  <2>1. o \in Int /\ calls' \in Nat /\ clean' \subseteq Caller
    BY <1>1 DEF Change, Enter
  <2> QED
    BY <1>1, <2>1, ExceptIs DEF Change, Enter
<1>2. ASSUME NEW p \in Caller, ResetRam(p)
      PROVE  Types'
  BY <1>2, Constants DEF ResetRam, Enter
<1>3. ASSUME NEW p \in Caller, Save(p)
      PROVE  Types'
  <2>1. CalcChecksum(ram) \in Int
    BY Words
  <2>2. ram' = [ram EXCEPT ![3] = CalcChecksum(ram)]
    BY <1>3 DEF Save
  <2>3. ram' \in Parameters
    BY <2>1, <2>2, ExceptIs
  <2>4. /\ at' \in [Caller -> Place] /\ calls' \in Nat
        /\ clean' \subseteq Caller
    BY <1>3 DEF Save, Enter, Go
  <2> QED
    BY <1>3, <2>3, <2>4 DEF Save
<1>4. ASSUME NEW p \in Caller, Compare(p)
      PROVE  Types'
  <2>1. at' \in [Caller -> Place]
    BY <1>4 DEF Compare, Go
  <2>2. promise' \subseteq Int
    BY <1>4, Words DEF Compare
  <2> QED
    BY <1>4, <2>1, <2>2 DEF Compare
<1>5. ASSUME NEW p \in Caller, Copy(p)
      PROVE  Types'
  BY <1>5 DEF Copy, Go
<1>6. ASSUME NEW p \in Caller, Open(p)
      PROVE  Types'
  BY <1>6 DEF Open, Go
<1>7. ASSUME NEW p \in Caller, OpenFails(p)
      PROVE  Types'
  BY <1>7 DEF OpenFails, Go
<1>8. ASSUME NEW p \in Caller, Write(p)
      PROVE  Types'
  <2>1. /\ file' \in Seq(Int) /\ Len(file') <= 3
    BY <1>8, CutIs DEF Write
  <2> QED
    BY <1>8, <2>1, Words DEF Write, Go
<1>9. ASSUME NEW p \in Caller, Load(p)
      PROVE  Types'
  <2>1. rom' \in Parameters
    BY <1>9, ReadIs DEF Load
  <2>2. at' \in [Caller -> Place]
    BY <1>9 DEF Load, Go
  <2>3. calls' \in Nat /\ clean' \subseteq Caller
    BY <1>9 DEF Load, Enter
  <2> QED
    BY <1>9, <2>1, <2>2, <2>3 DEF Load
<1>10. ASSUME NEW p \in Caller, LoadFails(p)
      PROVE  Types'
  BY <1>10 DEF LoadFails, Enter
<1>11. ASSUME NEW p \in Caller, Check(p)
      PROVE  Types'
  BY <1>11 DEF Check, Go
<1>12. ASSUME NEW p \in Caller, Take(p)
      PROVE  Types'
  BY <1>12 DEF Take, Go
<1>13. CASE Restart
  <2>1. rom' \in Parameters /\ ram' \in Parameters
    BY <1>13, ReadIs, Constants DEF Restart, Started
  <2> QED
    BY <1>13, <2>1 DEF Restart
<1>14. CASE Done
  BY <1>14 DEF Done, vars
<1>15. CASE UNCHANGED vars
  BY <1>15 DEF vars
<1> QED
  BY <1>1, <1>2, <1>3, <1>4, <1>5, <1>6, <1>7, <1>8, <1>9, <1>10, <1>11,
     <1>12, <1>13, <1>14, <1>15 DEF Next, Step

(* A caller is alone until another comes, and whoever is not alone has     *)
(* spoilt the promise.                                                     *)
LEMMA AloneStep ==
  ASSUME Types, Alone, [Next]_vars
  PROVE  Alone'
<1> USE DEF Types, Alone
<1>1. ASSUME NEW p \in Caller, NEW o \in Offset, Change(p, o)
      PROVE  Alone'
  BY <1>1, OtherIs DEF Change, Enter
<1>2. ASSUME NEW p \in Caller, ResetRam(p)
      PROVE  Alone'
  BY <1>2, OtherIs DEF ResetRam, Enter
<1>3. ASSUME NEW p \in Caller, Save(p)
      PROVE  Alone'
  BY <1>3, OtherIs DEF Save, Enter, Go
<1>4. ASSUME NEW p \in Caller, Compare(p)
      PROVE  Alone'
  BY <1>4, OtherIs DEF Compare, Go
<1>5. ASSUME NEW p \in Caller, Copy(p)
      PROVE  Alone'
  BY <1>5, OtherIs DEF Copy, Go
<1>6. ASSUME NEW p \in Caller, Open(p)
      PROVE  Alone'
  BY <1>6, OtherIs DEF Open, Go
<1>7. ASSUME NEW p \in Caller, OpenFails(p)
      PROVE  Alone'
  BY <1>7, OtherIs DEF OpenFails, Go
<1>8. ASSUME NEW p \in Caller, Write(p)
      PROVE  Alone'
  BY <1>8, OtherIs DEF Write, Go
<1>9. ASSUME NEW p \in Caller, Load(p)
      PROVE  Alone'
  <2>1. \A q \in Caller : q # p => at'[q] = at[q]
    BY <1>9 DEF Load, Go
  <2>2. \/ at[Other(p)] = "rest" /\ clean' = {p} /\ spoilt' = spoilt
        \/ /\ at[Other(p)] # "rest" /\ clean' = {}
           /\ spoilt' = spoilt \cup {"mixed"}
    BY <1>9 DEF Load, Enter
  <2> QED
    BY <2>1, <2>2, OtherIs
<1>10. ASSUME NEW p \in Caller, LoadFails(p)
      PROVE  Alone'
  BY <1>10, OtherIs DEF LoadFails, Enter
<1>11. ASSUME NEW p \in Caller, Check(p)
      PROVE  Alone'
  BY <1>11, OtherIs DEF Check, Go
<1>12. ASSUME NEW p \in Caller, Take(p)
      PROVE  Alone'
  BY <1>12, OtherIs DEF Take, Go
<1>13. CASE Restart
  BY <1>13, OtherIs DEF Restart
<1>14. CASE Done
  BY <1>14, OtherIs DEF Done, vars
<1>15. CASE UNCHANGED vars
  BY <1>15, OtherIs DEF vars
<1> QED
  BY <1>1, <1>2, <1>3, <1>4, <1>5, <1>6, <1>7, <1>8, <1>9, <1>10, <1>11,
     <1>12, <1>13, <1>14, <1>15 DEF Next, Step

(* What a caller alone knows stays true: the other is at rest, and a step  *)
(* that ends its rest takes the first one off the list.                    *)
LEMMA UndisturbedStep ==
  ASSUME Types, Alone, Undisturbed, [Next]_vars
  PROVE  Undisturbed'
<1> USE DEF Types, Alone, Undisturbed
<1>1. ASSUME NEW p \in Caller, NEW o \in Offset, Change(p, o)
      PROVE  Undisturbed'
  BY <1>1, OtherIs DEF Change, Enter
<1>2. ASSUME NEW p \in Caller, ResetRam(p)
      PROVE  Undisturbed'
  BY <1>2, OtherIs DEF ResetRam, Enter
<1>3. ASSUME NEW p \in Caller, Save(p)
      PROVE  Undisturbed'
  <2>1. ram' \in Parameters /\ ram'[3] = CalcChecksum(ram')
    <3>1. ram' = [ram EXCEPT ![3] = CalcChecksum(ram)]
      BY <1>3 DEF Save
    <3> QED
      BY <3>1, SignedIs
  <2>2. clean' \subseteq {p} /\ at'[p] = "compare"
    BY <1>3 DEF Save, Enter, Go
  <2> QED
    BY <2>1, <2>2
<1>4. ASSUME NEW p \in Caller, Compare(p)
      PROVE  Undisturbed'
  BY <1>4, OtherIs DEF Compare, Go
<1>5. ASSUME NEW p \in Caller, Copy(p)
      PROVE  Undisturbed'
  BY <1>5, OtherIs DEF Copy, Go
<1>6. ASSUME NEW p \in Caller, Open(p)
      PROVE  Undisturbed'
  BY <1>6, OtherIs DEF Open, Go
<1>7. ASSUME NEW p \in Caller, OpenFails(p)
      PROVE  Undisturbed'
  BY <1>7, OtherIs DEF OpenFails, Go
<1>8. ASSUME NEW p \in Caller, Write(p)
      PROVE  Undisturbed'
  BY <1>8, OtherIs DEF Write, Go
<1>9. ASSUME NEW p \in Caller, Load(p)
      PROVE  Undisturbed'
  <2>1. clean' \subseteq {p}
    BY <1>9 DEF Load, Enter
  <2>2. CASE file = Missing
    <3>1. at'[p] = "rest"
      BY <1>9, <2>2 DEF Load, Enter
    <3> QED
      BY <2>1, <3>1
  <2>3. CASE file # Missing
    <3>1. at'[p] = "check" /\ rom' = Read(rom, file) /\ file' = file
      BY <1>9, <2>3 DEF Load, Go
    <3>2. Len(file) = 3 => rom' = file
      BY <3>1, ReadIs
    <3> QED
      BY <2>1, <3>1, <3>2
  <2> QED
    BY <2>2, <2>3
<1>10. ASSUME NEW p \in Caller, LoadFails(p)
      PROVE  Undisturbed'
  BY <1>10, OtherIs DEF LoadFails, Enter
<1>11. ASSUME NEW p \in Caller, Check(p)
      PROVE  Undisturbed'
  BY <1>11, OtherIs DEF Check, Go
<1>12. ASSUME NEW p \in Caller, Take(p)
      PROVE  Undisturbed'
  BY <1>12, OtherIs DEF Take, Go
<1>13. CASE Restart
  BY <1>13, OtherIs DEF Restart
<1>14. CASE Done
  BY <1>14, OtherIs DEF Done, vars
<1>15. CASE UNCHANGED vars
  BY <1>15, OtherIs DEF vars
<1> QED
  BY <1>1, <1>2, <1>3, <1>4, <1>5, <1>6, <1>7, <1>8, <1>9, <1>10, <1>11,
     <1>12, <1>13, <1>14, <1>15 DEF Next, Step

(* The file stays as promised.  Only three steps touch it or what is said  *)
(* of it: Compare that finds nothing to write, Open that empties it, and   *)
(* Write, the one step that can end a spoilt time.                         *)
LEMMA IntactStep ==
  ASSUME Types, Alone, Undisturbed, Intact, [Next]_vars
  PROVE  Intact'
<1> USE DEF Types, Alone, Undisturbed, Intact
<1>1. ASSUME NEW p \in Caller, NEW o \in Offset, Change(p, o)
      PROVE  Intact'
  <2> SUFFICES ASSUME spoilt' = {} PROVE Intact'
    OBVIOUS
  <2>1. spoilt = {} /\ at[p] = "rest" /\ at[Other(p)] = "rest"
    BY <1>1 DEF Change, Enter
  <2>2. \A q \in Caller : at[q] = "rest"
    BY <2>1, OtherIs
  <2>3. ram[1] = Version /\ Agree /\ Kept
    BY <2>1, <2>2
  <2>4. ram'[1] = Version
    BY <1>1, <2>3, ExceptIs DEF Change
  <2>5. UNCHANGED <<rom, file, promise>>
    BY <1>1 DEF Change
  <2>6. Agree' /\ Kept'
    BY <2>3, <2>5 DEF Agree, Kept, Whole
  <2> QED
    BY <2>4, <2>6
<1>2. ASSUME NEW p \in Caller, ResetRam(p)
      PROVE  Intact'
  <2> SUFFICES ASSUME spoilt' = {} PROVE Intact'
    OBVIOUS
  <2>1. spoilt = {} /\ at[p] = "rest" /\ at[Other(p)] = "rest"
    BY <1>2 DEF ResetRam, Enter
  <2>2. \A q \in Caller : at[q] = "rest"
    BY <2>1, OtherIs
  <2>3. ram[1] = Version /\ Agree /\ Kept
    BY <2>1, <2>2
  <2>4. ram'[1] = Version
    BY <1>2, <2>3, Constants DEF ResetRam
  <2>5. UNCHANGED <<rom, file, promise>>
    BY <1>2 DEF ResetRam
  <2>6. Agree' /\ Kept'
    BY <2>3, <2>5 DEF Agree, Kept, Whole
  <2> QED
    BY <2>4, <2>6
<1>3. ASSUME NEW p \in Caller, Save(p)
      PROVE  Intact'
  <2> SUFFICES ASSUME spoilt' = {} PROVE Intact'
    OBVIOUS
  <2>1. spoilt = {} /\ at[p] = "rest" /\ at[Other(p)] = "rest"
    BY <1>3 DEF Save, Enter
  <2>2. \A q \in Caller : at[q] = "rest"
    BY <2>1, OtherIs
  <2>3. ram[1] = Version /\ Agree /\ Kept
    BY <2>1, <2>2
  <2>4. ram'[1] = Version
    BY <1>3, <2>3, SignedIs DEF Save
  <2>5. UNCHANGED <<rom, file, promise>>
    BY <1>3 DEF Save
  <2>6. Agree' /\ Kept'
    BY <2>3, <2>5 DEF Agree, Kept, Whole
  <2> QED
    BY <2>4, <2>6
<1>4. ASSUME NEW p \in Caller, Compare(p)
      PROVE  Intact'
  <2> SUFFICES ASSUME spoilt' = {} PROVE Intact'
    OBVIOUS
  <2>1. /\ at[p] = "compare" /\ UNCHANGED <<ram, rom, file, spoilt>>
        /\ at' = [at EXCEPT ![p] = at'[p]]
        /\ \/ at'[p] = "rest" /\ promise' = {ram[2]} /\ Same(rom, ram)
           \/ at'[p] = "copy" /\ promise' = promise
    BY <1>4 DEF Compare, Go
  <2>2. p \in clean /\ at[Other(p)] = "rest" /\ spoilt = {}
    BY <2>1
  <2>3. \A q \in Caller : at[q] \notin {"open", "write"}
    BY <2>1, <2>2, OtherIs
  <2>4. ram[1] = Version /\ Agree /\ Kept
    BY <2>2, <2>3
  <2>5. Agree'
    BY <2>1, <2>4 DEF Agree
  <2>6. Kept'
    <3>1. CASE promise' = promise
      BY <2>1, <2>4, <3>1 DEF Kept, Whole
    <3>2. CASE promise' = {ram[2]} /\ Same(rom, ram)
      <4>1. rom[1] = Version /\ rom[2] = ram[2] /\ rom = file
        BY <2>4, <3>2, Constants DEF Same, Agree
      <4>2. Whole
        BY <2>4, <4>1, Words DEF Kept
      <4>3. file = Image(Version, ram[2])
        BY <4>1, <4>2, ImageOf DEF Kept, Whole
      <4> QED
        BY <2>1, <3>2, <4>2, <4>3 DEF Kept, Whole
    <3> QED
      BY <2>1, <3>1, <3>2
  <2> QED
    BY <2>1, <2>4, <2>5, <2>6
<1>5. ASSUME NEW p \in Caller, Copy(p)
      PROVE  Intact'
  <2> SUFFICES ASSUME spoilt' = {} PROVE Intact'
    OBVIOUS
  <2>1. /\ UNCHANGED <<file, promise, spoilt>>
        /\ at' = [at EXCEPT ![p] = at'[p]]
        /\ at[p] = "copy" /\ at'[p] = "open" /\ ram' = ram
    BY <1>5 DEF Copy, Go
  <2>2. p \in clean /\ at[Other(p)] = "rest" /\ spoilt = {}
    BY <2>1
  <2>3. /\ ram[1] = Version /\ Agree
        /\ Kept
    BY <2>1, <2>2, OtherIs
  <2>4. Kept'
    BY <2>1, <2>3 DEF Kept, Whole
  <2> QED
    BY <2>1, <2>3, <2>4
<1>6. ASSUME NEW p \in Caller, Open(p)
      PROVE  Intact'
  BY <1>6, OtherIs DEF Open, Go
<1>7. ASSUME NEW p \in Caller, OpenFails(p)
      PROVE  Intact'
  BY <1>7, OtherIs DEF OpenFails, Go
<1>8. ASSUME NEW p \in Caller, Write(p)
      PROVE  Intact'
  <2> SUFFICES ASSUME spoilt' = {} PROVE Intact'
    OBVIOUS
  <2>1. PICK n \in 0 .. 3 :
           /\ at[p] = "write" /\ file' = SubSeq(rom, 1, n)
           /\ spoilt' = IF n < 3 THEN spoilt \cup {"short"}
                        ELSE IF p \in clean /\ CheckValid(rom) THEN {}
                        ELSE spoilt
           /\ promise' = {rom[2]} /\ UNCHANGED <<ram, rom>>
    BY <1>8 DEF Write
  <2>2. n = 3 /\ file' = rom
    <3>1. ~(n < 3)
      BY <2>1
    <3> QED
      BY <2>1, <3>1, CutIs
  <2>3. p \in clean
    BY <2>1, <2>2
  <2>4. rom = ram /\ rom[3] = CalcChecksum(rom)
    BY <2>1, <2>3
  <2>5. rom[1] = Version
    BY <2>1, <2>2, <2>4 DEF CheckValid
  <2>6. rom = Image(Version, rom[2]) /\ rom # Missing /\ Len(rom) = 3
    BY <2>4, <2>5, ImageOf, Words
  <2> QED
    BY <2>1, <2>2, <2>4, <2>5, <2>6 DEF Kept, Whole, Agree
<1>9. ASSUME NEW p \in Caller, Load(p)
      PROVE  Intact'
  <2> SUFFICES ASSUME spoilt' = {} PROVE Intact'
    OBVIOUS
  <2>1. spoilt = {} /\ at[p] = "rest" /\ at[Other(p)] = "rest"
    BY <1>9 DEF Load, Enter
  <2>2. \A q \in Caller : at[q] = "rest"
    BY <2>1, OtherIs
  <2>3. ram[1] = Version /\ Agree /\ Kept
    BY <2>1, <2>2
  <2>4. UNCHANGED <<ram, file, promise>>
    BY <1>9 DEF Load
  <2>5. rom' = IF file = Missing THEN Zero ELSE file
    <3>1. CASE file = Missing
      BY <1>9, <2>3, <3>1 DEF Load, Agree
    <3>2. CASE file # Missing
      BY <1>9, <2>3, <3>2, ReadIs DEF Load, Kept, Whole
    <3> QED
      BY <3>1, <3>2
  <2>6. Agree' /\ Kept'
    BY <2>3, <2>4, <2>5 DEF Agree, Kept, Whole
  <2> QED
    BY <2>3, <2>4, <2>6
<1>10. ASSUME NEW p \in Caller, LoadFails(p)
      PROVE  Intact'
  <2> SUFFICES ASSUME spoilt' = {} PROVE Intact'
    OBVIOUS
  <2>1. spoilt = {} /\ at[p] = "rest" /\ at[Other(p)] = "rest"
    BY <1>10 DEF LoadFails, Enter
  <2>2. \A q \in Caller : at[q] = "rest"
    BY <2>1, OtherIs
  <2>3. ram[1] = Version /\ Agree /\ Kept
    BY <2>1, <2>2
  <2>4. ram'[1] = Version
    BY <1>10, <2>3 DEF LoadFails
  <2>5. UNCHANGED <<rom, file, promise>>
    BY <1>10 DEF LoadFails
  <2>6. Agree' /\ Kept'
    BY <2>3, <2>5 DEF Agree, Kept, Whole
  <2> QED
    BY <2>4, <2>6
<1>11. ASSUME NEW p \in Caller, Check(p)
      PROVE  Intact'
  <2> SUFFICES ASSUME spoilt' = {} PROVE Intact'
    OBVIOUS
  <2>1. /\ UNCHANGED <<file, promise, spoilt>>
        /\ at' = [at EXCEPT ![p] = at'[p]]
        /\ at[p] = "check" /\ ram' = ram /\ rom' = rom
    BY <1>11 DEF Check, Go
  <2>2. p \in clean /\ at[Other(p)] = "rest" /\ spoilt = {}
    BY <2>1
  <2>3. /\ ram[1] = Version /\ Agree
        /\ Kept
    BY <2>1, <2>2, OtherIs
  <2>4. Kept'
    BY <2>1, <2>3 DEF Kept, Whole
  <2>5. Agree'
    BY <2>1, <2>3 DEF Agree
  <2> QED
    BY <2>1, <2>3, <2>4, <2>5
<1>12. ASSUME NEW p \in Caller, Take(p)
      PROVE  Intact'
  <2> SUFFICES ASSUME spoilt' = {} PROVE Intact'
    OBVIOUS
  <2>1. /\ UNCHANGED <<file, promise, spoilt>>
        /\ at' = [at EXCEPT ![p] = at'[p]]
        /\ at[p] = "take" /\ ram' = rom /\ rom' = rom
    BY <1>12 DEF Take, Go
  <2>2. p \in clean /\ at[Other(p)] = "rest" /\ spoilt = {}
    BY <2>1
  <2>3. /\ ram[1] = Version /\ Agree
        /\ Kept
    BY <2>1, <2>2, OtherIs
  <2>4. Kept'
    BY <2>1, <2>3 DEF Kept, Whole
  <2>5. Agree' /\ ram'[1] = Version
    BY <2>1, <2>2, <2>3 DEF Agree, CheckValid
  <2> QED
    BY <2>3, <2>4, <2>5
<1>13. CASE Restart
  <2> SUFFICES ASSUME spoilt' = {} PROVE Intact'
    OBVIOUS
  <2>1. /\ spoilt = {} /\ \A q \in Caller : at[q] # "write"
        /\ UNCHANGED <<file, promise>> /\ Started(file)
    BY <1>13 DEF Restart
  <2>2. Kept
    BY <2>1
  <2>3. rom' = IF file = Missing THEN Zero ELSE file
    BY <2>1, <2>2, ReadIs, Constants DEF Started, Kept, Whole
  <2>4. ram'[1] = Version
    BY <2>1, Constants DEF Started, CheckValid
  <2>5. Agree' /\ Kept'
    BY <2>1, <2>2, <2>3 DEF Agree, Kept, Whole
  <2> QED
    BY <2>4, <2>5
<1>14. CASE Done
  BY <1>14 DEF Done, vars, Agree, Kept, Whole
<1>15. CASE UNCHANGED vars
  BY <1>15 DEF vars, Agree, Kept, Whole
<1> QED
  BY <1>1, <1>2, <1>3, <1>4, <1>5, <1>6, <1>7, <1>8, <1>9, <1>10, <1>11,
     <1>12, <1>13, <1>14, <1>15 DEF Next, Step

-----------------------------------------------------------------------------
(* The inductive invariant holds initially and is kept by every step.      *)
LEMMA InitIInv == Init => IInv
<1> SUFFICES ASSUME Init PROVE IInv
  OBVIOUS
<1>1. PICK o \in Offset \cup {0} :
         file \in {Missing, Image(Older, 0), Image(Version, o)}
  BY OffsetAssumption DEF Init
<1>2. o \in Int /\ Older \in Int /\ Version \in Int /\ Older # Version
  BY <1>1, OffsetAssumption DEF Older, Version
<1>3. file = Missing \/ /\ file \in Parameters
                        /\ file[1] = Version => file[3] = CalcChecksum(file)
  BY <1>1, <1>2, ImageIs
<1>4. /\ rom \in Parameters /\ Agree
      /\ ram \in Parameters /\ ram[1] = Version
  BY <1>3, Constants DEF Init, Agree, CheckValid
<1>5. Types
  <2>1. file \in Seq(Int) /\ Len(file) <= 3
    <3>1. CASE file = Missing
      BY <3>1, Constants
    <3>2. CASE file \in Parameters
      <4>1. file \in Seq(Int) /\ Len(file) = 3
        BY <3>2, Zenon DEF Parameters
      <4> QED
        BY <4>1
    <3> QED
      BY <1>3, <3>1, <3>2
  <2> QED
    BY <1>4, <2>1 DEF Init, Types, Place
<1>6. Alone /\ Undisturbed
  BY DEF Init, Alone, Undisturbed
<1>7. Intact
  BY <1>3, <1>4, Words DEF Init, Intact, Kept, Whole
<1> QED
  BY <1>5, <1>6, <1>7 DEF IInv

LEMMA NextIInv == IInv /\ [Next]_vars => IInv'
  BY TypesStep, AloneStep, UndisturbedStep, IntactStep DEF IInv

LEMMA Inductive == Spec => []IInv
  BY InitIInv, NextIInv, PTL DEF Spec

(* Only Take leaves that place but for a restart, which counts as a call.  *)
LEMMA LoadStep ==
  ASSUME Types, Undisturbed, [Next]_vars
  PROVE  LoadTaken
<1> USE DEF Types, Undisturbed
<1>1. ASSUME NEW p \in Caller, NEW o \in Offset, Change(p, o)
      PROVE  LoadTaken
  BY <1>1 DEF LoadTaken, Change, Enter
<1>2. ASSUME NEW p \in Caller, ResetRam(p)
      PROVE  LoadTaken
  BY <1>2 DEF LoadTaken, ResetRam, Enter
<1>3. ASSUME NEW p \in Caller, Save(p)
      PROVE  LoadTaken
  BY <1>3 DEF LoadTaken, Save, Enter, Go
<1>4. ASSUME NEW p \in Caller, Compare(p)
      PROVE  LoadTaken
  BY <1>4 DEF LoadTaken, Compare, Go
<1>5. ASSUME NEW p \in Caller, Copy(p)
      PROVE  LoadTaken
  BY <1>5 DEF LoadTaken, Copy, Go
<1>6. ASSUME NEW p \in Caller, Open(p)
      PROVE  LoadTaken
  BY <1>6 DEF LoadTaken, Open, Go
<1>7. ASSUME NEW p \in Caller, OpenFails(p)
      PROVE  LoadTaken
  BY <1>7 DEF LoadTaken, OpenFails, Go
<1>8. ASSUME NEW p \in Caller, Write(p)
      PROVE  LoadTaken
  BY <1>8 DEF LoadTaken, Write, Go
<1>9. ASSUME NEW p \in Caller, Load(p)
      PROVE  LoadTaken
  BY <1>9 DEF LoadTaken, Load, Enter, Go
<1>10. ASSUME NEW p \in Caller, LoadFails(p)
      PROVE  LoadTaken
  BY <1>10 DEF LoadTaken, LoadFails, Enter
<1>11. ASSUME NEW p \in Caller, Check(p)
      PROVE  LoadTaken
  BY <1>11 DEF LoadTaken, Check, Go
<1>12. ASSUME NEW p \in Caller, Take(p)
      PROVE  LoadTaken
  BY <1>12 DEF LoadTaken, Take, Go
<1>13. CASE Restart
  BY <1>13 DEF Restart, LoadTaken
<1>14. CASE Done
  BY <1>14 DEF Done, vars, LoadTaken
<1>15. CASE UNCHANGED vars
  BY <1>15 DEF vars, LoadTaken
<1> QED
  BY <1>1, <1>2, <1>3, <1>4, <1>5, <1>6, <1>7, <1>8, <1>9, <1>10, <1>11,
     <1>12, <1>13, <1>14, <1>15 DEF Next, Step

-----------------------------------------------------------------------------
(* Parameters reported saved survive power failures until the next save,   *)
(* whatever the offsets and however many calls, unless the time is spoilt. *)
THEOREM SavedStaysSaved == Spec => []PromiseKept
<1>1. IInv => PromiseKept
  BY DEF IInv, Intact, Kept, Whole, PromiseKept, AtRest
<1> QED
  BY <1>1, Inductive, PTL

(* A load by a caller alone puts in force what a whole file holds, valid.  *)
THEOREM LoadedIsFile == Spec => LoadTakesFile
<1>1. IInv /\ [Next]_vars => [LoadTaken]_vars
  BY LoadStep DEF IInv
<1>2. Spec => [][LoadTaken]_vars
  BY <1>1, Inductive, PTL DEF Spec
<1> QED
  BY <1>2 DEF LoadTaken, LoadTakesFile
=============================================================================
