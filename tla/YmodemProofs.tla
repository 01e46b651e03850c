---------------------------- MODULE YmodemProofs ----------------------------
(***************************************************************************)
(* The upload for every set of files, packet size, number of bits of a     *)
(* packet's number, length of the line and number of faults.               *)
(*                                                                         *)
(* Seen from the receiver, a message is the one due next, or the one just  *)
(* taken, or says nothing about the data.  IInv: as long as no end of file *)
(* was acknowledged twice, the line holds the old one before the one due   *)
(* and nothing else, the sender is at one of the two, and an answer under  *)
(* way is to the old one.  So numbers that differ modulo Mod tell the two  *)
(* apart, and every packet taken for data is the next piece.               *)
(***************************************************************************)
EXTENDS Ymodem, SequenceTheorems, TLAPS

(* Every variable has its type: the sender never asks for a file that is   *)
(* not there, nor does a packet name one.                                  *)
Kinds == {"header", "block", "eot", "final", "cancel", "abort", "noise",
          "changed"}
Asked == 1 .. Len(Size) + 1
Message == [kind : Kinds, file : Asked, block : Nat]
OfFile == {"header", "block", "changed", "eot"}

TypeOK ==
    /\ down \in Seq(Message)
    /\ \A i \in DOMAIN down :
         down[i].kind \in OfFile => down[i].file \in Files
    /\ up \in Seq({"ACK", "NAK", "C", "CA"})
    /\ stage \in Sending \cup {"header?", "data?", "over"}
    /\ f \in Asked /\ n \in Nat /\ tries \in Nat
    /\ stage \in OfFile \cup {"data?"} => f \in Files
    /\ running \in BOOLEAN /\ begun \in BOOLEAN /\ twice \in BOOLEAN
    /\ fp \in Files \cup {-1} /\ size \in Int
    /\ packets \in Nat /\ errors \in Nat /\ faults \in Nat
    /\ files \in [Files -> Seq(Asked \X Int)]
    /\ harmed \subseteq Files
    /\ reason \in {"none", "cancel", "abort", "done", "write", "fault",
                   "errors"}

-----------------------------------------------------------------------------
(* With q open and p packets received, the message the receiver must take  *)
(* next, and the last one it took.                                         *)
Turn(q) == IF q = -1 THEN 1 ELSE q + 1

Due(p, q, m) ==
    \/ p = 0 /\ Turn(q) \in Files /\ m = Msg("header", Turn(q), 0)
    \/ p = 0 /\ Turn(q) \notin Files /\ m = Msg("final", Turn(q), 0)
    \/ /\ p > 0 /\ q # -1 /\ (p - 1) * Block < Size[q]
       /\ m = Msg("block", q, p) \/ m = Msg("changed", q, p)
    \/ /\ p > 0 /\ q # -1 /\ (p - 1) * Block >= Size[q]
       /\ m = Msg("eot", q, 0)

Old(p, q, m) ==
    \/ p = 0 /\ q # -1 /\ m = Msg("eot", q, 0)
    \/ p = 1 /\ m.kind = "header" /\ m.block = 0 /\ (q # -1 => m.file = q)
    \/ p > 1 /\ (m = Msg("block", q, p - 1) \/ m = Msg("changed", q, p - 1))

(* The line to the receiver: the old message any number of times, then the *)
(* one due any number of times.                                            *)
OldThenDue ==
    /\ \A i \in DOMAIN down : \/ Old(packets, fp, down[i])
                              \/ Due(packets, fp, down[i])
                              \/ down[i].kind \in {"noise", "cancel", "abort"}
    /\ \A i, j \in DOMAIN down :
         i < j /\ Due(packets, fp, down[i]) => ~Old(packets, fp, down[j])

(* The sender is at the old message or at the one due; only if it is at    *)
(* the one due can that be on the line, and only if it is at the old one   *)
(* an answer.                                                              *)
SenderNear ==
    /\ stage \in Sending =>
         Old(packets, fp, Packet) \/ Due(packets, fp, Packet)
    /\ stage = "header?" => packets = 0 /\ f = Turn(fp)
    /\ stage = "data?" => packets = 1 /\ f = fp
    /\ stage # "over" => \A i \in DOMAIN down : Due(packets, fp, down[i]) =>
         stage \in Sending /\ Due(packets, fp, Packet)

OneAnswer ==
    stage # "over" => \A i \in DOMAIN up : up[i] = "ACK" =>
        /\ stage \in Sending /\ Old(packets, fp, Packet)
        /\ \A j \in DOMAIN up : up[j] = "ACK" => i = j

(* A file that could not be opened: the session is as good as over.        *)
NoFile ==
    packets > 0 /\ fp = -1 =>
        /\ packets = 1
        /\ stage = "header" \/ stage = "over"
        /\ stage = "header" => \A i \in DOMAIN up : up[i] # "ACK"

InStep == OldThenDue /\ SenderNear /\ OneAnswer /\ NoFile

(* What the files hold: those before the one open all, that one what the   *)
(* packets taken bring, the ones after it nothing.                         *)
Begin(i, c) == [j \in 1 .. c |-> <<i, j>>]
Taken(p, i) == IF (p - 1) * Block < Size[i] THEN (p - 1) * Block ELSE Size[i]

Ordered ==
    \A i \in Files \ harmed : \E c \in 0 .. Size[i] : files[i] = Begin(i, c)

Contents ==
    packets = 0 \/ fp # -1 =>
        /\ packets > 0 => size = Size[fp]
        /\ \A i \in Files :
             /\ i > fp => files[i] = <<>> /\ i \notin harmed
             /\ i < fp /\ i \notin harmed => files[i] = Begin(i, Size[i])
             /\ i = fp /\ i \notin harmed =>
                  files[i] = Begin(i, IF packets = 0 THEN Size[i]
                                      ELSE Taken(packets, i))

Outcome ==
    /\ reason # "fault"
    /\ running => reason = "none"
    /\ reason = "done" =>
         \A i \in Files \ harmed : files[i] = Begin(i, Size[i])

IInv ==
    /\ TypeOK
    /\ ~twice => /\ Ordered /\ Outcome
                 /\ running => InStep /\ Contents

-----------------------------------------------------------------------------
(* Lemmas about the line and the numbers.                                  *)

LEMMA Constants ==
  /\ Block \in Nat /\ Block > 0 /\ Mod \in Nat /\ Mod > 1 /\ MaxErrors \in Nat
  /\ MaxTry \in Nat /\ Cap \in Nat
  /\ Len(Size) \in Nat /\ Len(Size) > 0 /\ Files = 1 .. Len(Size)
  /\ \A i \in Files : Size[i] \in Nat /\ Size[i] > 0
<1>1. Size \in Seq(Nat \ {0}) /\ Size # <<>>
  BY SizeAssumption
<1>2. Files = 1 .. Len(Size) /\ Len(Size) \in Nat /\ Len(Size) > 0
  BY <1>1 DEF Files
<1>3. \A i \in Files : Size[i] \in Nat \ {0}
  BY <1>1, <1>2
<1> QED
  BY <1>2, <1>3, LineAssumption

(* What is put on a line comes last, if at all.                            *)
LEMMA PutLast ==
  ASSUME NEW T, NEW line \in Seq(T), NEW m \in T
  PROVE  /\ Put(line, m) \in Seq(T)
         /\ \A j \in DOMAIN Put(line, m) :
              \/ j \in DOMAIN line /\ Put(line, m)[j] = line[j]
              \/ j = Len(line) + 1 /\ Put(line, m)[j] = m
<1>1. CASE Len(line) < Cap
  <2>1. Put(line, m) = Append(line, m)
    BY <1>1 DEF Put
  <2> QED
    BY <2>1
<1>2. CASE ~(Len(line) < Cap)
  BY <1>2 DEF Put
<1> QED
  BY <1>1, <1>2

LEMMA TailShifts ==
  ASSUME NEW T, NEW line \in Seq(T), line # <<>>
  PROVE  /\ Tail(line) \in Seq(T) /\ Head(line) \in T
         /\ 1 \in DOMAIN line /\ Head(line) = line[1]
         /\ \A j \in DOMAIN Tail(line) :
              j + 1 \in DOMAIN line /\ Tail(line)[j] = line[j + 1] /\ j > 0
  OBVIOUS

(* The number of a packet tells it from the one before.                    *)
LEMMA Neighbours ==
  ASSUME NEW p \in Nat, p > 0
  PROVE  (p - 1) % Mod # p % Mod
<1> DEFINE a == (p - 1) \div Mod
           b == p \div Mod
<1>1. Mod \in Nat /\ Mod > 1
  BY Constants
<1>2. /\ a \in Int /\ b \in Int
      /\ p - 1 = Mod * a + ((p - 1) % Mod)
      /\ p = Mod * b + (p % Mod)
  BY <1>1
<1> HIDE DEF a, b
<1> SUFFICES ASSUME (p - 1) % Mod = p % Mod  PROVE FALSE
  OBVIOUS
<1>3. Mod * b - Mod * a = 1
  BY <1>1, <1>2
<1>4. Mod * (b - a) = 1
  BY <1>1, <1>2, <1>3
<1>5. CASE b - a <= 0
  BY <1>1, <1>2, <1>4, <1>5
<1>6. CASE b - a >= 1
  <2>1. Mod * (b - a) >= Mod
    BY <1>1, <1>2, <1>6
  <2> QED
    BY <2>1, <1>1, <1>2, <1>4
<1> QED
  BY <1>5, <1>6, <1>2

(* A message is not both, nor the one due twice; the one just taken has    *)
(* not the number of a packet expected.                                    *)
LEMMA Apart ==
  ASSUME NEW p \in Nat, NEW q \in Files \cup {-1}, NEW m, Old(p, q, m)
  PROVE  /\ ~Due(p, q, m)
         /\ m.kind \in {"header", "block", "changed"} =>
              p > 0 /\ m.block % Mod # p % Mod
         /\ m.kind \in {"header", "block", "changed", "eot"}
         /\ p > 0 => m.kind # "eot"
<1>1. p > 0 => (p - 1) % Mod # p % Mod
  BY Neighbours
<1> QED
  BY <1>1 DEF Old, Due, Msg

LEMMA DueIs ==
  ASSUME NEW p \in Nat, NEW q \in Files \cup {-1}, NEW m, Due(p, q, m)
  PROVE  /\ p = 0 => m.kind \in {"header", "final"} /\ m.file = Turn(q)
         /\ p = 0 /\ m.kind = "header" => Turn(q) \in Files
         /\ p = 0 /\ m.kind = "final" => Turn(q) \notin Files
         /\ p > 0 => q # -1 /\ m.kind \in {"block", "changed", "eot"}
         /\ m.kind \in {"block", "changed"} =>
              m.file = q /\ m.block = p /\ (p - 1) * Block < Size[q]
         /\ m.kind = "eot" => (p - 1) * Block >= Size[q]
  BY DEF Due, Msg

(* Once the one due is taken, it is the old one.                           *)
LEMMA DueThenOld ==
  ASSUME NEW p \in Nat, NEW q \in Files \cup {-1}, NEW m, Due(p, q, m)
  PROVE  /\ p = 0 /\ Turn(q) \in Files => Old(1, Turn(q), m) /\ Old(1, -1, m)
         /\ p > 0 /\ (p - 1) * Block < Size[q] => Old(p + 1, q, m)
         /\ p > 0 /\ ~((p - 1) * Block < Size[q]) => Old(0, q, m)
<1>1. p > 0 => q # -1 /\ q \in Files /\ Size[q] \in Nat
  BY Constants DEF Due
<1>2. (p - 1) * Block \in Int
  BY Constants
<1> QED
  BY <1>1, <1>2 DEF Due, Old, Msg

-----------------------------------------------------------------------------
(* Type correctness.                                                       *)
DownOK ==
    /\ down \in Seq(Message)
    /\ \A i \in DOMAIN down :
         down[i].kind \in OfFile => down[i].file \in Files
UpOK == up \in Seq({"ACK", "NAK", "C", "CA"})
SenderOK ==
    /\ stage \in Sending \cup {"header?", "data?", "over"}
    /\ f \in Asked /\ n \in Nat /\ tries \in Nat
    /\ stage \in OfFile \cup {"data?"} => f \in Files
ReceiverOK ==
    /\ running \in BOOLEAN /\ begun \in BOOLEAN
    /\ fp \in Files \cup {-1} /\ size \in Int
    /\ packets \in Nat /\ errors \in Nat
    /\ files \in [Files -> Seq(Asked \X Int)]
    /\ reason \in {"none", "cancel", "abort", "done", "write", "fault",
                   "errors"}
RestOK == faults \in Nat /\ harmed \subseteq Files /\ twice \in BOOLEAN

LEMMA Types == TypeOK <=> DownOK /\ UpOK /\ SenderOK /\ ReceiverOK /\ RestOK
  BY DEF TypeOK, DownOK, UpOK, SenderOK, ReceiverOK, RestOK

LEMMA PutDown ==
  ASSUME DownOK, NEW m \in Message, m.kind \in OfFile => m.file \in Files,
         down' = Put(down, m)
  PROVE  DownOK'
<1>1. /\ Put(down, m) \in Seq(Message)
      /\ \A j \in DOMAIN Put(down, m) :
           \/ j \in DOMAIN down /\ Put(down, m)[j] = down[j]
           \/ j = Len(down) + 1 /\ Put(down, m)[j] = m
  BY PutLast DEF DownOK
<1> QED
  BY <1>1 DEF DownOK

LEMMA PutUp ==
  ASSUME UpOK, NEW c \in {"ACK", "NAK", "C", "CA"}
  PROVE  Put(up, c) \in Seq({"ACK", "NAK", "C", "CA"})
  BY PutLast DEF UpOK

LEMMA TailDown ==
  ASSUME DownOK, down # <<>>, down' = Tail(down)
  PROVE  DownOK' /\ Head(down) \in Message
<1>1. /\ Tail(down) \in Seq(Message) /\ Head(down) \in Message
      /\ \A j \in DOMAIN Tail(down) :
           j + 1 \in DOMAIN down /\ Tail(down)[j] = down[j + 1] /\ j > 0
  BY TailShifts DEF DownOK
<1> QED
  BY <1>1 DEF DownOK

(* The next packet of the sender is one of the files it has.               *)
LEMMA SendTyped ==
  ASSUME DownOK, SenderOK,
         NEW s \in Sending, NEW i \in Asked, NEW c \in Nat,
         s \in OfFile => i \in Files, Send(s, i, c)
  PROVE  DownOK' /\ SenderOK'
<1> DEFINE m == Msg(s, i, c)
<1>1. m \in Message /\ (m.kind \in OfFile => m.file \in Files)
  BY DEF Msg, Message, Kinds, Sending
<1>2. down' = Put(down, m) /\ stage' = s /\ f' = i /\ n' = c /\ tries' = 0
  BY DEF Send, Packet
<1> HIDE DEF m
<1>3. DownOK'
  BY <1>1, <1>2, PutDown
<1>4. SenderOK'
  BY <1>2 DEF SenderOK, Sending, OfFile
<1> QED
  BY <1>3, <1>4

LEMMA WaitTyped ==
  ASSUME DownOK, SenderOK, NEW s \in {"header?", "data?", "over"},
         NEW i \in Asked, s = "data?" => i \in Files, Wait(s, i)
  PROVE  DownOK' /\ SenderOK'
  BY DEF Wait, DownOK, SenderOK, OfFile, Sending

LEMMA AgainTyped ==
  ASSUME DownOK, SenderOK, stage \in Sending, Again
  PROVE  DownOK' /\ SenderOK'
<1>1. CASE tries < MaxTry
  <2>1. Packet \in Message /\ (Packet.kind \in OfFile => Packet.file \in Files)
    BY DEF SenderOK, Packet, Msg, Message, Kinds, Sending
  <2>2. DownOK'
    BY <1>1, <2>1, PutDown DEF Again
  <2> QED
    BY <1>1, <2>2 DEF Again, SenderOK
<1>2. CASE ~(tries < MaxTry)
  <2>1. PICK kind \in {"cancel", "abort"} : down' = Put(down, Msg(kind, f, n))
    BY <1>2 DEF Again
  <2>2. /\ Msg(kind, f, n) \in Message
        /\ Msg(kind, f, n).kind \notin OfFile
    BY DEF SenderOK, Msg, Message, Kinds, OfFile
  <2>3. DownOK'
    BY <2>1, <2>2, PutDown
  <2> QED
    BY <1>2, <2>3 DEF Again, SenderOK, OfFile, Sending
<1> QED
  BY <1>1, <1>2

LEMMA SenderTyped ==
  ASSUME TypeOK, Answer \/ Impatient
  PROVE  TypeOK'
<1>1. DownOK /\ UpOK /\ SenderOK /\ ReceiverOK /\ RestOK
  BY Types
<1>2. ReceiverOK' /\ RestOK'
  BY <1>1 DEF ReceiverOK, RestOK, Answer, Impatient, receiver, history
<1>3. CASE Impatient
  <2>1. DownOK' /\ SenderOK'
    BY <1>1, <1>3, AgainTyped DEF Impatient
  <2>2. UpOK'
    BY <1>1, <1>3 DEF Impatient, UpOK
  <2> QED
    BY <1>2, <2>1, <2>2 DEF TypeOK, DownOK, UpOK, SenderOK, ReceiverOK,
       RestOK
<1>4. CASE Answer
  <2>1. UpOK'
    BY <1>1, <1>4, TailShifts DEF Answer, UpOK
  <2>2. UNCHANGED <<sender, down>> => DownOK' /\ SenderOK'
    BY <1>1 DEF DownOK, SenderOK, sender
  <2>3. Acked => DownOK' /\ SenderOK'
    <3> SUFFICES ASSUME Acked  PROVE DownOK' /\ SenderOK'
      OBVIOUS
    <3>0. f \in Asked /\ n \in Nat /\ n + 1 \in Nat
      BY <1>1 DEF SenderOK
    <3>1. CASE stage = "header"
      BY <1>1, <3>0, <3>1, WaitTyped DEF Acked, SenderOK, OfFile
    <3>2. CASE stage = "block"
      <4>1. f \in Files
        BY <1>1, <3>2 DEF SenderOK, OfFile
      <4>2. Send("block", f, n + 1) \/ Send("eot", f, 0)
        BY <3>2 DEF Acked
      <4> QED
        BY <1>1, <3>0, <4>1, <4>2, SendTyped DEF Sending
    <3>3. CASE stage = "eot"
      <4>1. f + 1 \in Asked
        BY <1>1, <3>3, Constants DEF SenderOK, OfFile, Asked
      <4> QED
        BY <1>1, <3>3, <4>1, WaitTyped DEF Acked
    <3>4. CASE stage = "final"
      BY <1>1, <3>0, <3>4, WaitTyped DEF Acked
    <3>5. CASE stage \notin Sending
      BY <2>2, <3>5 DEF Acked, Sending
    <3> QED
      BY <3>1, <3>2, <3>3, <3>4, <3>5 DEF Sending
  <2>4. Called => DownOK' /\ SenderOK'
    <3> SUFFICES ASSUME Called  PROVE DownOK' /\ SenderOK'
      OBVIOUS
    <3>0. f \in Asked
      BY <1>1 DEF SenderOK
    <3>1. CASE stage = "header?"
      <4>1. \/ f \in Files /\ Send("header", f, 0)
            \/ Send("final", f, 0)
        BY <3>1 DEF Called
      <4> QED
        BY <1>1, <3>0, <4>1, SendTyped DEF Sending, OfFile
    <3>2. CASE stage = "data?"
      <4>1. f \in Files /\ Send("block", f, 1)
        BY <1>1, <3>2 DEF Called, SenderOK
      <4> QED
        BY <1>1, <3>0, <4>1, SendTyped DEF Sending
    <3>3. CASE stage \notin {"header?", "data?"}
      BY <2>2, <3>3 DEF Called
    <3> QED
      BY <3>1, <3>2, <3>3
  <2>5. Again /\ stage \in Sending => DownOK' /\ SenderOK'
    BY <1>1, AgainTyped
  <2>6. Wait("over", f) => DownOK' /\ SenderOK'
    BY <1>1, WaitTyped DEF SenderOK
  <2>7. DownOK' /\ SenderOK'
    BY <1>4, <2>2, <2>3, <2>4, <2>5, <2>6 DEF Answer
  <2> QED
    BY <1>2, <2>1, <2>7 DEF TypeOK, DownOK, UpOK, SenderOK, ReceiverOK,
       RestOK
<1> QED
  BY <1>3, <1>4

LEMMA LineTyped ==
  ASSUME TypeOK, Lose \/ Garble
  PROVE  TypeOK'
<1>1. DownOK /\ UpOK /\ SenderOK /\ ReceiverOK /\ RestOK
  BY Types
<1>2. SenderOK' /\ ReceiverOK' /\ RestOK'
  BY <1>1 DEF SenderOK, ReceiverOK, RestOK, Lose, Garble, receiver, sender,
     history
<1>3. ASSUME Lose  PROVE DownOK' /\ UpOK'
  <2>1. CASE down # <<>> /\ down' = Tail(down) /\ UNCHANGED up
    BY <1>1, <2>1, TailDown DEF UpOK
  <2>2. CASE up # <<>> /\ up' = Tail(up) /\ UNCHANGED down
    BY <1>1, <2>2, TailShifts DEF DownOK, UpOK
  <2> QED
    BY <1>3, <2>1, <2>2 DEF Lose
<1>4. ASSUME Garble  PROVE DownOK' /\ UpOK'
  <2>1. PICK kind \in {"noise", "changed"} :
          /\ kind = "changed" => Head(down).kind = "block"
          /\ down' = [down EXCEPT ![1].kind = kind]
    BY <1>4 DEF Garble
  <2>2. down # <<>> /\ 1 \in DOMAIN down /\ down[1] = Head(down)
        /\ down[1] \in Message
    BY <1>1, <1>4, TailShifts DEF Garble, DownOK
  <2>3. [down[1] EXCEPT !.kind = kind] \in Message
    BY <2>2 DEF Message, Kinds
  <2>4. down' \in Seq(Message)
    BY <1>1, <2>1, <2>2, <2>3 DEF DownOK
  <2>5. \A i \in DOMAIN down' :
          down'[i].kind \in OfFile => down'[i].file \in Files
    BY <1>1, <2>1, <2>2 DEF DownOK, OfFile, Message
  <2> QED
    BY <1>1, <1>4, <2>4, <2>5 DEF DownOK, UpOK, Garble
<1> QED
  BY <1>2, <1>3, <1>4 DEF TypeOK, DownOK, UpOK, SenderOK, ReceiverOK, RestOK

(* What is written of a packet, and how much.                              *)
LEMMA WrittenTyped ==
  ASSUME NEW m \in Message, NEW w \in Nat
  PROVE  Written(m, w) \in Seq(Asked \X Int) /\ Len(Written(m, w)) = w
<1>1. \A j \in 1 .. w : <<m.file, (m.block - 1) * Block + j>> \in Asked \X Int
  BY Constants DEF Message
<1> QED
  BY <1>1 DEF Written

LEMMA ClipTyped ==
  ASSUME NEW len \in Nat, size \in Int
  PROVE  Clip(len) \in Nat
  BY Constants DEF Clip

LEMMA ExitTyped ==
  ASSUME ReceiverOK, errors' \in Nat,
         NEW why \in {"cancel", "abort", "done", "write", "fault", "errors"},
         NEW result \in Int, Exit(why, result)
  PROVE  ReceiverOK'
<1>1. running' = FALSE /\ fp' = -1 /\ size' = result /\ reason' = why
      /\ UNCHANGED <<packets, begun, files>>
  BY DEF Exit
<1> QED
  BY <1>1 DEF ReceiverOK

LEMMA ReceiverTyped ==
  ASSUME TypeOK, Receive
  PROVE  TypeOK'
<1>1. DownOK /\ UpOK /\ SenderOK /\ ReceiverOK /\ RestOK
  BY Types
<1>2. SenderOK'
  BY <1>1 DEF SenderOK, Receive, Eot, Cancelled, WrongNumber, Header, Final,
     Data, NullData, Failed, Take, sender
<1>3. DownOK'
  <2>1. \/ down # <<>> /\ down' = Tail(down)
        \/ UNCHANGED down
    BY DEF Receive, Eot, Cancelled, WrongNumber, Header, Final, Data,
       NullData, Failed, Take
  <2>2. CASE UNCHANGED down
    BY <1>1, <2>2 DEF DownOK
  <2> QED
    BY <1>1, <2>1, <2>2, TailDown
<1>4. UpOK'
  <2>1. \/ UNCHANGED up
        \/ \E c \in {"ACK", "NAK", "C", "CA"} : up' = Put(up, c)
        \/ up' = Put(Put(up, "ACK"), "C")
    BY DEF Receive, Eot, Cancelled, WrongNumber, Header, Final, Data,
       NullData, Failed
  <2>2. Put(Put(up, "ACK"), "C") \in Seq({"ACK", "NAK", "C", "CA"})
    BY <1>1, PutUp, PutLast
  <2> QED
    BY <1>1, <2>1, <2>2, PutUp DEF UpOK
<1>5. ASSUME Take  PROVE Head(down) \in Message /\ Head(down) = down[1]
                         /\ 1 \in DOMAIN down
  BY <1>1, <1>5, TailShifts DEF Take, DownOK
<1>6. Eot => ReceiverOK' /\ RestOK'
  BY <1>1 DEF Eot, Take, ReceiverOK, RestOK
<1>7. Cancelled => ReceiverOK' /\ RestOK'
  <2> SUFFICES ASSUME Cancelled  PROVE ReceiverOK' /\ RestOK'
    OBVIOUS
  <2>1. /\ Exit("cancel", 0) \/ Exit("abort", -3)
        /\ errors' \in Nat
    BY <1>1 DEF Cancelled, ReceiverOK
  <2>2. ReceiverOK'
    BY <1>1, <2>1, ExitTyped
  <2> QED
    BY <1>1, <2>2 DEF Cancelled, Take, history, RestOK
<1>8. WrongNumber => ReceiverOK' /\ RestOK'
  BY <1>1 DEF WrongNumber, Take, history, ReceiverOK, RestOK
<1>9. ASSUME Header  PROVE ReceiverOK' /\ RestOK'
  <2>1. RestOK'
    BY <1>1, <1>9 DEF Header, Take, history, RestOK
  <2>2. Head(down).file \in Files
    BY <1>1, <1>5, <1>9 DEF Header, First, DownOK, OfFile
  <2>3. size' \in Int
    BY <1>9, <2>2, Constants DEF Header
  <2>4. fp' \in Files \cup {-1}
    BY <1>9, <2>2 DEF Header
  <2>5. files' \in [Files -> Seq(Asked \X Int)]
    <3>1. <<>> \in Seq(Asked \X Int)
      OBVIOUS
    <3>2. \/ files' = [files EXCEPT ![Head(down).file] = <<>>]
          \/ files' = files
      BY <1>9 DEF Header
    <3> QED
      BY <1>1, <3>1, <3>2 DEF ReceiverOK
  <2>6. ReceiverOK'
    BY <1>1, <1>9, <2>3, <2>4, <2>5 DEF Header, ReceiverOK
  <2> QED
    BY <2>1, <2>6
<1>10. Final => ReceiverOK' /\ RestOK'
  <2> SUFFICES ASSUME Final  PROVE ReceiverOK' /\ RestOK'
    OBVIOUS
  <2>1. Exit("done", size) /\ errors' \in Nat /\ size \in Int
    BY <1>1 DEF Final, ReceiverOK
  <2>2. ReceiverOK'
    BY <1>1, <2>1, ExitTyped
  <2> QED
    BY <1>1, <2>2 DEF Final, Take, history, RestOK
<1>11. ASSUME Data  PROVE ReceiverOK' /\ RestOK'
  <2>1. fp \in Files /\ files[fp] \in Seq(Asked \X Int)
        /\ Len(files[fp]) \in Nat
    BY <1>1, <1>11 DEF Data, ReceiverOK
  <2>2. CASE up' = Put(up, "CA") /\ Exit("write", -2) /\ UNCHANGED history
    <3>1. ReceiverOK'
      BY <1>1, <1>11, <2>2, ExitTyped DEF Data
    <3> QED
      BY <1>1, <1>11, <2>2, <3>1 DEF Data, Take, history, RestOK
  <2>3. CASE \E w \in 0 .. Clip(Len(files[fp])) :
                /\ files' = [files EXCEPT ![fp] = @ \o Written(Head(down), w)]
                /\ harmed' = IF w < Clip(Len(files[fp]))
                                \/ Head(down).kind = "changed"
                             THEN harmed \cup {fp} ELSE harmed
                /\ up' = Put(up, "ACK")
                /\ packets' = packets + 1 /\ begun' = TRUE
                /\ UNCHANGED <<running, fp, size, reason, twice>>
    <3>1. PICK w \in 0 .. Clip(Len(files[fp])) :
                /\ files' = [files EXCEPT ![fp] = @ \o Written(Head(down), w)]
                /\ harmed' \in {harmed \cup {fp}, harmed}
                /\ packets' = packets + 1 /\ begun' = TRUE
                /\ UNCHANGED <<running, fp, size, reason, twice>>
      BY <2>3
    <3>2. w \in Nat
      BY <1>1, <2>1, ClipTyped DEF ReceiverOK
    <3>3. Written(Head(down), w) \in Seq(Asked \X Int)
      BY <1>5, <1>11, <3>2, WrittenTyped DEF Data
    <3>4. files[fp] \o Written(Head(down), w) \in Seq(Asked \X Int)
      BY <2>1, <3>3
    <3>5. files' \in [Files -> Seq(Asked \X Int)]
      BY <1>1, <3>1, <3>4 DEF ReceiverOK
    <3>6. errors' = 0 /\ UNCHANGED faults
      BY <1>11 DEF Data, Take
    <3>7. ReceiverOK'
      BY <1>1, <3>1, <3>5, <3>6 DEF ReceiverOK
    <3>8. RestOK'
      BY <1>1, <2>1, <3>1, <3>6 DEF RestOK
    <3> QED
      BY <3>7, <3>8
  <2> QED
    BY <1>11, <2>2, <2>3 DEF Data
<1>12. NullData => ReceiverOK' /\ RestOK'
  <2> SUFFICES ASSUME NullData  PROVE ReceiverOK' /\ RestOK'
    OBVIOUS
  <2>1. Exit("fault", 0) /\ errors' \in Nat
    BY <1>1 DEF NullData, ReceiverOK
  <2>2. ReceiverOK'
    BY <1>1, <2>1, ExitTyped
  <2> QED
    BY <1>1, <2>2 DEF NullData, Take, history, RestOK
<1>13. Failed => ReceiverOK' /\ RestOK'
  <2> SUFFICES ASSUME Failed  PROVE ReceiverOK' /\ RestOK'
    OBVIOUS
  <2>1. errors' \in Nat /\ size \in Int
    BY <1>1 DEF Failed, ReceiverOK
  <2>2. \/ Exit("errors", size)
        \/ UNCHANGED <<running, fp, size, packets, begun, files, reason>>
    BY DEF Failed
  <2>3. ReceiverOK'
    BY <1>1, <2>1, <2>2, ExitTyped DEF ReceiverOK
  <2> QED
    BY <1>1, <2>3 DEF Failed, history, RestOK
<1>14. ReceiverOK' /\ RestOK'
  BY <1>6, <1>7, <1>8, <1>9, <1>10, <1>11, <1>12, <1>13 DEF Receive
<1> QED
  BY <1>2, <1>3, <1>4, <1>14 DEF TypeOK, DownOK, UpOK, SenderOK, ReceiverOK,
     RestOK

LEMMA Typed == TypeOK /\ [Next]_vars => TypeOK'
<1> SUFFICES ASSUME TypeOK, [Next]_vars  PROVE TypeOK'
  OBVIOUS
<1>1. CASE UNCHANGED vars
  BY <1>1 DEF TypeOK, vars, sender, receiver, history
<1> QED
  BY <1>1, SenderTyped, LineTyped, ReceiverTyped DEF Next, Done

LEMMA InitTyped == Init => TypeOK
<1>1. 1 \in Files /\ 1 \in Asked
  BY Constants DEF Asked
<1>2. [i \in Files |-> <<>>] \in [Files -> Seq(Asked \X Int)]
  <2>1. <<>> \in Seq(Asked \X Int)
    OBVIOUS
  <2> QED
    BY <2>1
<1>3. Init => /\ down \in Seq(Message)
              /\ up \in Seq({"ACK", "NAK", "C", "CA"})
              /\ DOMAIN down = {}
  BY DEF Init
<1>4. Init => DownOK /\ UpOK
  BY <1>3 DEF DownOK, UpOK
<1>5. Init => SenderOK
  BY <1>1 DEF Init, SenderOK, Sending, OfFile
<1>6. Init => running \in BOOLEAN /\ begun \in BOOLEAN
              /\ twice \in BOOLEAN
  BY Zenon DEF Init
<1>7. Init => /\ fp \in Files \cup {-1} /\ size \in Int
              /\ packets \in Nat /\ errors \in Nat /\ faults \in Nat
              /\ files \in [Files -> Seq(Asked \X Int)]
              /\ harmed \subseteq Files
  BY <1>2 DEF Init
<1> QED
  BY <1>4, <1>5, <1>6, <1>7, Types DEF Init, ReceiverOK, RestOK

(* Every variable always has its type: neither the sender nor a packet     *)
(* names a file that is not there (external, and libYmodem.c:161-176).     *)
THEOREM UploadTyped == Spec => []TypeOK
<1> QED
  BY InitTyped, Typed, PTL DEF Spec

-----------------------------------------------------------------------------
(* Sender and receiver stay in step: what the sender does.                 *)

LEMMA Idle ==
  ASSUME TypeOK, InStep, UNCHANGED <<sender, down, packets, fp>>,
         up' = up \/ (up # <<>> /\ up' = Tail(up))
  PROVE  InStep'
<1>1. \A i \in DOMAIN up' : \E j \in DOMAIN up :
        up'[i] = up[j] /\ j = IF up' = up THEN i ELSE i + 1
  BY TailShifts DEF TypeOK
<1>2. \A i \in DOMAIN up' : i \in Nat
  BY Typed, TailShifts DEF TypeOK
<1>3. OldThenDue' /\ SenderNear'
  BY DEF InStep, OldThenDue, SenderNear, sender, Packet
<1>4. OneAnswer'
  BY <1>1, <1>2 DEF InStep, OneAnswer, sender, Packet
<1>5. NoFile'
  BY <1>1 DEF InStep, NoFile, sender
<1> QED
  BY <1>3, <1>4, <1>5 DEF InStep

LEMMA Over ==
  ASSUME TypeOK, InStep, stage' = "over", UNCHANGED <<packets, fp>>,
         \/ UNCHANGED down
         \/ \E kind \in {"cancel", "abort"} :
              down' = Put(down, Msg(kind, f, n))
  PROVE  InStep'
<1>1. CASE UNCHANGED down
  BY <1>1 DEF InStep, OldThenDue, SenderNear, OneAnswer, NoFile, Sending
<1>2. ASSUME NEW kind \in {"cancel", "abort"},
             down' = Put(down, Msg(kind, f, n))
      PROVE  InStep'
  <2> DEFINE m == Msg(kind, f, n)
  <2>1. m \in Message /\ m.kind = kind
    BY DEF Msg, Message, Kinds, TypeOK
  <2>2. ~Due(packets, fp, m) /\ ~Old(packets, fp, m)
    BY <2>1 DEF Due, Old, Msg
  <2> HIDE DEF m
  <2>3. \A j \in DOMAIN down' : \/ j \in DOMAIN down /\ down'[j] = down[j]
                                \/ j = Len(down) + 1 /\ down'[j] = m
    BY <1>2, <2>1, PutLast DEF TypeOK, m
  <2>4. OldThenDue'
    BY <2>1, <2>2, <2>3 DEF InStep, OldThenDue
  <2> QED
    BY <2>4 DEF InStep, SenderNear, OneAnswer, NoFile, Sending
<1> QED
  BY <1>1, <1>2

(* The sender goes on to the message due, or waits to be called for it.    *)
LEMMA Sent ==
  ASSUME TypeOK, InStep, NEW s \in Sending, NEW i, NEW c,
         Due(packets, fp, Msg(s, i, c)), Msg(s, i, c) \in Message,
         Send(s, i, c), UNCHANGED <<packets, fp>>,
         \A j \in DOMAIN up' : up'[j] # "ACK"
  PROVE  InStep'
<1> DEFINE m == Msg(s, i, c)
<1>1. Packet' = m /\ stage' = s /\ down' = Put(down, m)
  BY DEF Send, Packet
<1> HIDE DEF m
<1>2. ~Old(packets, fp, m)
  BY Apart DEF m, TypeOK
<1>3. \A j \in DOMAIN down' : \/ j \in DOMAIN down /\ down'[j] = down[j]
                              \/ j = Len(down) + 1 /\ down'[j] = m
  BY <1>1, PutLast DEF TypeOK, m
<1>4. \A j \in DOMAIN down' : j \in Nat /\ j <= Len(down) + 1
  BY <1>3 DEF TypeOK
<1>5. OldThenDue'
  BY SMTT(30), <1>2, <1>3, <1>4 DEF InStep, OldThenDue, m, TypeOK
<1>6. SenderNear'
  BY <1>1 DEF SenderNear, m, Sending
<1>7. OneAnswer'
  BY DEF OneAnswer
<1>8. NoFile'
  BY DEF NoFile, Due
<1> QED
  BY <1>5, <1>6, <1>7, <1>8 DEF InStep

LEMMA Waited ==
  ASSUME TypeOK, InStep, NEW s \in {"header?", "data?"}, NEW i, Wait(s, i),
         s = "header?" => packets = 0 /\ i = Turn(fp),
         s = "data?" => packets = 1 /\ i = fp /\ fp # -1,
         UNCHANGED <<packets, fp>>,
         \A j \in DOMAIN down : ~Due(packets, fp, down[j]),
         \A j \in DOMAIN up' : up'[j] # "ACK"
  PROVE  InStep'
  BY DEF InStep, OldThenDue, SenderNear, OneAnswer, NoFile, Wait, Sending

LEMMA Repeated ==
  ASSUME TypeOK, InStep, stage \in Sending, Again,
         UNCHANGED <<packets, fp>>,
         up' = up \/ (up # <<>> /\ up' = Tail(up))
  PROVE  InStep'
<1>1. CASE tries < MaxTry
  <2> DEFINE m == Packet
  <2>1. m \in Message
    BY DEF TypeOK, Packet, Msg, Message, Kinds, Sending
  <2>2. Packet' = m /\ stage' = stage /\ down' = Put(down, m)
    BY <1>1 DEF Again, Packet
  <2>3. \A j \in DOMAIN down' : \/ j \in DOMAIN down /\ down'[j] = down[j]
                                \/ j = Len(down) + 1 /\ down'[j] = m
    BY <2>1, <2>2, PutLast DEF TypeOK
  <2>4. \A j \in DOMAIN down' : j \in Nat /\ j <= Len(down) + 1
    BY <2>3 DEF TypeOK
  <2>5. Old(packets, fp, m) \/ Due(packets, fp, m)
    BY DEF InStep, SenderNear
  <2>6. ~(Old(packets, fp, m) /\ Due(packets, fp, m))
    BY Apart DEF TypeOK
  <2>7. stage # "over"
    BY DEF Sending
  <2>8. \A j \in DOMAIN down : Due(packets, fp, down[j]) => Due(packets, fp, m)
    BY <2>7 DEF InStep, SenderNear
  <2> HIDE DEF m
  <2>9. OldThenDue'
    <3>1. Len(down) \in Nat /\ \A j \in DOMAIN down : j <= Len(down)
      BY DEF TypeOK
    <3>2. \A j \in DOMAIN down' :
            \/ Old(packets, fp, down'[j])
            \/ Due(packets, fp, down'[j])
            \/ down'[j].kind \in {"noise", "cancel", "abort"}
      BY <2>3, <2>5 DEF InStep, OldThenDue
    <3>3. ASSUME NEW i \in DOMAIN down', NEW j \in DOMAIN down', i < j,
                 Due(packets, fp, down'[i])
          PROVE  ~Old(packets, fp, down'[j])
      <4>1. i \in DOMAIN down /\ down'[i] = down[i]
        BY <2>3, <2>4, <3>1, <3>3
      <4>2. CASE j \in DOMAIN down /\ down'[j] = down[j]
        BY <3>3, <4>1, <4>2 DEF InStep, OldThenDue
      <4>3. CASE down'[j] = m
        BY <2>6, <2>8, <3>3, <4>1, <4>3
      <4> QED
        BY <2>3, <4>2, <4>3
    <3> QED
      BY <3>2, <3>3 DEF OldThenDue
  <2>10. SenderNear'
    BY <2>2, <2>5, <2>3, <2>8 DEF SenderNear, Sending
  <2>11. \A i \in DOMAIN up' : \E j \in DOMAIN up :
           up'[i] = up[j] /\ j = IF up' = up THEN i ELSE i + 1
    BY TailShifts DEF TypeOK
  <2>12. \A i \in DOMAIN up' : i \in Nat
    BY TailShifts DEF TypeOK
  <2>13. OneAnswer'
    BY <2>2, <2>11, <2>12 DEF InStep, OneAnswer, m
  <2>14. NoFile'
    BY <2>2, <2>11 DEF InStep, NoFile
  <2> QED
    BY <2>9, <2>10, <2>13, <2>14 DEF InStep
<1>2. CASE ~(tries < MaxTry)
  BY <1>2, Over DEF Again
<1> QED
  BY <1>1, <1>2

LEMMA AckedInStep ==
  ASSUME TypeOK, InStep, up # <<>>, Head(up) = "ACK", up' = Tail(up), Acked,
         UNCHANGED <<packets, fp>>
  PROVE  InStep'
<1>1. CASE stage = "over"
  BY <1>1, Idle DEF Acked
<1>2. CASE stage # "over"
  <2>1. 1 \in DOMAIN up /\ up[1] = "ACK"
    BY TailShifts DEF TypeOK
  <2>2. stage \in Sending /\ Old(packets, fp, Packet)
        /\ \A j \in DOMAIN up : up[j] = "ACK" => 1 = j
    BY <1>2, <2>1 DEF InStep, OneAnswer
  <2>3. \A j \in DOMAIN up' : up'[j] # "ACK"
    BY <2>2, TailShifts DEF TypeOK
  <2>4. \A j \in DOMAIN down : ~Due(packets, fp, down[j])
    BY <1>2, <2>2, Apart DEF InStep, SenderNear, TypeOK
  <2>5. f \in Asked /\ n \in Nat /\ packets \in Nat /\ fp \in Files \cup {-1}
    BY DEF TypeOK
  <2>6. CASE stage = "header"
    <3>1. packets = 1 /\ (fp # -1 => f = fp)
      BY <2>2, <2>6 DEF Old, Packet, Msg
    <3>2. fp # -1
      BY <2>1, <2>6, <3>1 DEF InStep, NoFile
    <3>3. Wait("data?", f)
      BY <2>6 DEF Acked
    <3> QED
      BY <2>3, <2>4, <3>1, <3>2, <3>3, Waited
  <2>7. CASE stage = "block"
    <3>1. packets > 1 /\ f = fp /\ n = packets - 1 /\ f \in Files
      BY <2>2, <2>7 DEF Old, Packet, Msg, TypeOK, OfFile
    <3>2. fp # -1 /\ packets - 1 + 1 = packets
      BY <2>5, <3>1, Constants
    <3>3. CASE n * Block < Size[f]
      <4>1. Send("block", f, packets)
        BY <2>7, <3>1, <3>2, <3>3 DEF Acked
      <4>2. Due(packets, fp, Msg("block", f, packets))
        BY <3>1, <3>2, <3>3 DEF Due
      <4>3. Msg("block", f, packets) \in Message
        BY <2>5 DEF Msg, Message, Kinds
      <4> QED
        BY <2>3, <4>1, <4>2, <4>3, Sent DEF Sending
    <3>4. CASE ~(n * Block < Size[f])
      <4>1. Send("eot", f, 0)
        BY <2>7, <3>4 DEF Acked
      <4>2. (packets - 1) * Block >= Size[fp]
        BY <2>5, <3>1, <3>4, Constants
      <4>3. Due(packets, fp, Msg("eot", f, 0))
        BY <3>1, <3>2, <4>2 DEF Due
      <4>4. Msg("eot", f, 0) \in Message
        BY <2>5 DEF Msg, Message, Kinds
      <4> QED
        BY <2>3, <4>1, <4>3, <4>4, Sent DEF Sending
    <3> QED
      BY <3>3, <3>4
  <2>8. CASE stage = "eot"
    <3>1. packets = 0 /\ fp # -1 /\ f = fp
      BY <2>2, <2>8 DEF Old, Packet, Msg
    <3>2. Wait("header?", f + 1) /\ f + 1 = Turn(fp)
      BY <2>8, <3>1 DEF Acked, Turn
    <3> QED
      BY <2>3, <2>4, <3>1, <3>2, Waited
  <2>9. CASE stage = "final"
    BY <2>2, <2>9 DEF Old, Packet, Msg
  <2> QED
    BY <2>2, <2>6, <2>7, <2>8, <2>9 DEF Sending
<1> QED
  BY <1>1, <1>2

LEMMA CalledInStep ==
  ASSUME TypeOK, InStep, up # <<>>, up' = Tail(up), Called,
         UNCHANGED <<packets, fp>>
  PROVE  InStep'
<1>1. CASE stage \notin {"header?", "data?"}
  BY <1>1, Idle DEF Called
<1>2. CASE stage \in {"header?", "data?"}
  <2>1. \A j \in DOMAIN up : up[j] # "ACK"
    BY <1>2 DEF InStep, OneAnswer, Sending
  <2>2. \A j \in DOMAIN up' : up'[j] # "ACK"
    BY <2>1, TailShifts DEF TypeOK
  <2>3. f \in Asked /\ n \in Nat /\ packets \in Nat /\ fp \in Files \cup {-1}
    BY DEF TypeOK
  <2>4. CASE stage = "header?"
    <3>1. packets = 0 /\ f = Turn(fp)
      BY <2>4 DEF InStep, SenderNear
    <3>2. PICK s \in {"header", "final"} :
            Send(s, f, 0) /\ (s = "header" <=> f \in Files)
      BY <2>4 DEF Called
    <3>3. Due(packets, fp, Msg(s, f, 0))
      BY <3>1, <3>2 DEF Due
    <3>4. Msg(s, f, 0) \in Message
      BY <2>3 DEF Msg, Message, Kinds
    <3> QED
      BY <2>2, <3>2, <3>3, <3>4, Sent DEF Sending
  <2>5. CASE stage = "data?"
    <3>1. packets = 1 /\ f = fp /\ f \in Files
      BY <2>5 DEF InStep, SenderNear, TypeOK
    <3>2. (packets - 1) * Block < Size[fp] /\ fp # -1
      BY <3>1, Constants
    <3>3. Due(packets, fp, Msg("block", f, 1))
      BY <3>1, <3>2 DEF Due
    <3>4. Send("block", f, 1)
      BY <2>5 DEF Called
    <3>5. Msg("block", f, 1) \in Message
      BY <2>3 DEF Msg, Message, Kinds
    <3> QED
      BY <2>2, <3>3, <3>4, <3>5, Sent DEF Sending
  <2> QED
    BY <1>2, <2>4, <2>5
<1> QED
  BY <1>1, <1>2

LEMMA SenderInStep ==
  ASSUME TypeOK, InStep, Answer \/ Impatient
  PROVE  InStep'
<1>1. UNCHANGED <<packets, fp>>
  BY DEF Answer, Impatient, receiver
<1>2. CASE Impatient
  BY <1>1, <1>2, Repeated DEF Impatient
<1>3. CASE Answer
  <2>1. up # <<>> /\ up' = Tail(up)
    BY <1>3 DEF Answer
  <2>2. CASE Head(up) = "ACK"
    BY <1>1, <1>3, <2>1, <2>2, AckedInStep DEF Answer
  <2>3. CASE Head(up) = "C"
    BY <1>1, <1>3, <2>1, <2>3, CalledInStep DEF Answer
  <2>4. CASE Head(up) = "NAK" /\ stage \in Sending
    BY <1>1, <1>3, <2>1, <2>4, Repeated DEF Answer
  <2>5. CASE Head(up) = "CA"
    BY <1>1, <1>3, <2>1, <2>5, Over DEF Answer, Wait
  <2>6. CASE UNCHANGED <<sender, down>>
    BY <1>1, <2>1, <2>6, Idle
  <2> QED
    BY <1>3, <2>2, <2>3, <2>4, <2>5, <2>6 DEF Answer
<1> QED
  BY <1>2, <1>3

-----------------------------------------------------------------------------
(* What the line and the receiver do.                                      *)

(* A message is passed over: lost, or of no use.                           *)
LEMMA PassedOver ==
  ASSUME TypeOK, InStep, UNCHANGED <<sender, packets, fp>>,
         down' = down \/ (down # <<>> /\ down' = Tail(down)),
         \A i \in DOMAIN up' :
            up'[i] = "ACK" => i \in DOMAIN up /\ up[i] = "ACK"
  PROVE  InStep'
<1> DEFINE from(i) == IF down' = down THEN i ELSE i + 1
<1>1. \A i \in DOMAIN down' : i \in Nat /\ from(i) \in DOMAIN down
                              /\ down'[i] = down[from(i)]
  <2>1. CASE down' = down
    BY <2>1 DEF TypeOK
  <2>2. CASE down' # down
    BY <2>2, TailShifts DEF TypeOK
  <2> QED
    BY <2>1, <2>2
<1>2. \A i, j \in DOMAIN down' : i < j => from(i) < from(j)
  BY <1>1
<1> HIDE DEF from
<1>3. OldThenDue'
  BY <1>1, <1>2 DEF InStep, OldThenDue
<1>4. SenderNear'
  BY <1>1 DEF InStep, SenderNear, sender, Packet
<1>5. OneAnswer' /\ NoFile'
  BY DEF InStep, OneAnswer, NoFile, sender, Packet
<1> QED
  BY <1>3, <1>4, <1>5 DEF InStep

LEMMA LineInStep ==
  ASSUME TypeOK, InStep, Lose \/ Garble
  PROVE  InStep'
<1>1. UNCHANGED <<sender, packets, fp>>
  BY DEF Lose, Garble, receiver
<1>2. CASE Lose
  <2>1. CASE down # <<>> /\ down' = Tail(down) /\ UNCHANGED up
    BY <1>1, <2>1, PassedOver
  <2>2. CASE up # <<>> /\ up' = Tail(up) /\ UNCHANGED down
    BY <1>1, <2>2, Idle
  <2> QED
    BY <1>2, <2>1, <2>2 DEF Lose
<1>3. CASE Garble
  <2>1. PICK kind \in {"noise", "changed"} :
          /\ kind = "changed" => down[1].kind = "block"
          /\ down' = [down EXCEPT ![1].kind = kind]
    BY <1>3, TailShifts DEF Garble, TypeOK
  <2>2. /\ DOMAIN down' = DOMAIN down /\ 1 \in DOMAIN down
        /\ down[1] \in Message /\ down'[1] = [down[1] EXCEPT !.kind = kind]
        /\ \A i \in DOMAIN down : i # 1 => down'[i] = down[i]
    BY <1>3, <2>1, TailShifts DEF Garble, TypeOK
  <2>3. CASE kind = "noise"
    <3>1. down'[1].kind = "noise"
      BY <2>2, <2>3 DEF Message
    <3>2. ~Due(packets, fp, down'[1]) /\ ~Old(packets, fp, down'[1])
      BY <3>1 DEF Due, Old, Msg
    <3>3. OldThenDue'
      BY <1>1, <2>2, <3>1, <3>2 DEF InStep, OldThenDue
    <3> QED
      BY <1>1, <1>3, <2>2, <3>2, <3>3
         DEF InStep, SenderNear, OneAnswer, NoFile, Garble, sender, Packet
  <2>4. CASE kind = "changed"
    <3>1. /\ down'[1].kind = "changed" /\ down[1].kind = "block"
          /\ down'[1].file = down[1].file /\ down'[1].block = down[1].block
          /\ down'[1] \in Message
      BY <2>1, <2>2, <2>4 DEF Message, Kinds
    <3>2. /\ down[1] = Msg("block", down[1].file, down[1].block)
          /\ down'[1] = Msg("changed", down[1].file, down[1].block)
      BY <2>2, <3>1 DEF Message, Msg
    <3>3. /\ Due(packets, fp, down'[1]) <=> Due(packets, fp, down[1])
          /\ Old(packets, fp, down'[1]) <=> Old(packets, fp, down[1])
      BY <3>1, <3>2 DEF Due, Old, Msg
    <3>4. \A i \in DOMAIN down :
            /\ Due(packets, fp, down'[i]) <=> Due(packets, fp, down[i])
            /\ Old(packets, fp, down'[i]) <=> Old(packets, fp, down[i])
      BY <2>2, <3>3
    <3>5. Old(packets, fp, down[1]) \/ Due(packets, fp, down[1])
      BY <2>2, <3>1 DEF InStep, OldThenDue
    <3>6. OldThenDue'
      BY <1>1, <2>2, <3>4, <3>5 DEF InStep, OldThenDue
    <3> QED
      BY <1>1, <1>3, <2>2, <3>4, <3>6
         DEF InStep, SenderNear, OneAnswer, NoFile, Garble, sender, Packet
  <2> QED
    BY <2>3, <2>4
<1> QED
  BY <1>2, <1>3

(* The message due is taken and answered.                                  *)
LEMMA TakenInStep ==
  ASSUME TypeOK, InStep, Take, Due(packets, fp, Head(down)),
         packets' \in Nat, fp' \in Files \cup {-1},
         \A m : Due(packets, fp, m) => Old(packets', fp', m),
         \A i \in DOMAIN up' : up'[i] = "ACK" =>
            \/ i \in DOMAIN up /\ up[i] = "ACK"
            \/ i = Len(up) + 1 /\ fp' # -1
  PROVE  InStep'
<1>1. /\ 1 \in DOMAIN down /\ Head(down) = down[1]
      /\ \A j \in DOMAIN down' : /\ j + 1 \in DOMAIN down /\ 1 < j + 1
                                 /\ down'[j] = down[j + 1]
  BY TailShifts DEF Take, TypeOK
<1>2. \A j \in DOMAIN down' : \/ Due(packets, fp, down'[j])
                              \/ down'[j].kind \in {"noise", "cancel", "abort"}
  BY <1>1 DEF InStep, OldThenDue
<1>3. \A j \in DOMAIN down' : \/ Old(packets', fp', down'[j])
                              \/ down'[j].kind \in {"noise", "cancel", "abort"}
  BY <1>2
<1>4. \A m : m.kind \in {"noise", "cancel", "abort"} => ~Due(packets', fp', m)
  BY DEF Due, Msg
<1>5. \A j \in DOMAIN down' : ~Due(packets', fp', down'[j])
  BY <1>3, <1>4, Apart
<1>6. stage # "over" => stage \in Sending /\ Due(packets, fp, Packet)
  BY <1>1 DEF InStep, SenderNear
<1>7. stage # "over" => /\ stage \in Sending /\ Old(packets', fp', Packet)
                        /\ ~Old(packets, fp, Packet)
  BY <1>6, Apart DEF TypeOK
<1>8. stage' = stage /\ Packet' = Packet
  BY DEF Take, sender, Packet
<1>9. OldThenDue'
  BY <1>3, <1>5 DEF OldThenDue
<1>10. SenderNear'
  BY <1>5, <1>7, <1>8 DEF SenderNear, Sending
<1>11. OneAnswer'
  <2> SUFFICES ASSUME stage # "over"
               PROVE  \A i, j \in DOMAIN up' :
                        up'[i] = "ACK" /\ up'[j] = "ACK" => i = j
    BY <1>7, <1>8 DEF OneAnswer
  <2>1. \A i \in DOMAIN up : up[i] # "ACK"
    BY <1>7 DEF InStep, OneAnswer
  <2> QED
    BY <2>1
<1>12. NoFile'
  <2> SUFFICES ASSUME packets' > 0, fp' = -1
               PROVE  /\ packets' = 1
                      /\ stage = "header" \/ stage = "over"
                      /\ stage = "header" =>
                           \A i \in DOMAIN up' : up'[i] # "ACK"
    BY <1>8 DEF NoFile
  <2>1. Old(packets', fp', Head(down))
    OBVIOUS
  <2>2. packets' = 1
    <3>1. ~Due(packets', fp', Head(down))
      BY <2>1, Apart
    <3>2. Head(down).file # -1
      <4>1. Head(down) \in Message
        BY <1>1 DEF TypeOK
      <4>2. Head(down).file \in 1 .. Len(Size) + 1
        BY <4>1 DEF Message, Asked
      <4> QED
        BY <4>2, Constants
    <3> QED
      BY <2>1, <3>2 DEF Old, Msg
  <2>3. stage # "over" => stage = "header"
    BY <1>7, <2>2 DEF Old, Packet, Msg
  <2>4. stage = "header" => \A i \in DOMAIN up : up[i] # "ACK"
    BY <1>7 DEF InStep, OneAnswer
  <2> QED
    BY <2>2, <2>3, <2>4
<1> QED
  BY <1>9, <1>10, <1>11, <1>12 DEF InStep

(* New answers on the line back.                                           *)
LEMMA AckLast ==
  ASSUME TypeOK
  PROVE  /\ \A i \in DOMAIN Put(up, "ACK") : Put(up, "ACK")[i] = "ACK" =>
              (i \in DOMAIN up /\ up[i] = "ACK") \/ i = Len(up) + 1
         /\ \A i \in DOMAIN Put(Put(up, "ACK"), "C") :
              Put(Put(up, "ACK"), "C")[i] = "ACK" =>
                 (i \in DOMAIN up /\ up[i] = "ACK") \/ i = Len(up) + 1
         /\ \A c \in {"NAK", "C", "CA"} : \A i \in DOMAIN Put(up, c) :
              Put(up, c)[i] = "ACK" => i \in DOMAIN up /\ up[i] = "ACK"
<1> DEFINE T == {"ACK", "NAK", "C", "CA"}
<1>1. up \in Seq(T)
  BY DEF TypeOK
<1>2. \A c \in T : /\ Put(up, c) \in Seq(T)
                   /\ \A j \in DOMAIN Put(up, c) :
                        \/ j \in DOMAIN up /\ Put(up, c)[j] = up[j]
                        \/ j = Len(up) + 1 /\ Put(up, c)[j] = c
  BY <1>1, PutLast
<1>3. \A j \in DOMAIN Put(Put(up, "ACK"), "C") :
        \/ /\ j \in DOMAIN Put(up, "ACK")
           /\ Put(Put(up, "ACK"), "C")[j] = Put(up, "ACK")[j]
        \/ Put(Put(up, "ACK"), "C")[j] = "C"
  <2>1. Put(up, "ACK") \in Seq(T) /\ "C" \in T
    BY <1>2
  <2> HIDE DEF T
  <2> QED
    BY <2>1, PutLast
<1> QED
  BY <1>2, <1>3

(* What is taken for a packet, with the number expected, is the one due.   *)
LEMMA TakenIsDue ==
  ASSUME TypeOK, InStep, Take, IsPacket, Expected
  PROVE  Due(packets, fp, Head(down))
<1>1. 1 \in DOMAIN down /\ Head(down) = down[1]
  BY TailShifts DEF Take, TypeOK
<1>2. ~Old(packets, fp, Head(down))
  <2> SUFFICES ASSUME Old(packets, fp, Head(down))  PROVE FALSE
    OBVIOUS
  <2>1. /\ Head(down).kind \in {"header", "block", "changed"} =>
             Head(down).block % Mod # packets % Mod
        /\ Head(down).kind \in {"header", "block", "changed", "eot"}
    BY Apart DEF TypeOK
  <2> QED
    BY <2>1 DEF IsPacket, Expected
<1> QED
  BY <1>1, <1>2 DEF InStep, OldThenDue, IsPacket

LEMMA EotIsDue ==
  ASSUME TypeOK, InStep, Eot, ~twice'
  PROVE  packets > 0 /\ fp # -1 /\ Due(packets, fp, Head(down))
         /\ ~((packets - 1) * Block < Size[fp])
<1>1. 1 \in DOMAIN down /\ Head(down) = down[1] /\ Head(down).kind = "eot"
  BY TailShifts DEF Eot, Take, TypeOK
<1>2. packets > 0
  <2>1. packets = 0 => twice'
    BY Zenon DEF Eot
  <2> QED
    BY <2>1 DEF TypeOK
<1>3. ~Old(packets, fp, Head(down))
  BY <1>1, <1>2, Apart DEF TypeOK
<1>4. Due(packets, fp, Head(down))
  BY <1>1, <1>3 DEF InStep, OldThenDue
<1>5. fp # -1 /\ (packets - 1) * Block >= Size[fp]
  BY <1>1, <1>2, <1>4, DueIs DEF TypeOK
<1>6. (packets - 1) * Block \in Int /\ Size[fp] \in Int
  BY <1>5, Constants DEF TypeOK
<1> QED
  BY <1>2, <1>4, <1>5, <1>6

LEMMA HeaderIsDue ==
  ASSUME TypeOK, InStep, Header
  PROVE  /\ Due(packets, fp, Head(down)) /\ Head(down).kind = "header"
         /\ Head(down).file = Turn(fp) /\ Turn(fp) \in Files
<1>1. Due(packets, fp, Head(down))
  BY TakenIsDue DEF Header, First, IsPacket
<1>2. packets \in Nat /\ fp \in Files \cup {-1} /\ packets = 0
      /\ Head(down).kind # "final"
  BY DEF TypeOK, Header, First
<1> QED
  BY <1>1, <1>2, DueIs

LEMMA FinalIsDue ==
  ASSUME TypeOK, InStep, Final
  PROVE  Due(packets, fp, Head(down)) /\ Turn(fp) \notin Files
<1>1. Due(packets, fp, Head(down))
  BY TakenIsDue DEF Final, First, IsPacket
<1> QED
  BY <1>1, DueIs DEF Final, First, TypeOK

LEMMA DataIsDue ==
  ASSUME TypeOK, InStep, Data
  PROVE  /\ Due(packets, fp, Head(down)) /\ packets > 0 /\ fp \in Files
         /\ Head(down).file = fp /\ Head(down).block = packets
         /\ (packets - 1) * Block < Size[fp]
<1>1. Due(packets, fp, Head(down))
  BY TakenIsDue DEF Data
<1>2. Head(down).kind \in {"block", "changed"}
  <2>1. packets \in Nat /\ fp \in Files \cup {-1} /\ packets > 0
        /\ Head(down).kind # "eot"
    BY DEF TypeOK, Data, IsPacket
  <2> QED
    BY <1>1, <2>1, DueIs
<1> QED
  BY <1>1, <1>2, DueIs DEF Data, TypeOK

LEMMA NoNullData ==
  ASSUME TypeOK, InStep
  PROVE  ~NullData
<1> SUFFICES ASSUME NullData  PROVE FALSE
  OBVIOUS
<1>1. Due(packets, fp, Head(down))
  BY TakenIsDue DEF NullData
<1> QED
  BY <1>1, DueIs DEF NullData, TypeOK

LEMMA ReceiverInStep ==
  ASSUME TypeOK, InStep, Receive, running', ~twice'
  PROVE  InStep'
<1>1. TypeOK'
  BY ReceiverTyped
<1>2. packets' \in Nat /\ fp' \in Files \cup {-1}
  BY <1>1 DEF TypeOK
<1>3. packets \in Nat /\ fp \in Files \cup {-1}
  BY DEF TypeOK
<1>4. CASE Eot
  <2>1. packets > 0 /\ fp # -1 /\ Due(packets, fp, Head(down))
        /\ ~((packets - 1) * Block < Size[fp])
    BY <1>4, EotIsDue
  <2>2. Take /\ packets' = 0 /\ fp' = fp /\ up' = Put(up, "ACK")
    BY <1>4 DEF Eot
  <2>3. \A m : Due(packets, fp, m) => Old(packets', fp', m)
    BY <1>3, <2>1, <2>2, DueThenOld
  <2> QED
    BY <1>2, <2>1, <2>2, <2>3, AckLast, TakenInStep
<1>5. ~Cancelled /\ ~Final
  BY DEF Cancelled, Final, Exit
<1>6. CASE WrongNumber
  <2>1. /\ UNCHANGED <<sender, packets, fp>>
        /\ down # <<>> /\ down' = Tail(down) /\ up' = Put(up, "NAK")
    BY <1>6 DEF WrongNumber, Take
  <2> QED
    BY <2>1, AckLast, PassedOver
<1>7. CASE Header
  <2>1. /\ Due(packets, fp, Head(down)) /\ packets = 0
        /\ Head(down).file = Turn(fp) /\ Turn(fp) \in Files
    BY <1>7, HeaderIsDue DEF Header
  <2>2. \A m : Due(packets, fp, m) => Old(1, Turn(fp), m) /\ Old(1, -1, m)
    BY <1>3, <2>1, DueThenOld
  <2>3. /\ Take /\ packets' = 1
        /\ \/ fp' = Turn(fp) /\ up' = Put(Put(up, "ACK"), "C")
           \/ fp' = -1 /\ up' = Put(up, "CA")
    BY <1>7, <2>1 DEF Header
  <2>4. \A m : Due(packets, fp, m) => Old(packets', fp', m)
    BY <2>2, <2>3
  <2>5. Turn(fp) # -1
    BY <2>1, Constants
  <2> QED
    BY <1>2, <2>1, <2>3, <2>4, <2>5, AckLast, TakenInStep
<1>8. CASE Data
  <2>1. /\ Due(packets, fp, Head(down)) /\ packets > 0 /\ fp \in Files
        /\ (packets - 1) * Block < Size[fp] /\ fp # -1
    BY <1>8, DataIsDue DEF Data
  <2>2. Take /\ packets' = packets + 1 /\ fp' = fp /\ up' = Put(up, "ACK")
    BY <1>8 DEF Data, Exit
  <2>3. \A m : Due(packets, fp, m) => Old(packets', fp', m)
    BY <1>3, <2>1, <2>2, DueThenOld
  <2> QED
    BY <1>2, <2>1, <2>2, <2>3, AckLast, TakenInStep
<1>9. CASE Failed
  <2>1. /\ UNCHANGED <<sender, packets, fp>>
        /\ down' = down \/ (down # <<>> /\ down' = Tail(down))
        /\ up' = Put(up, "C")
    BY <1>9 DEF Failed, Exit
  <2> QED
    BY <2>1, AckLast, PassedOver
<1> QED
  BY <1>4, <1>5, <1>6, <1>7, <1>8, <1>9, NoNullData DEF Receive

-----------------------------------------------------------------------------
(* What is written.                                                        *)

LEMMA BeginEmpty == ASSUME NEW i  PROVE Begin(i, 0) = <<>>
  BY DEF Begin

LEMMA BeginSeq ==
  ASSUME NEW i, NEW c \in Nat
  PROVE  /\ Begin(i, c) \in Seq({i} \X Int) /\ Len(Begin(i, c)) = c
         /\ \A j \in 1 .. c : Begin(i, c)[j] = <<i, j>>
  BY DEF Begin

LEMMA TakenBounds ==
  ASSUME NEW p \in Nat, p > 0, NEW i \in Files
  PROVE  /\ Taken(p, i) \in 0 .. Size[i]
         /\ Taken(1, i) = 0
         /\ ~((p - 1) * Block < Size[i]) => Taken(p, i) = Size[i]
<1>1. (p - 1) * Block \in Nat
  BY Constants
<1>2. (1 - 1) * Block = 0
  BY Constants
<1> QED
  BY <1>1, <1>2, Constants DEF Taken

(* A packet of data due, written whole, brings the file to what the packet *)
(* after it finds.                                                         *)
LEMMA NextPiece ==
  ASSUME NEW p \in Nat, p > 0, NEW i \in Files, NEW m,
         m.file = i, m.block = p, (p - 1) * Block < Size[i], size = Size[i]
  PROVE  Begin(i, Taken(p, i)) \o Written(m, Clip(Len(Begin(i, Taken(p, i)))))
           = Begin(i, Taken(p + 1, i))
<1> DEFINE L == (p - 1) * Block
           c == IF L + Block > Size[i] THEN Size[i] - L ELSE Block
<1>1. /\ L \in Nat /\ Block \in Nat /\ Block > 0 /\ Size[i] \in Nat
      /\ (p + 1 - 1) * Block = L + Block
  BY Constants
<1>2. Taken(p, i) = L /\ Taken(p + 1, i) = L + c /\ c \in Nat
  BY <1>1 DEF Taken
<1>3. Len(Begin(i, L)) = L
  BY <1>1 DEF Begin
<1>4. Clip(L) = c
  BY <1>1 DEF Clip
<1>5. Written(m, c) = [j \in 1 .. c |-> <<i, L + j>>]
  BY DEF Written
<1> HIDE DEF L, c
<1>6. Begin(i, L) \o [j \in 1 .. c |-> <<i, L + j>>] = Begin(i, L + c)
  <2> DEFINE S == {i} \X Int
             b == Begin(i, L)
             t == [j \in 1 .. c |-> <<i, L + j>>]
             e == Begin(i, L + c)
  <2>1. b \in Seq(S) /\ Len(b) = L /\ \A j \in 1 .. L : b[j] = <<i, j>>
    BY <1>1 DEF Begin
  <2>2. t \in Seq(S) /\ Len(t) = c /\ \A j \in 1 .. c : t[j] = <<i, L + j>>
    BY <1>1, <1>2
  <2>3. e \in Seq(S) /\ Len(e) = L + c
        /\ \A j \in 1 .. L + c : e[j] = <<i, j>>
    BY <1>1, <1>2 DEF Begin
  <2> HIDE DEF S, b, t, e
  <2>4. /\ b \o t \in Seq(S) /\ Len(b \o t) = L + c
        /\ \A j \in 1 .. L + c :
             (b \o t)[j] = IF j <= L THEN b[j] ELSE t[j - L]
    BY <2>1, <2>2, ConcatProperties
  <2>5. \A j \in 1 .. L + c : (b \o t)[j] = e[j]
    <3> TAKE j \in 1 .. L + c
    <3>1. CASE j <= L
      <4>1. j \in 1 .. L
        BY <1>1, <1>2, <3>1
      <4> QED
        BY <2>1, <2>3, <2>4, <3>1, <4>1
    <3>2. CASE ~(j <= L)
      <4>1. j - L \in 1 .. c /\ L + (j - L) = j
        BY <1>1, <1>2, <3>2
      <4> QED
        BY <2>2, <2>3, <2>4, <3>2, <4>1
    <3> QED
      BY <3>1, <3>2
  <2>6. b \o t = e
    BY <2>3, <2>4, <2>5, SeqEqual
  <2> QED
    BY <2>6 DEF b, t, e
<1> QED
  BY <1>2, <1>3, <1>4, <1>5, <1>6

(* Nothing is written and no file changes hands.                           *)
LEMMA Untouched ==
  ASSUME Ordered, Outcome, Contents,
         UNCHANGED <<fp, size, packets, files, harmed, reason, running>>
  PROVE  Ordered' /\ Outcome' /\ Contents'
  BY DEF Ordered, Outcome, Contents

(* The receiver leaves without having ended the session.                   *)
LEMMA Left ==
  ASSUME Ordered, UNCHANGED <<files, harmed>>,
         NEW why \in {"cancel", "abort", "write", "errors"},
         NEW result, Exit(why, result)
  PROVE  Ordered' /\ Outcome' /\ ~running'
  BY DEF Ordered, Outcome, Exit

LEMMA ReceiverWrites ==
  ASSUME TypeOK, InStep, Contents, Ordered, Outcome, Receive, ~twice'
  PROVE  Ordered' /\ Outcome' /\ (running' => Contents')
<1>1. /\ packets \in Nat /\ fp \in Files \cup {-1} /\ harmed \subseteq Files
      /\ files \in [Files -> Seq(Asked \X Int)] /\ running
  BY DEF TypeOK, Receive, Eot, Cancelled, WrongNumber, Header, Final, Data,
     NullData, Failed, Take
<1>2. CASE Eot
  <2>1. packets > 0 /\ fp # -1 /\ ~((packets - 1) * Block < Size[fp])
    BY <1>2, EotIsDue
  <2>2. Taken(packets, fp) = Size[fp]
    BY <1>1, <2>1, TakenBounds
  <2>3. packets' = 0 /\ UNCHANGED <<running, fp, size, files, reason, harmed>>
    BY <1>2 DEF Eot
  <2> QED
    BY <1>1, <2>1, <2>2, <2>3 DEF Ordered, Outcome, Contents
<1>3. CASE Cancelled
  BY <1>3, Left DEF Cancelled, Exit, history
<1>4. CASE WrongNumber
  BY <1>4, Untouched DEF WrongNumber, history
<1>5. CASE Header
  <2>1. /\ packets = 0 /\ packets' = 1 /\ UNCHANGED <<running, reason, harmed>>
        /\ Head(down).kind = "header" /\ Head(down).file = Turn(fp)
        /\ Turn(fp) \in Files
    BY <1>5, HeaderIsDue DEF Header, history
  <2>2. size' = Size[Turn(fp)]
    BY <1>5, <2>1 DEF Header
  <2>3. CASE fp' = Turn(fp) /\ files' = [files EXCEPT ![Turn(fp)] = <<>>]
    <3>1. /\ files'[fp'] = Begin(fp', 0)
          /\ Taken(1, fp') = 0 /\ 0 \in 0 .. Size[fp']
      BY <1>1, <2>1, <2>3, BeginEmpty, TakenBounds, Constants
    <3>2. \A i \in Files : i # fp' => files'[i] = files[i]
      BY <1>1, <2>3
    <3>3. Ordered'
      BY <2>1, <3>1, <3>2 DEF Ordered
    <3>4. Outcome'
      BY <1>1, <2>1 DEF Outcome
    <3>5. \A i \in Files : /\ i > fp' => i > fp
                           /\ i < fp' => i < fp \/ i = fp
                           /\ i # -1
      BY <1>1, <2>1, <2>3, Constants DEF Turn
    <3>6. fp' \notin harmed
      BY <1>1, <2>1, <2>3, Constants DEF Contents, Turn
    <3>7. Contents'
      BY <2>1, <2>2, <2>3, <3>1, <3>2, <3>5, <3>6, Constants DEF Contents
    <3> QED
      BY <3>3, <3>4, <3>7
  <2>4. CASE fp' = -1 /\ UNCHANGED files
    BY <1>1, <2>1, <2>4 DEF Ordered, Outcome, Contents
  <2> QED
    BY <1>5, <2>1, <2>3, <2>4 DEF Header
<1>6. CASE Final
  <2>1. packets = 0 /\ Turn(fp) \notin Files
    BY <1>6, FinalIsDue DEF Final
  <2>2. \A i \in Files : i < fp \/ i = fp
    BY <1>1, <2>1, Constants DEF Turn
  <2>3. \A i \in Files \ harmed : files[i] = Begin(i, Size[i])
    BY <2>1, <2>2 DEF Contents
  <2>4. UNCHANGED <<files, harmed>> /\ running' = FALSE /\ reason' = "done"
    BY <1>6 DEF Final, Exit, history
  <2> QED
    BY <2>3, <2>4 DEF Ordered, Outcome
<1>7. CASE Data
  <2>1. /\ packets > 0 /\ fp \in Files /\ fp # -1
        /\ Head(down).file = fp /\ Head(down).block = packets
        /\ (packets - 1) * Block < Size[fp] /\ size = Size[fp]
    BY <1>7, DataIsDue DEF Data, Contents
  <2>2. CASE Exit("write", -2) /\ UNCHANGED history
    BY <2>2, Left DEF Exit, history
  <2>3. ASSUME NEW w \in 0 .. Clip(Len(files[fp])),
               files' = [files EXCEPT ![fp] = @ \o Written(Head(down), w)],
               harmed' = IF w < Clip(Len(files[fp]))
                            \/ Head(down).kind = "changed"
                         THEN harmed \cup {fp} ELSE harmed,
               packets' = packets + 1,
               UNCHANGED <<running, fp, size, reason>>
        PROVE  Ordered' /\ Outcome' /\ Contents'
    <3>1. fp \notin harmed' => files'[fp] = Begin(fp, Taken(packets + 1, fp))
      <4> SUFFICES ASSUME fp \notin harmed'
                   PROVE  files'[fp] = Begin(fp, Taken(packets + 1, fp))
        OBVIOUS
      <4>1. fp \notin harmed /\ ~(w < Clip(Len(files[fp])))
        BY <2>3
      <4>2. Clip(Len(files[fp])) \in Nat
        BY <1>1, <2>1, ClipTyped DEF TypeOK
      <4>3. w = Clip(Len(files[fp]))
        BY <4>1, <4>2
      <4>4. files[fp] = Begin(fp, Taken(packets, fp))
        BY <2>1, <4>1 DEF Contents
      <4>5. files'[fp] = files[fp] \o Written(Head(down), w)
        BY <1>1, <2>1, <2>3
      <4> QED
        <5>1. Begin(fp, Taken(packets, fp))
                \o Written(Head(down),
                           Clip(Len(Begin(fp, Taken(packets, fp)))))
                = Begin(fp, Taken(packets + 1, fp))
          BY <1>1, <2>1, NextPiece
        <5> QED
          BY <4>3, <4>4, <4>5, <5>1
    <3>2. /\ \A i \in Files : i # fp => files'[i] = files[i]
          /\ \A i \in Files : i # fp => (i \in harmed' <=> i \in harmed)
      BY <1>1, <2>1, <2>3
    <3>3. Taken(packets + 1, fp) \in 0 .. Size[fp]
      BY <1>1, <2>1, TakenBounds
    <3>4. Ordered'
      BY <2>1, <3>1, <3>2, <3>3 DEF Ordered
    <3>5. Outcome'
      BY <1>1, <2>3 DEF Outcome
    <3>6. packets' # 0 /\ packets' = packets + 1 /\ UNCHANGED <<fp, size>>
      BY <1>1, <2>3
    <3>7. \A i \in Files : i > fp \/ i < fp => i # fp
      BY <1>1, Constants
    <3>8. Contents'
      BY <2>1, <3>1, <3>2, <3>6, <3>7 DEF Contents
    <3> QED
      BY <3>4, <3>5, <3>8
  <2> QED
    BY <1>7, <2>2, <2>3 DEF Data
<1>8. CASE Failed
  BY <1>8, Left, Untouched DEF Failed, history, Exit
<1> QED
  BY <1>2, <1>3, <1>4, <1>5, <1>6, <1>7, <1>8, NoNullData DEF Receive

-----------------------------------------------------------------------------
(* IInv is inductive, and what the runs check follows.                     *)

LEMMA InitIInv == Init => IInv
<1> SUFFICES ASSUME Init  PROVE IInv
  OBVIOUS
<1>1. TypeOK
  BY InitTyped
<1>2. \A i \in Files : /\ files[i] = <<>> /\ Begin(i, 0) = <<>>
                       /\ 0 \in 0 .. Size[i] /\ i > -1
  BY BeginEmpty, Constants DEF Init
<1>3. DOMAIN down = {} /\ DOMAIN up = {}
  BY DEF Init
<1>4. InStep
  BY <1>3 DEF Init, InStep, OldThenDue, SenderNear, OneAnswer, NoFile, Turn,
     Sending
<1>5. Contents
  BY <1>2 DEF Init, Contents
<1>6. Ordered /\ Outcome
  BY <1>2 DEF Init, Ordered, Outcome
<1> QED
  BY <1>1, <1>4, <1>5, <1>6 DEF IInv

LEMMA NextIInv == IInv /\ [Next]_vars => IInv'
<1> SUFFICES ASSUME IInv, [Next]_vars, ~twice'
             PROVE  Ordered' /\ Outcome' /\ (running' => InStep' /\ Contents')
  BY Typed DEF IInv
<1>1. TypeOK
  BY DEF IInv
<1>2. CASE UNCHANGED vars
  BY <1>2 DEF IInv, vars, sender, receiver, history, Ordered, Outcome, InStep,
     OldThenDue, SenderNear, OneAnswer, NoFile, Contents, Packet
<1>3. CASE Answer \/ Impatient \/ Lose \/ Garble
  <2>1. UNCHANGED <<receiver, history>>
    BY <1>3 DEF Answer, Impatient, Lose, Garble
  <2>2. Ordered /\ Outcome /\ (running => InStep /\ Contents) /\ ~twice
    BY <2>1 DEF IInv, history
  <2>3. Ordered' /\ Outcome' /\ (running' => Contents')
    BY <2>1, <2>2 DEF receiver, history, Ordered, Outcome, Contents
  <2>4. running' => InStep'
    BY <1>1, <1>3, <2>1, <2>2, SenderInStep, LineInStep DEF receiver
  <2> QED
    BY <2>3, <2>4
<1>4. CASE Receive
  <2>1. running
    BY <1>4 DEF Receive, Eot, Cancelled, WrongNumber, Header, Final, Data,
       NullData, Failed, Take
  <2>2. ~twice
    BY <1>4, Zenon DEF Receive, Eot, Cancelled, WrongNumber, Header, Final,
       Data, NullData, Failed, history
  <2>3. Ordered /\ Outcome /\ InStep /\ Contents
    BY <2>1, <2>2 DEF IInv
  <2> QED
    BY <1>1, <1>4, <2>3, ReceiverInStep, ReceiverWrites
<1> QED
  BY <1>2, <1>3, <1>4 DEF Next, Done

LEMMA UploadInvariant == Spec => []IInv
  BY InitIInv, NextIInv, PTL DEF Spec

LEMMA WholeIs ==
  ASSUME NEW i \in Files
  PROVE  /\ Whole(i) = Begin(i, Size[i])
         /\ \A c \in 0 .. Size[i] : SubSeq(Whole(i), 1, c) = Begin(i, c)
<1>1. Whole(i) = Begin(i, Size[i])
  BY DEF Whole, Begin
<1>2. ASSUME NEW c \in 0 .. Size[i]
      PROVE  SubSeq(Whole(i), 1, c) = Begin(i, c)
  <2>1. /\ Whole(i) \in Seq({i} \X Int) /\ Len(Whole(i)) = Size[i]
        /\ \A j \in 1 .. Size[i] : Whole(i)[j] = <<i, j>>
    BY <1>1, BeginSeq, Constants
  <2>2. /\ Begin(i, c) \in Seq({i} \X Int) /\ Len(Begin(i, c)) = c
        /\ \A j \in 1 .. c : Begin(i, c)[j] = <<i, j>> /\ j \in 1 .. Size[i]
    <3>1. c \in Nat /\ \A j \in 1 .. c : j \in 1 .. Size[i]
      BY Constants
    <3> QED
      BY <3>1, BeginSeq
  <2>3. /\ SubSeq(Whole(i), 1, c) \in Seq({i} \X Int)
        /\ Len(SubSeq(Whole(i), 1, c)) = c
        /\ \A j \in 1 .. c : SubSeq(Whole(i), 1, c)[j] = Whole(i)[j]
    BY <2>1, Constants
  <2>4. \A j \in 1 .. c : SubSeq(Whole(i), 1, c)[j] = Begin(i, c)[j]
    BY <2>1, <2>2, <2>3
  <2> QED
    BY <2>2, <2>3, <2>4, SeqEqual
<1> QED
  BY <1>1, <1>2

(* However packets are repeated, delayed or lost, and although numbers     *)
(* wrap around: a file gets its data in order, each piece once, as long as *)
(* no end of file was acknowledged twice (libYmodem.c:157, 203-207).       *)
THEOREM UploadInOrder == Spec => []InOrder
<1>1. IInv => InOrder
  <2> SUFFICES ASSUME IInv, ~twice, NEW i \in Files \ harmed
               PROVE  \E c \in 0 .. Size[i] : files[i] = SubSeq(Whole(i), 1, c)
    BY DEF InOrder
  <2>1. PICK c \in 0 .. Size[i] : files[i] = Begin(i, c)
    BY DEF IInv, Ordered
  <2> QED
    BY <2>1, WholeIs
<1> QED
  BY <1>1, UploadInvariant, PTL

(* A session the sender ends has brought every file not damaged on the     *)
(* way whole, and no data is written where no file is open                 *)
(* (libYmodem.c:190, 204).                                                 *)
THEOREM UploadDoneIsWhole == Spec => []DoneIsWhole
<1>1. IInv => DoneIsWhole
  BY WholeIs DEF IInv, Outcome, DoneIsWhole
<1> QED
  BY <1>1, UploadInvariant, PTL
=============================================================================
