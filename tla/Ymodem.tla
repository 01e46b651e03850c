------------------------------- MODULE Ymodem -------------------------------
(***************************************************************************)
(* Uploading files over the console: Ymodem_Receive (libYmodem.c) and a    *)
(* sender.                                                                 *)
(*                                                                         *)
(* The sender is external: it keeps one packet under way, sends it again   *)
(* on NAK or for want of an answer, gives up after some tries or at CA,    *)
(* and waits for 'C' before a header and before the data.  The line keeps  *)
(* the order; a message may be lost or garbled, which the receiver notices *)
(* or, as it does not look at the CRC, takes for data.                     *)
(*                                                                         *)
(* A packet is one message.  Packet numbers are kept modulo Mod (a byte in *)
(* the code).  A file is a sequence of units <<file, i>>, a packet has     *)
(* Block of them.  The histories are read by no guard.                     *)
(***************************************************************************)
EXTENDS Integers, Sequences

CONSTANTS Size,         \* the sizes of the files to send, in units
          Block,        \* units of a packet
          Mod,          \* 256
          MaxErrors,    \* MAX_ERRORS
          MaxTry,       \* external: the sender's patience
          Cap,          \* messages on the line, per direction
          MaxFault      \* bound: messages lost or garbled

ASSUME SizeAssumption == Size \in Seq(Nat \ {0}) /\ Size # <<>>
ASSUME LineAssumption ==
    /\ {Block, Mod, MaxErrors, MaxTry, Cap} \subseteq Nat \ {0}
    /\ Mod > 1
    /\ MaxFault \in Nat

VARIABLES
    down, up,           \* the line to the receiver and back
    stage, f, n, tries, \* the sender: what it waits for, file, packet, tries
    running,            \* Ymodem_Receive has not returned
    fp,                 \* the file open: its number, or -1
    size,               \* size
    packets,            \* packets_received
    errors, begun,      \* errors, session_begin
    files,              \* external: what was written to each file
    faults,             \* messages lost or garbled so far
    harmed, twice,      \* history: files damaged unnoticed; an end of file
                        \* acknowledged twice
    reason              \* history: why Ymodem_Receive returned

sender == <<stage, f, n, tries>>
receiver == <<running, fp, size, packets, errors, begun, files, reason>>
history == <<harmed, twice>>
vars == <<down, up, sender, receiver, faults, history>>

Files == DOMAIN Size
Put(line, m) == IF Len(line) < Cap THEN Append(line, m) ELSE line
Msg(kind, file, block) == [kind |-> kind, file |-> file, block |-> block]

Init ==
    /\ down = <<>> /\ up = <<>>
    /\ stage = "header?" /\ f = 1 /\ n = 0 /\ tries = 0
    /\ running = TRUE /\ fp = -1 /\ size = 0 /\ packets = 0
    /\ errors = 0 /\ begun = FALSE
    /\ files = [i \in Files |-> <<>>]
    /\ faults = 0 /\ harmed = {} /\ twice = FALSE /\ reason = "none"

-----------------------------------------------------------------------------
(* The sender (external).                                                  *)
Sending == {"header", "block", "eot", "final"}
Packet == Msg(stage, f, n)

Send(s, i, k) ==
    /\ stage' = s /\ f' = i /\ n' = k /\ tries' = 0
    /\ down' = Put(down, Packet')
Wait(s, i) == stage' = s /\ f' = i /\ n' = 0 /\ tries' = 0 /\ UNCHANGED down
Again ==
    /\ IF tries < MaxTry
       THEN stage' = stage /\ tries' = tries + 1 /\ down' = Put(down, Packet)
       ELSE /\ stage' = "over" /\ tries' = 0
            /\ \E kind \in {"cancel", "abort"} :
                 down' = Put(down, Msg(kind, f, n))
    /\ UNCHANGED <<f, n>>

Acked ==
    CASE stage = "header" -> Wait("data?", f)
      [] stage = "block" -> IF n * Block < Size[f] THEN Send("block", f, n + 1)
                            ELSE Send("eot", f, 0)
      [] stage = "eot" -> Wait("header?", f + 1)
      [] stage = "final" -> Wait("over", f)
      [] OTHER -> UNCHANGED <<sender, down>>
Called ==
    CASE stage = "header?" -> IF f \in Files THEN Send("header", f, 0)
                              ELSE Send("final", f, 0)
      [] stage = "data?" -> Send("block", f, 1)
      [] OTHER -> UNCHANGED <<sender, down>>

Answer ==
    /\ up # <<>>
    /\ up' = Tail(up)
    /\ CASE Head(up) = "ACK" -> Acked
         [] Head(up) = "C" -> Called
         [] Head(up) = "NAK" /\ stage \in Sending -> Again
         [] Head(up) = "CA" -> Wait("over", f)
         [] OTHER -> UNCHANGED <<sender, down>>
    /\ UNCHANGED <<receiver, faults, history>>

Impatient ==
    /\ stage \in Sending
    /\ Again
    /\ UNCHANGED <<up, receiver, faults, history>>

-----------------------------------------------------------------------------
(* The line.                                                               *)
Lose ==
    /\ faults < MaxFault /\ faults' = faults + 1
    /\ \/ down # <<>> /\ down' = Tail(down) /\ UNCHANGED up
       \/ up # <<>> /\ up' = Tail(up) /\ UNCHANGED down
    /\ UNCHANGED <<sender, receiver, history>>

\* A header is taken as a whole or not at all.
Garble ==
    /\ faults < MaxFault /\ faults' = faults + 1
    /\ down # <<>>
    /\ \E kind \in {"noise", "changed"} :
         /\ kind = "changed" => Head(down).kind = "block"
         /\ down' = [down EXCEPT ![1].kind = kind]
    /\ UNCHANGED <<up, sender, receiver, history>>

-----------------------------------------------------------------------------
(* Ymodem_Receive, a packet at a time.                                     *)
Exit(why, result) ==
    /\ running' = FALSE /\ fp' = -1 /\ size' = result /\ reason' = why
    /\ UNCHANGED <<packets, begun, files>>

Take ==
    /\ running /\ down # <<>>
    /\ down' = Tail(down)
    /\ UNCHANGED <<sender, faults>>

\* The end of a file: the next packet is a header.
Eot ==
    /\ Take /\ Head(down).kind = "eot"
    /\ up' = Put(up, "ACK")
    /\ packets' = 0 /\ errors' = 0
    /\ twice' = (twice \/ packets = 0)
    /\ UNCHANGED <<running, fp, size, begun, files, reason, harmed>>

\* CA CA, or the abort characters.
Cancelled ==
    /\ Take
    /\ \/ /\ Head(down).kind = "cancel" /\ up' = Put(up, "ACK")
          /\ errors' = 0 /\ Exit("cancel", 0)
       \/ /\ Head(down).kind = "abort" /\ up' = Put(up, "CA")
          /\ UNCHANGED errors /\ Exit("abort", -3)
    /\ UNCHANGED history

\* A packet that has not the number expected.
IsPacket == Head(down).kind \in {"header", "block", "changed", "final"}
Expected == Head(down).block % Mod = packets % Mod
\* Mutants, here and below, stand before the definition they replace.
WrongNumberAcks ==      \* as an old packet should be, but whatever the number
    /\ Take /\ IsPacket /\ ~Expected
    /\ up' = Put(up, "ACK")
    /\ errors' = 0
    /\ UNCHANGED <<running, fp, size, packets, begun, files, reason,
                   history>>

WrongNumber ==
    /\ Take /\ IsPacket /\ ~Expected
    /\ up' = Put(up, "NAK")
    /\ errors' = 0
    /\ UNCHANGED <<running, fp, size, packets, begun, files, reason,
                   history>>

\* The header of a file: it is opened and emptied, or cannot be.  What comes
\* first is taken for a header if its number fits, data too; no file has the
\* name such a one spells.
First == {"header", "block", "changed"}
Header ==
    /\ Take /\ Head(down).kind \in First /\ Expected /\ packets = 0
    /\ LET i == Head(down).file
       IN  /\ size' = IF Head(down).kind = "header" THEN Size[i] ELSE 0
           /\ \/ /\ Head(down).kind = "header"
                 /\ fp' = i /\ files' = [files EXCEPT ![i] = <<>>]
                 /\ up' = Put(Put(up, "ACK"), "C")
              \/ /\ fp' = -1 /\ UNCHANGED files
                 /\ up' = Put(up, "CA")
    /\ packets' = 1 /\ errors' = 0 /\ begun' = TRUE
    /\ UNCHANGED <<running, reason, history>>

\* An empty header ends the session, and so does data that begins with a 0.
Final ==
    /\ Take /\ Head(down).kind \in (First \ {"header"}) \cup {"final"}
    /\ Expected /\ packets = 0
    /\ up' = Put(up, "ACK")
    /\ errors' = 0
    /\ Exit("done", size)
    /\ UNCHANGED history

\* Data, cut to the size announced; a write may be short unnoticed, or fail.
ClipLate(len) == IF len > size THEN 0 ELSE Block      \* one packet late

Clip(len) == IF len + Block > size
             THEN (IF size > len THEN size - len ELSE 0) ELSE Block
Written(m, w) == [j \in 1 .. w |-> <<m.file, (m.block - 1) * Block + j>>]
Data ==
    /\ Take /\ IsPacket /\ Expected /\ packets > 0 /\ fp # -1
    /\ errors' = 0
    /\ LET len == Clip(Len(files[fp]))
       IN  \/ \E w \in 0 .. len :
                /\ files' = [files EXCEPT ![fp] = @ \o Written(Head(down), w)]
                /\ harmed' = IF w < len \/ Head(down).kind = "changed"
                             THEN harmed \cup {fp} ELSE harmed
                /\ up' = Put(up, "ACK")
                /\ packets' = packets + 1 /\ begun' = TRUE
                /\ UNCHANGED <<running, fp, size, reason, twice>>
           \/ up' = Put(up, "CA") /\ Exit("write", -2) /\ UNCHANGED history

\* fd_get(-1)->size
NullData ==
    /\ Take /\ IsPacket /\ Expected /\ packets > 0 /\ fp = -1
    /\ Exit("fault", 0)
    /\ UNCHANGED <<up, errors, history>>

\* Nothing for NAK_TIMEOUT, or nothing that makes a packet.
FailedForgiven ==       \* a try to call the sender again clears the errors
    /\ running
    /\ \/ down = <<>> /\ UNCHANGED down
       \/ down # <<>> /\ Head(down).kind = "noise" /\ down' = Tail(down)
    /\ errors' = 0
    /\ up' = Put(up, "C")
    /\ UNCHANGED <<running, fp, size, packets, begun, files, reason,
                   sender, faults, history>>

Failed ==
    /\ running
    /\ \/ down = <<>> /\ UNCHANGED down
       \/ down # <<>> /\ Head(down).kind = "noise" /\ down' = Tail(down)
    /\ errors' = IF begun THEN errors + 1 ELSE errors
    /\ IF errors' > MaxErrors
       THEN up' = Put(up, "CA") /\ Exit("errors", size)
       ELSE up' = Put(up, "C")
            /\ UNCHANGED <<running, fp, size, packets, begun, files, reason>>
    /\ UNCHANGED <<sender, faults, history>>

Receive == Eot \/ Cancelled \/ WrongNumber \/ Header \/ Final \/ Data
           \/ NullData \/ Failed

Done == ~running /\ stage \notin Sending /\ up = <<>> /\ UNCHANGED vars
Next == Answer \/ Impatient \/ Lose \/ Garble \/ Receive \/ Done
Spec == Init /\ [][Next]_vars /\ WF_vars(Answer) /\ WF_vars(Impatient)
             /\ WF_vars(Receive)

-----------------------------------------------------------------------------
(* Properties.                                                             *)

Whole(i) == [j \in 1 .. Size[i] |-> <<i, j>>]

(* However packets are repeated, delayed or lost, and although their       *)
(* numbers wrap around, a file gets its data in order and each piece once, *)
(* up to its size (libYmodem.c:157, 203-207), unless an end of file was    *)
(* acknowledged twice: the sender takes the answer too many for that to    *)
(* its next packet and is one ahead; Mod times ahead, numbers fit again.   *)
InOrder ==
    ~twice => \A i \in Files \ harmed :
        \E k \in 0 .. Size[i] : files[i] = SubSeq(Whole(i), 1, k)

(* A session the sender ends (line 190) has brought all files whole, and   *)
(* no data is written without a file (fd_get(-1), line 204), unless an end *)
(* of file was acknowledged twice.                                         *)
DoneIsWhole ==
    ~twice => /\ reason # "fault"
              /\ reason = "done" =>
                    \A i \in Files \ harmed : files[i] = Whole(i)

(* Once a header was received the upload ends, whether the sender finishes *)
(* or gives up or falls silent: errors are counted up to MAX_ERRORS.       *)
SessionEnds == begun ~> ~running
=============================================================================
