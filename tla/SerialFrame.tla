----------------------------- MODULE SerialFrame -----------------------------
(***************************************************************************)
(* The packets from the controller to the firmware, byte by byte.          *)
(*                                                                         *)
(* sendPacket writes a start byte, the payload and a stop byte, and then   *)
(* discards what the tty has not sent yet (TCFLSH with 1 is TCOFLUSH): of  *)
(* every packet any prefix may arrive.  The firmware collects the bytes    *)
(* between a start and a stop byte in msg and gives up after six.          *)
(***************************************************************************)
EXTENDS Integers, Sequences

CONSTANTS
  Payload,    \* the payloads the controller sends
  MaxPackets  \* bound of the model: packets sent

START  == 123     \* 0x7b
FINISH == 125     \* 0x7d
Byte   == 0 .. 255

ASSUME FrameAssumption ==
  /\ Payload \subseteq Seq(Byte)
  /\ \A p \in Payload :
       /\ Len(p) \in 1 .. 3
       /\ \A i \in 1 .. Len(p) : p[i] \notin {START, FINISH}
  /\ MaxPackets \in Nat

VARIABLES
  sent,      \* payloads given to sendPacket, oldest first
  outq,      \* bytes of the last packet the tty still holds
  pc,        \* the controller: "write" the next packet or "flush" the last
  rx,        \* the firmware: "idle" or inside a "frame"
  msg,       \* bytes of the frame so far
  delivered, \* frames handed to the mode handlers, with the number of the
             \* packet whose stop byte ended them
  cut        \* packets that were truncated

vars == <<sent, outq, pc, rx, msg, delivered, cut>>

TypeOK ==
  /\ sent \in Seq(Payload)
  /\ outq \in Seq(Byte)
  /\ pc \in {"write", "flush"}
  /\ rx \in {"idle", "frame"}
  /\ msg \in Seq(Byte)
  /\ Len(msg) <= 5
  /\ rx = "idle" => msg = <<>>
  /\ delivered \in Seq([payload : Seq(Byte), packet : Nat])
  /\ cut \subseteq 1 .. Len(sent)

Init ==
  /\ sent = <<>>
  /\ outq = <<>>
  /\ pc = "write"
  /\ rx = "idle"
  /\ msg = <<>>
  /\ delivered = <<>>
  /\ cut = {}

-----------------------------------------------------------------------------
Packet(p) == <<START>> \o p \o <<FINISH>>

\* The three writes of sendPacket; the tty takes them all.
Write(p) ==
  /\ pc = "write"
  /\ Len(sent) < MaxPackets
  /\ sent' = Append(sent, p)
  /\ outq' = Packet(p)
  /\ pc' = "flush"
  /\ UNCHANGED <<rx, msg, delivered, cut>>

\* ioctl(dev, TCFLSH, 1)
Flush ==
  /\ pc = "flush"
  /\ outq' = <<>>
  /\ cut' = IF outq = <<>> THEN cut ELSE cut \cup {Len(sent)}
  /\ pc' = "write"
  /\ UNCHANGED <<sent, rx, msg, delivered>>

\* The tty sends a byte and the firmware takes it from its receive buffer.
\* Nothing flows back, so the delay between the two does not matter.
Transfer ==
  /\ outq # <<>>
  /\ outq' = Tail(outq)
  /\ UNCHANGED <<sent, pc, cut>>

ReadIdle ==
  /\ rx = "idle"
  /\ Transfer
  /\ rx' = IF Head(outq) = START THEN "frame" ELSE "idle"
  /\ UNCHANGED <<msg, delivered>>

ReadStop ==
  /\ rx = "frame"
  /\ Transfer
  /\ Head(outq) = FINISH
  /\ delivered' = Append(delivered, [payload |-> msg, packet |-> Len(sent)])
  /\ rx' = "idle"
  /\ msg' = <<>>

\* Mutant of ReadByte: a frame may have any length.
ReadByteUnlimited ==
  /\ rx = "frame"
  /\ Transfer
  /\ Head(outq) # FINISH
  /\ msg' = Append(msg, Head(outq))
  /\ UNCHANGED <<rx, delivered>>

\* Mutant of ReadByte: a frame ends when it has a type and a value.
ReadByteLimitTwo ==
  /\ rx = "frame"
  /\ Transfer
  /\ Head(outq) # FINISH
  /\ IF Len(msg) = 2
       THEN rx' = "idle" /\ msg' = <<>>
       ELSE msg' = Append(msg, Head(outq)) /\ UNCHANGED rx
  /\ UNCHANGED delivered

\* Mutant of ReadByte: start bytes inside a frame are skipped.
ReadByteSkipsStart ==
  /\ rx = "frame"
  /\ Transfer
  /\ Head(outq) # FINISH
  /\ CASE Head(outq) = START -> UNCHANGED <<rx, msg>>
       [] Head(outq) # START /\ Len(msg) = 5 -> rx' = "idle" /\ msg' = <<>>
       [] OTHER -> msg' = Append(msg, Head(outq)) /\ UNCHANGED rx
  /\ UNCHANGED delivered

\* A sixth byte that is no stop byte ends the frame: it is forgotten.
ReadByte ==
  /\ rx = "frame"
  /\ Transfer
  /\ Head(outq) # FINISH
  /\ IF Len(msg) = 5
       THEN rx' = "idle" /\ msg' = <<>>
       ELSE msg' = Append(msg, Head(outq)) /\ UNCHANGED rx
  /\ UNCHANGED delivered

Next ==
  \/ \E p \in Payload : Write(p)
  \/ Flush
  \/ ReadIdle
  \/ ReadStop
  \/ ReadByte

Spec == Init /\ [][Next]_vars

-----------------------------------------------------------------------------
\* Packets that have been sent completely and read.
Whole(i) ==
  /\ i \in 1 .. Len(sent)
  /\ i \notin cut
  /\ i = Len(sent) => outq = <<>>

(***************************************************************************)
(* Truncated packets do not confuse the firmware for longer than the next  *)
(* whole one: a whole packet that follows a whole one is delivered as it   *)
(* was sent.                                                               *)
(***************************************************************************)
WholeAfterWhole ==
  \A i \in 1 .. Len(sent) :
    Whole(i) /\ (i = 1 \/ Whole(i - 1)) =>
      \E d \in 1 .. Len(delivered) :
        delivered[d] = [payload |-> sent[i], packet |-> i]

\* The first two bytes of msg as the handlers use them.  In a frame of one
\* byte the second one is the stop byte.
Op(m)    == m[1]
Value(m) == IF Len(m) >= 2 THEN m[2] ELSE FINISH

(***************************************************************************)
(* Merged frames never carry the value meant for one actuator to another:  *)
(* what is applied to an actuator was commanded to it, or is the start     *)
(* byte of the next packet, 123.  The value of a frame of one byte is its  *)
(* stop byte: only a packet of one byte, a request, is delivered like that *)
(* and never a command that lost its value.                                *)
(***************************************************************************)
NoForeignValue ==
  \A d \in 1 .. Len(delivered) :
    LET m == delivered[d].payload IN
      m # <<>> =>
        \/ Value(m) = START
        \/ Op(m) = START
        \/ \E i \in 1 .. Len(sent) :
             Op(sent[i]) = Op(m) /\ Value(sent[i]) = Value(m)
=============================================================================
