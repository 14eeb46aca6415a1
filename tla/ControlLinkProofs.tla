-------------------------- MODULE ControlLinkProofs --------------------------
(***************************************************************************)
(* Controller and firmware on the serial line, for any number of packets   *)
(* on their way, whichever of them are truncated and whichever replies are *)
(* late: what is in the controller's receive queue, how much of it there   *)
(* can be, and what the controller may conclude from it.                   *)
(***************************************************************************)
EXTENDS ControlLink, SequenceTheorems, TLAPS

-----------------------------------------------------------------------------
(***************************************************************************)
(* Types.                                                                  *)
(***************************************************************************)
\* The mode of a round that commands is one of these.
RunMode == {AUTOMATIC, MANUAL, STOP, RETURN_TO_SAFE}

Request == {REQUEST_BUTTON_STATE, SEND_CAN_SEND}

Packets == [op : Request \cup Actuator, value : 0 .. 255, cut : BOOLEAN]

\* The bytes that replies are made of.
ReplyByte == Mode \cup {RESPOND_CAN_SEND}

\* A reply is sent from the end of one pass to the beginning of the next.
TypeInv ==
  /\ returnToSafe \in {0, 1} /\ recoverEstop \in {0, 1}
  /\ fwState \in Mode
  /\ fwPc \in {"start", "receive", "frame", "handle"}
  /\ packet \in Packets \cup {NoPacket} /\ (packet # NoPacket => fwPc = "handle")
  /\ begun \in Packets \cup {NoPacket} /\ (begun # NoPacket => fwPc = "frame")
  /\ inbox \in Seq(Packets) /\ Len(inbox) <= InboxSize
  /\ line \in Seq(ReplyByte) /\ Len(line) <= 2
  /\ line # <<>> => fwPc = "start"
  /\ rxq \in Seq(ReplyByte)
  /\ out \in [Followed -> 0 .. 255]
  /\ reported \subseteq Mode
  /\ startSeen \in BOOLEAN /\ acknowledged \in BOOLEAN
  /\ pc \in {"poll", "awaitMode", "hill", "station", "awaitGo", "dispatch",
             "preStation", "ride", "down"}
  /\ pc \in {"hill", "station", "awaitGo", "dispatch", "preStation", "ride"} =>
       mode \in RunMode
  /\ mode \in Mode \cup {RESPOND_CAN_SEND}
  /\ release_go \in {0, 1}

LEMMA PacketType ==
  ASSUME NEW op \in Request \cup Actuator, NEW value \in 0 .. 255
  PROVE  /\ PacketOf(op, value) \in Packets
         /\ [PacketOf(op, value) EXCEPT !.cut = TRUE] \in Packets
<1>1. PacketOf(op, value) \in Packets
  BY DEF PacketOf, Packets
<1>2. [PacketOf(op, value) EXCEPT !.cut = TRUE] \in Packets
  BY <1>1 DEF Packets
<1> QED
  BY <1>1, <1>2

LEMMA NoPacketType ==
  /\ NoPacket.op = -1 /\ NoPacket.value = 0
  /\ \A p \in Packets : p # NoPacket /\ p.op \in Request \cup Actuator /\ p.value \in 0 .. 255
<1>1. NoPacket.op = -1 /\ NoPacket.value = 0
  BY DEF NoPacket, PacketOf
<1>2. -1 \notin Request \cup Actuator
  BY DEF Request, Actuator, REQUEST_BUTTON_STATE, SEND_CAN_SEND, CONTROL_SERVO_1,
         CONTROL_SERVO_2, CONTROL_DC_1, CONTROL_DC_2
<1> QED
  BY <1>1, <1>2 DEF Packets

\* What a round sends: the power of a motor, the position of a servo.
LEMMA CommandValues ==
  ASSUME mode \in RunMode
  PROVE  /\ HillCommands \subseteq {OFF, HILL_RUN, NoCommand}
         /\ mode \in {STOP, RETURN_TO_SAFE} => HillCommands \subseteq {OFF, NoCommand}
         /\ \A o \in StationOutcomes : o[1] \in {0, release_go} /\ o[2] \in {OFF, STATION_RUN}
         /\ PreStationCommands \subseteq {PRESTATION_GO, PRESTATION_STOP, NoCommand}
         /\ RideCommands \subseteq {RIDE_GO, RIDE_STOP, NoCommand}
<1> USE DEF RunMode, AUTOMATIC, MANUAL, STOP, RETURN_TO_SAFE
<1>1. \A zs : /\ HillCommand(mode, zs, release_go) \in {OFF, HILL_RUN, NoCommand}
              /\ mode \in {STOP, RETURN_TO_SAFE} =>
                   HillCommand(mode, zs, release_go) \in {OFF, NoCommand}
  <2> TAKE zs
  <2>1. HillCommand(mode, zs, release_go) \in {OFF, HILL_RUN, NoCommand}
    BY DEF HillCommand, HillRuns
  <2>2. mode \in {STOP, RETURN_TO_SAFE} =>
          HillCommand(mode, zs, release_go) \in {OFF, NoCommand}
    BY DEF HillCommand, HillRuns
  <2> QED
    BY <2>1, <2>2
<1>2. \A zs, go : StationCommand(mode, zs, go) \in {OFF, STATION_RUN}
  BY DEF StationCommand
<1>3. \A zs : ~AsksOperator(mode, zs, release_go) =>
        ReleaseGo(mode, zs, release_go) \in {0, release_go}
  BY DEF ReleaseGo
<1>4. \A zs : /\ PreStationCommand(mode, zs) \in {PRESTATION_GO, PRESTATION_STOP, NoCommand}
              /\ RideCommand(mode, zs) \in {RIDE_GO, RIDE_STOP, NoCommand}
  BY DEF PreStationCommand, RideCommand, BrakeCommand
<1>5. \A o \in StationOutcomes : o[1] \in {0, release_go} /\ o[2] \in {OFF, STATION_RUN}
  BY <1>2, <1>3 DEF StationOutcomes
<1> QED
  BY <1>1, <1>4, <1>5 DEF HillCommands, PreStationCommands, RideCommands

-----------------------------------------------------------------------------
(***************************************************************************)
(* The steps of the controller are of two kinds.  One puts a packet on its *)
(* way ...                                                                 *)
(***************************************************************************)
Queues(p) ==
  /\ p \in Packets
  /\ Len(inbox) < InboxSize
  /\ inbox' \in {inbox, Append(inbox, p)}
  /\ p.op \in Request => pc' \in {"awaitMode", "awaitGo", "down"}
  /\ p.op = CONTROL_DC_2 /\ mode \in {STOP, RETURN_TO_SAFE} => p.value = OFF
  /\ p.cut => Lossy \/ Exits

ControllerSends ==
  \/ PollMode
  \/ DriveHill
  \/ DriveStation
  \/ AskOperator
  \/ Dispatch
  \/ DrivePreStation
  \/ DriveRide
  \/ WriteFails

Sending == {"poll", "hill", "station", "dispatch", "preStation", "ride"}

LEMMA Sent ==
  ASSUME NEW op \in Request \cup Actuator, NEW value \in 0 .. 255, Send(op, value),
         op \in Request => pc' \in {"awaitMode", "awaitGo", "down"},
         op = CONTROL_DC_2 /\ mode \in {STOP, RETURN_TO_SAFE} => value = OFF
  PROVE  /\ \E p : Queues(p)
         /\ UNCHANGED <<latches, loopVars, line, rxq, out, fwObservers>>
<1> DEFINE p == PacketOf(op, value)
           q == [p EXCEPT !.cut = TRUE]
<1>1. p \in Packets /\ q \in Packets
  BY PacketType
<1>2. p.op = op /\ q.op = op /\ p.value \in {0, value} /\ q.value = p.value /\ ~p.cut
  BY DEF PacketOf
<1>3. /\ Len(inbox) < InboxSize
      /\ \/ inbox' = Append(inbox, p)
         \/ Lossy /\ inbox' = Append(inbox, q)
         \/ Lossy /\ UNCHANGED inbox
      /\ UNCHANGED <<latches, loopVars, line, rxq, out, fwObservers>>
  BY DEF Send
<1>4. Queues(p) \/ Queues(q)
  <2> HIDE DEF p, q
  <2>1. CASE inbox' = Append(inbox, p) \/ inbox' = inbox
    BY <1>1, <1>2, <1>3, <2>1 DEF Queues, OFF
  <2>2. CASE Lossy /\ inbox' = Append(inbox, q)
    BY <1>1, <1>2, <1>3, <2>2 DEF Queues, OFF
  <2> QED
    BY <1>3, <2>1, <2>2
<1> QED
  BY <1>3, <1>4

\* Sent with a command, which may be none.
LEMMA CommandSent ==
  ASSUME NEW op \in Actuator, NEW cmd \in {NoCommand} \cup 0 .. 255, Command(op, cmd),
         op = CONTROL_DC_2 /\ mode \in {STOP, RETURN_TO_SAFE} => cmd \in {OFF, NoCommand}
  PROVE  /\ inbox' = inbox \/ \E p : Queues(p)
         /\ UNCHANGED <<latches, loopVars, line, rxq, out, fwObservers>>
<1>1. CASE cmd = NoCommand
  BY <1>1 DEF Command, fwVars
<1>2. CASE cmd # NoCommand
  <2>1. Send(op, cmd) /\ cmd \in 0 .. 255
    BY <1>2 DEF Command
  <2>2. op \notin Request
    BY DEF Actuator, Request, REQUEST_BUTTON_STATE, SEND_CAN_SEND, CONTROL_SERVO_1,
           CONTROL_SERVO_2, CONTROL_DC_1, CONTROL_DC_2
  <2> QED
    BY <1>2, <2>1, <2>2, Sent
<1> QED
  BY <1>1, <1>2

LEMMA Bytes ==
  /\ {OFF, HILL_RUN, STATION_RUN, PRESTATION_GO, PRESTATION_STOP, RIDE_GO, RIDE_STOP} \subseteq 0 .. 255
  /\ {CONTROL_SERVO_1, CONTROL_SERVO_2, CONTROL_DC_1} \subseteq Actuator \ {CONTROL_DC_2}
  /\ CONTROL_DC_2 \in Actuator
  /\ REQUEST_BUTTON_STATE \notin Actuator /\ SEND_CAN_SEND \notin Actuator
  BY DEF OFF, HILL_RUN, STATION_RUN, PRESTATION_GO, PRESTATION_STOP, RIDE_GO, RIDE_STOP,
         Actuator, CONTROL_SERVO_1, CONTROL_SERVO_2, CONTROL_DC_1, CONTROL_DC_2,
         REQUEST_BUTTON_STATE, SEND_CAN_SEND

\* What a step of the one kind leaves alone, and where it is taken.
LEMMA SendingSteps ==
  ASSUME TypeInv, ControllerSends
  PROVE  /\ inbox' = inbox \/ \E p : Queues(p)
         /\ UNCHANGED <<latches, loopVars, line, rxq, out, fwObservers>>
         /\ UNCHANGED mode
         /\ release_go' \in {0, release_go}
         /\ pc \in Sending
         /\ pc' \in {"awaitMode", "down", "poll"} \/
              (pc # "poll" /\ pc' \in {"station", "awaitGo", "preStation", "ride"})
<1> USE DEF Sending
<1>0. /\ pc \in Sending \cup {"awaitMode", "awaitGo", "down"}
      /\ pc \in Sending \ {"poll"} => mode \in RunMode
  BY DEF TypeInv
<1>1. CASE PollMode
  <2>1. pc = "poll" /\ pc' = "awaitMode" /\ Send(REQUEST_BUTTON_STATE, 0)
        /\ UNCHANGED <<mode, release_go>>
    BY <1>1 DEF PollMode
  <2> QED
    BY <2>1, Sent, Bytes DEF Request
<1>2. CASE DriveHill
  <2>1. PICK cmd \in HillCommands : Command(CONTROL_DC_2, cmd)
    BY <1>2 DEF DriveHill
  <2>2. pc = "hill" /\ pc' = "station" /\ UNCHANGED <<mode, release_go>>
    BY <1>2 DEF DriveHill
  <2>3. /\ cmd \in {NoCommand} \cup 0 .. 255
        /\ mode \in {STOP, RETURN_TO_SAFE} => cmd \in {OFF, NoCommand}
    BY <1>0, <2>1, <2>2, CommandValues, Bytes
  <2> QED
    BY <2>1, <2>2, <2>3, CommandSent, Bytes
<1>3. CASE DriveStation
  <2>1. PICK o \in StationOutcomes : release_go' = o[1] /\ Command(CONTROL_DC_1, o[2])
    BY <1>3 DEF DriveStation
  <2>2. pc = "station" /\ pc' = "preStation" /\ UNCHANGED mode
    BY <1>3 DEF DriveStation
  <2>3. o[1] \in {0, release_go} /\ o[2] \in {NoCommand} \cup 0 .. 255
    BY <1>0, <2>1, <2>2, CommandValues, Bytes
  <2> QED
    BY <2>1, <2>2, <2>3, CommandSent, Bytes
<1>4. CASE AskOperator
  <2>1. pc = "station" /\ pc' = "awaitGo" /\ Send(SEND_CAN_SEND, 1)
        /\ UNCHANGED <<mode, release_go>>
    BY <1>4 DEF AskOperator
  <2> QED
    BY <2>1, Sent, Bytes DEF Request
<1>5. CASE Dispatch
  <2>1. pc = "dispatch" /\ pc' = "preStation" /\ Send(CONTROL_DC_1, DispatchPower)
        /\ UNCHANGED <<mode, release_go>>
    BY <1>5 DEF Dispatch
  <2>2. DispatchPower \in 0 .. 255
    BY Bytes DEF DispatchPower
  <2>3. CONTROL_DC_1 \notin Request /\ CONTROL_DC_1 \in Actuator
    BY Bytes DEF Request
  <2> QED
    BY <2>1, <2>2, <2>3, Sent, Bytes
<1>6. CASE DrivePreStation
  <2>1. PICK cmd \in PreStationCommands : Command(CONTROL_SERVO_1, cmd)
    BY <1>6 DEF DrivePreStation
  <2>2. pc = "preStation" /\ pc' = "ride" /\ UNCHANGED <<mode, release_go>>
    BY <1>6 DEF DrivePreStation
  <2>3. cmd \in {NoCommand} \cup 0 .. 255
    BY <1>0, <2>1, <2>2, CommandValues, Bytes
  <2> QED
    BY <2>1, <2>2, <2>3, CommandSent, Bytes
<1>7. CASE DriveRide
  <2>1. PICK cmd \in RideCommands : Command(CONTROL_SERVO_2, cmd)
    BY <1>7 DEF DriveRide
  <2>2. pc = "ride" /\ pc' = "poll" /\ UNCHANGED <<mode, release_go>>
    BY <1>7 DEF DriveRide
  <2>3. cmd \in {NoCommand} \cup 0 .. 255
    BY <1>0, <2>1, <2>2, CommandValues, Bytes
  <2> QED
    BY <2>1, <2>2, <2>3, CommandSent, Bytes
<1>8. CASE WriteFails
  <2>1. /\ Exits
        /\ Len(inbox) < InboxSize
        /\ pc' = "down"
        /\ UNCHANGED <<mode, release_go>>
        /\ UNCHANGED <<latches, loopVars, line, rxq, out, fwObservers>>
    BY <1>8 DEF WriteFails
  <2>2. PICK p \in Outgoing : inbox' \in {inbox, Append(inbox, [p EXCEPT !.cut = TRUE])}
    BY <1>8 DEF WriteFails
  <2>3. /\ pc \in Sending
        /\ \E op \in Request \cup Actuator, value \in 0 .. 255 :
             /\ p = PacketOf(op, value)
             /\ op = CONTROL_DC_2 /\ mode \in {STOP, RETURN_TO_SAFE} => value = OFF
    <3>1. CASE pc = "poll"
      <4>1. p = PacketOf(REQUEST_BUTTON_STATE, 0)
        BY <2>2, <3>1 DEF Outgoing
      <4> QED
        BY <3>1, <4>1, Bytes DEF Request
    <3>2. CASE pc = "hill"
      <4>1. PICK c \in HillCommands \ {NoCommand} : p = PacketOf(CONTROL_DC_2, c)
        BY <2>2, <3>2 DEF Outgoing
      <4>2. c \in 0 .. 255 /\ (mode \in {STOP, RETURN_TO_SAFE} => c = OFF)
        BY <1>0, <3>2, <4>1, CommandValues, Bytes
      <4> QED
        BY <3>2, <4>1, <4>2, Bytes
    <3>3. CASE pc = "station"
      <4>1. \/ \E c \in {o[2] : o \in StationOutcomes} \ {NoCommand} : p = PacketOf(CONTROL_DC_1, c)
            \/ p = PacketOf(SEND_CAN_SEND, 1)
        BY <2>2, <3>3 DEF Outgoing
      <4>2. {o[2] : o \in StationOutcomes} \subseteq 0 .. 255
        BY <1>0, <3>3, CommandValues, Bytes
      <4>3. CASE p = PacketOf(SEND_CAN_SEND, 1)
        BY <3>3, <4>3, Bytes DEF Request
      <4>4. ASSUME NEW c \in {o[2] : o \in StationOutcomes}, p = PacketOf(CONTROL_DC_1, c)
            PROVE  \E op \in Request \cup Actuator, value \in 0 .. 255 :
                     /\ p = PacketOf(op, value)
                     /\ op = CONTROL_DC_2 /\ mode \in {STOP, RETURN_TO_SAFE} => value = OFF
        BY <4>2, <4>4, Bytes
      <4> QED
        BY <3>3, <4>1, <4>3, <4>4
    <3>4. CASE pc = "dispatch"
      <4>1. p = PacketOf(CONTROL_DC_1, DispatchPower)
        BY <2>2, <3>4 DEF Outgoing
      <4>2. DispatchPower \in 0 .. 255
        BY Bytes DEF DispatchPower
      <4> QED
        BY <3>4, <4>1, <4>2, Bytes
    <3>5. CASE pc = "preStation"
      <4>1. PICK c \in PreStationCommands \ {NoCommand} : p = PacketOf(CONTROL_SERVO_1, c)
        BY <2>2, <3>5 DEF Outgoing
      <4>2. c \in 0 .. 255
        BY <1>0, <3>5, <4>1, CommandValues, Bytes
      <4> QED
        BY <3>5, <4>1, <4>2, Bytes
    <3>6. CASE pc = "ride"
      <4>1. PICK c \in RideCommands \ {NoCommand} : p = PacketOf(CONTROL_SERVO_2, c)
        BY <2>2, <3>6 DEF Outgoing
      <4>2. c \in 0 .. 255
        BY <1>0, <3>6, <4>1, CommandValues, Bytes
      <4> QED
        BY <3>6, <4>1, <4>2, Bytes
    <3>7. CASE pc \in {"awaitMode", "awaitGo", "down"}
      BY <2>2, <3>7 DEF Outgoing
    <3> QED
      BY <1>0, <3>1, <3>2, <3>3, <3>4, <3>5, <3>6, <3>7
  <2>4. PICK op \in Request \cup Actuator, value \in 0 .. 255 :
             /\ p = PacketOf(op, value)
             /\ op = CONTROL_DC_2 /\ mode \in {STOP, RETURN_TO_SAFE} => value = OFF
    BY <2>3
  <2> DEFINE q == [p EXCEPT !.cut = TRUE]
  <2>5. q \in Packets
    BY <2>4, PacketType
  <2>6. q.op = op /\ q.value \in {0, value}
    BY <2>4 DEF PacketOf
  <2>7. inbox' \in {inbox, Append(inbox, q)}
    BY <2>2
  <2>8. Queues(q)
    <3> HIDE DEF q
    <3> QED
      BY <2>1, <2>4, <2>5, <2>6, <2>7 DEF Queues, OFF
  <2> QED
    BY <2>1, <2>3, <2>8
<1> QED
  BY <1>1, <1>2, <1>3, <1>4, <1>5, <1>6, <1>7, <1>8 DEF ControllerSends

-----------------------------------------------------------------------------
(***************************************************************************)
(* ... and one looks for a reply.                                          *)
(***************************************************************************)
ControllerListens ==
  \/ ModeReceived
  \/ ModeMissed
  \/ GoReceived
  \/ GoMissed
  \/ Start

\* The first n bytes of the line are gone.
Loses(n) ==
  /\ line' \in Seq(ReplyByte)
  /\ Len(line') = Len(line) - n
  /\ \A i \in 1 .. Len(line) - n : line'[i] = line[n + i]

LEMMA LineTypes ==
  ASSUME TypeInv
  PROVE  /\ line \in Seq(ReplyByte) /\ Len(line) \in 0 .. 2
         /\ \A i \in 1 .. Len(line) : line[i] \in ReplyByte
<1>1. line \in Seq(ReplyByte) /\ Len(line) <= 2
  BY DEF TypeInv
<1>2. \A i \in 1 .. Len(line) : line[i] \in ReplyByte
  BY <1>1, ElementOfSeq
<1>3. Len(line) \in 0 .. 2
  <2> DEFINE len == Len(line)
  <2>1. len \in Nat /\ len <= 2
    BY <1>1, LenProperties
  <2> HIDE DEF len
  <2>2. len \in 0 .. 2
    BY <2>1
  <2> QED
    BY <2>2 DEF len
<1> QED
  BY <1>1, <1>2, <1>3

LEMMA LineLoses ==
  ASSUME TypeInv, NEW n \in 0 .. Len(line), line' = SubSeq(line, n + 1, Len(line))
  PROVE  Loses(n)
<1> DEFINE len == Len(line)
<1>1. len \in 0 .. 2 /\ \A i \in n + 1 .. len : line[i] \in ReplyByte
  BY LineTypes
<1>2. /\ line' \in Seq(ReplyByte)
      /\ Len(line') = IF n + 1 <= len THEN len - (n + 1) + 1 ELSE 0
      /\ \A i \in 1 .. len - (n + 1) + 1 : line'[i] = line[(n + 1) + i - 1]
  BY <1>1, SubSeqProperties
<1>3. Len(line') = len - n /\ \A i \in 1 .. len - n : line'[i] = line[n + i]
  <2> HIDE DEF len
  <2>1. n \in 0 .. len
    BY DEF len
  <2> QED
    BY <1>1, <1>2, <2>1
<1> QED
  BY <1>2, <1>3 DEF Loses

LEMMA ListeningSteps ==
  ASSUME TypeInv, ControllerListens
  PROVE  /\ rxq' = <<>>
         /\ UNCHANGED <<latches, loopVars, inbox, out, acknowledged>>
         /\ StartListening
         /\ pc \in {"awaitMode", "awaitGo", "down"}
         /\ \E n \in 0 .. Len(line) : Loses(n) /\ (Together => n \in {0, Len(line)})
<1>1. ASSUME UNCHANGED line
      PROVE  \E n \in 0 .. Len(line) : Loses(n) /\ (Together => n \in {0, Len(line)})
  BY <1>1, LineTypes DEF Loses
<1>2. ASSUME Receive
      PROVE  /\ rxq' = <<>>
             /\ UNCHANGED <<latches, loopVars, inbox, out, acknowledged>>
             /\ StartListening
             /\ \E n \in 0 .. Len(line) : Loses(n) /\ (Together => n \in {0, Len(line)})
  <2>1. PICK n \in IF Together THEN {0, Len(line)} ELSE 0 .. Len(line) :
          line' = SubSeq(line, n + 1, Len(line))
    BY <1>2 DEF Receive
  <2>2. n \in 0 .. Len(line) /\ (Together => n \in {0, Len(line)})
    BY LineTypes
  <2>3. Loses(n)
    BY <2>1, <2>2, LineLoses
  <2> QED
    BY <1>2, <2>2, <2>3 DEF Receive
<1>3. ASSUME ReceiveNothing
      PROVE  /\ rxq' = <<>>
             /\ UNCHANGED <<latches, loopVars, inbox, line, out, acknowledged>>
             /\ StartListening
  BY <1>3 DEF ReceiveNothing
<1>4. CASE ModeReceived \/ GoReceived
  BY <1>2, <1>4 DEF ModeReceived, GoReceived, StartRound
<1>5. CASE ModeMissed \/ GoMissed
  BY <1>1, <1>3, <1>5 DEF ModeMissed, GoMissed, StartRound
<1>6. CASE Start
  BY <1>1, <1>6 DEF Start
<1> QED
  BY <1>4, <1>5, <1>6 DEF ControllerListens

-----------------------------------------------------------------------------
(***************************************************************************)
(* The firmware.                                                           *)
(***************************************************************************)
\* What it has sent in reply, if anything.
Answers ==
  \/ line' = <<>>
  \/ /\ packet.op \in Request
     /\ \/ line' = <<SEND_BUTTON_STATE, fwState>> /\ fwState \in reported'
        \/ \E v \in {0, 1} : line' = <<RESPOND_CAN_SEND, v>> /\ (v = 1 => startSeen')

LEMMA AnswerPollSteps ==
  ASSUME TypeInv, fwPc = "handle", AnswerPoll
  PROVE  /\ reported \subseteq reported' /\ reported' \subseteq reported \cup {fwState}
         /\ \/ line' = <<>>
            \/ packet.op \in Request /\ line' = <<SEND_BUTTON_STATE, fwState>> /\ fwState \in reported'
  BY DEF TypeInv, AnswerPoll, Request

LEMMA CommandedType ==
  ASSUME TypeInv
  PROVE  Commanded \in [Followed -> 0 .. 255]
<1>1. out \in [Followed -> 0 .. 255] /\ packet \in Packets \cup {NoPacket}
  BY DEF TypeInv
<1>2. packet.value \in 0 .. 255
  BY <1>1, NoPacketType
<1> QED
  BY <1>1, <1>2 DEF Commanded

LEMMA HandlerSteps ==
  ASSUME TypeInv, Handler
  PROVE  /\ fwPc = "handle" /\ fwPc' = "start" /\ packet' = NoPacket
         /\ UNCHANGED <<fwState, begun, inbox, rxq>>
         /\ returnToSafe' \in {0, 1} /\ recoverEstop' \in {0, 1}
         /\ out' \in [Followed -> 0 .. 255]
         /\ reported \subseteq reported' /\ reported' \subseteq reported \cup {fwState}
         /\ startSeen' \in BOOLEAN /\ acknowledged' \in BOOLEAN
         /\ startSeen => startSeen'
         /\ Answers
<1>1. /\ fwPc = "handle" /\ fwPc' = "start" /\ packet' = NoPacket
      /\ UNCHANGED <<fwState, begun, inbox, rxq>>
  BY DEF Handler, Handle, Automatic, ManualCommand, ManualCanSend, Maintenance, GetSafe, Stopped
<1>2. /\ startSeen \in BOOLEAN /\ acknowledged \in BOOLEAN
  BY Zenon DEF TypeInv
<1>3. returnToSafe \in {0, 1} /\ recoverEstop \in {0, 1}
  BY DEF TypeInv
<1>4. CASE Automatic \/ ManualCommand \/ Stopped
  <2>1. AnswerPoll /\ out' = Commanded
    BY <1>4 DEF Automatic, ManualCommand, Stopped
  <2>2. UNCHANGED <<startSeen, acknowledged>>
    BY <1>4 DEF Automatic, ManualCommand, Stopped
  <2>3. returnToSafe' \in {0, 1} /\ recoverEstop' \in {0, 1}
    BY <1>3, <1>4 DEF Automatic, ManualCommand, Stopped, latches
  <2>4. startSeen' \in BOOLEAN /\ acknowledged' \in BOOLEAN /\ (startSeen => startSeen')
    BY <1>2, <2>2, Zenon
  <2> QED
    BY <1>1, <2>1, <2>3, <2>4, AnswerPollSteps, CommandedType DEF Answers
<1>5. CASE ManualCanSend
  <2>1. /\ packet.op \in Request
        /\ UNCHANGED <<latches, out, reported>>
    BY <1>5 DEF ManualCanSend, Request
  <2>2. PICK rideStart \in BOOLEAN :
          /\ line' = <<RESPOND_CAN_SEND, IF packet.value = 1 /\ rideStart THEN 1 ELSE 0>>
          /\ startSeen' = (startSeen \/ (packet.value = 1 /\ rideStart))
    BY <1>5, Zenon DEF ManualCanSend
  <2>3. startSeen' \in BOOLEAN /\ (startSeen => startSeen')
    BY <2>2, Zenon
  <2>4. acknowledged' \in BOOLEAN
    BY <1>2, <1>5, Zenon DEF ManualCanSend
  <2>5. \E v \in {0, 1} : line' = <<RESPOND_CAN_SEND, v>> /\ (v = 1 => startSeen')
    <3>1. CASE packet.value = 1 /\ rideStart
      BY <2>2, <3>1, Zenon
    <3>2. CASE ~(packet.value = 1 /\ rideStart)
      <4>1. line' = <<RESPOND_CAN_SEND, 0>>
        BY <2>2, <3>2, Zenon
      <4> QED
        BY <4>1
    <3> QED
      BY <3>1, <3>2
  <2>6. Answers
    BY <2>1, <2>5, Zenon DEF Answers
  <2> QED
    BY <1>1, <1>3, <2>1, <2>3, <2>4, <2>6 DEF latches, TypeInv
<1>6. CASE Maintenance
  <2>1. AnswerPoll /\ UNCHANGED latches
    BY <1>6 DEF Maintenance
  <2>2. UNCHANGED <<startSeen, acknowledged>>
    BY <1>6 DEF Maintenance
  <2>3. startSeen' \in BOOLEAN /\ acknowledged' \in BOOLEAN /\ (startSeen => startSeen')
    BY <1>2, <2>2, Zenon
  <2>4. out' \in [Followed -> 0 .. 255]
    BY <1>6, Bytes DEF Maintenance, TypeInv
  <2> QED
    BY <1>1, <1>3, <2>1, <2>3, <2>4, AnswerPollSteps DEF Answers, latches
<1>7. CASE GetSafe
  <2>1. AnswerPoll /\ out' = Commanded
    BY <1>7 DEF GetSafe
  <2>2. startSeen' = startSeen
    BY <1>7 DEF GetSafe
  <2>3. returnToSafe' \in {0, 1} /\ recoverEstop' \in {0, 1}
    BY <1>3, <1>7 DEF GetSafe
  <2>4. acknowledged' \in BOOLEAN
    BY <1>7, Zenon DEF GetSafe
  <2>5. startSeen' \in BOOLEAN /\ (startSeen => startSeen')
    BY <1>2, <2>2, Zenon
  <2> QED
    BY <1>1, <2>1, <2>3, <2>4, <2>5, AnswerPollSteps, CommandedType DEF Answers
<1> QED
  BY <1>4, <1>5, <1>6, <1>7 DEF Handler

\* A frame is a packet of the controller, or one that was merged of two.
LEMMA ReadFrameSteps ==
  ASSUME TypeInv, ReadFrame
  PROVE  /\ fwPc = "frame" /\ packet = NoPacket
         /\ inbox # <<>> /\ inbox' = Tail(inbox)
         /\ UNCHANGED <<latches, fwState, line, rxq, out, fwObservers>>
         /\ \/ /\ fwPc' \in {"frame", "handle"} /\ packet' = NoPacket
               /\ begun' \in {NoPacket, begun}
               /\ begun' # NoPacket => fwPc' = "frame"
            \/ /\ fwPc' = "frame" /\ packet' = NoPacket /\ Head(inbox).cut
               /\ begun = NoPacket
               /\ begun' = PacketOf(Head(inbox).op, Head(inbox).value)
            \/ /\ fwPc' = "handle" /\ begun' = NoPacket
               /\ begun = NoPacket /\ packet' = Head(inbox)
            \/ /\ fwPc' = "handle" /\ begun' = NoPacket
               /\ begun # NoPacket /\ packet' \in {begun, PacketOf(begun.op, StartByte)}
<1>1. /\ fwPc = "frame" /\ inbox # <<>> /\ inbox' = Tail(inbox)
      /\ UNCHANGED <<latches, fwState, line, rxq, out, fwObservers>>
  BY DEF ReadFrame
<1>2. packet = NoPacket
  BY <1>1 DEF TypeInv
<1>3. CASE Head(inbox).cut /\ begun = NoPacket
  BY <1>1, <1>2, <1>3 DEF ReadFrame
<1>4. CASE Head(inbox).cut /\ begun # NoPacket
  BY <1>1, <1>2, <1>4 DEF ReadFrame
<1>5. CASE ~Head(inbox).cut /\ begun = NoPacket
  BY <1>1, <1>2, <1>5 DEF ReadFrame
<1>6. CASE ~Head(inbox).cut /\ begun # NoPacket
  BY <1>1, <1>2, <1>6 DEF ReadFrame
<1> QED
  BY <1>3, <1>4, <1>5, <1>6

-----------------------------------------------------------------------------
(***************************************************************************)
(* The bytes on their way to the controller: whole replies, but that the   *)
(* first one may have lost its first byte.                                 *)
(***************************************************************************)
Queued == Len(rxq)

OnLine == Len(line)

StreamLen == Queued + OnLine

StreamByte(i) == IF i <= Queued THEN rxq[i] ELSE line[i - Queued]

Odd(n) == n % 2 = 1

\* What the i-th byte may be, as the first of a reply and as the second.
ReplyAt(i) ==
  \/ StreamByte(i) = SEND_BUTTON_STATE /\ StreamByte(i + 1) \in reported
  \/ /\ StreamByte(i) = RESPOND_CAN_SEND /\ StreamByte(i + 1) \in {0, 1}
     /\ StreamByte(i + 1) = 1 => startSeen

Replies ==
  /\ \A i \in 1 .. StreamLen : Odd(StreamLen - i) => ReplyAt(i)
  /\ \A i \in 1 .. StreamLen : ~Odd(StreamLen - i) => StreamByte(i) \in Mode

LEMMA Parity ==
  /\ ~Odd(0) /\ Odd(1) /\ ~Odd(2)
  /\ \A n \in Nat : Odd(n + 1) <=> ~Odd(n)
  /\ \A n \in Nat : Odd(n + 2) <=> Odd(n)
  BY DEF Odd

LEMMA StreamTypes ==
  ASSUME TypeInv
  PROVE  /\ Queued \in Nat /\ OnLine \in 0 .. 2 /\ StreamLen \in Nat
         /\ rxq # <<>> <=> Queued >= 1
         /\ line # <<>> <=> OnLine >= 1
         /\ \A i \in 1 .. StreamLen : StreamByte(i) \in ReplyByte
<1>1. rxq \in Seq(ReplyByte) /\ line \in Seq(ReplyByte) /\ OnLine <= 2
  BY DEF TypeInv, OnLine
<1>2. Queued \in Nat /\ OnLine \in Nat
  BY <1>1, LenProperties DEF Queued, OnLine
<1>3. OnLine \in 0 .. 2 /\ StreamLen \in Nat
  BY <1>1, <1>2 DEF StreamLen
<1>4. (rxq # <<>> <=> Queued >= 1) /\ (line # <<>> <=> OnLine >= 1)
  <2>1. /\ rxq # <<>> => Queued \in Nat \ {0}
        /\ line # <<>> => OnLine \in Nat \ {0}
    BY <1>1, EmptySeq DEF Queued, OnLine
  <2>2. /\ rxq = <<>> => Queued = 0
        /\ line = <<>> => OnLine = 0
    BY EmptySeq DEF Queued, OnLine
  <2> QED
    BY <1>2, <2>1, <2>2
<1>5. ASSUME NEW i \in 1 .. StreamLen
      PROVE  StreamByte(i) \in ReplyByte
  <2>1. CASE i <= Queued
    <3>1. i \in 1 .. Len(rxq)
      BY <1>2, <2>1 DEF Queued
    <3> QED
      BY <1>1, <2>1, <3>1, ElementOfSeq DEF StreamByte
  <2>2. CASE ~(i <= Queued)
    <3>1. i - Queued \in 1 .. OnLine
      BY <1>2, <2>2 DEF StreamLen
    <3>2. line[i - Queued] \in ReplyByte
      BY <1>1, <3>1, ElementOfSeq DEF OnLine
    <3> QED
      BY <2>2, <3>2 DEF StreamByte
  <2> QED
    BY <2>1, <2>2
<1> QED
  BY <1>2, <1>3, <1>4, <1>5

\* The first two bytes are a reply, or the second begins one.
LEMMA Heard ==
  ASSUME TypeInv, Replies, Queued >= 2
  PROVE  \/ rxq[1] = SEND_BUTTON_STATE /\ rxq[2] \in reported
         \/ /\ rxq[1] = RESPOND_CAN_SEND /\ rxq[2] \in {0, 1}
            /\ rxq[2] = 1 => startSeen
         \/ /\ Odd(StreamLen)
            /\ rxq[1] \in Mode
            /\ rxq[2] \in {SEND_BUTTON_STATE, RESPOND_CAN_SEND}
<1>1. /\ Queued \in Nat /\ StreamLen \in Nat /\ StreamLen >= 2
      /\ StreamByte(1) = rxq[1] /\ StreamByte(2) = rxq[2]
  BY StreamTypes DEF StreamLen, StreamByte
<1>2. CASE ~Odd(StreamLen)
  <2>1. Odd(StreamLen - 1)
    BY <1>1, <1>2 DEF Odd
  <2>2. ReplyAt(1)
    BY <1>1, <2>1 DEF Replies
  <2> QED
    BY <1>1, <2>2 DEF ReplyAt
<1>3. CASE Odd(StreamLen)
  <2>1. ~Odd(StreamLen - 1)
    BY <1>1, <1>3 DEF Odd
  <2>2. rxq[1] \in Mode
    BY <1>1, <2>1 DEF Replies
  <2>3. Odd(StreamLen - 2)
    BY <1>1, <1>3 DEF Odd
  <2>4. rxq[2] \in {SEND_BUTTON_STATE, RESPOND_CAN_SEND}
    <3>1. ReplyAt(2)
      BY <1>1, <2>3 DEF Replies
    <3> QED
      BY <1>1, <3>1 DEF ReplyAt
  <2> QED
    BY <1>3, <2>2, <2>4
<1> QED
  BY <1>2, <1>3

LEMMA ReadInPart ==
  ASSUME TypeInv
  PROVE  InPart <=> Queued = 1 \/ Odd(StreamLen)
BY DEF InPart, Queued, OnLine, StreamLen, Odd

\* What the controller takes from them: a mode that was reported ...
LEMMA ModeHeard ==
  ASSUME TypeInv, Replies, ModeReceived
  PROVE  \/ mode' = mode
         \/ mode' \in reported
         \/ InPart /\ mode' \in {AUTOMATIC, MANUAL, RESPOND_CAN_SEND}
<1>1. /\ rxq # <<>>
      /\ mode' = IF rxq[1] = SEND_BUTTON_STATE THEN Second(0) ELSE mode
  BY DEF ModeReceived, Receive
<1>2. Queued \in Nat /\ Queued >= 1
  BY <1>1, StreamTypes
<1>3. CASE Queued = 1
  <2>1. mode' \in {mode, AUTOMATIC}
    BY <1>1, <1>3 DEF Second, Queued, AUTOMATIC
  <2> QED
    BY <1>3, <2>1, ReadInPart
<1>4. CASE Queued >= 2
  <2>1. mode' = mode \/ (rxq[1] = SEND_BUTTON_STATE /\ mode' = rxq[2])
    BY <1>1, <1>4 DEF Second, Queued
  <2>2. CASE Odd(StreamLen) /\ rxq[2] \in {SEND_BUTTON_STATE, RESPOND_CAN_SEND}
    <3>1. mode' \in {mode, MANUAL, RESPOND_CAN_SEND}
      BY <2>1, <2>2 DEF SEND_BUTTON_STATE, MANUAL
    <3> QED
      BY <2>2, <3>1, ReadInPart
  <2>3. SEND_BUTTON_STATE # RESPOND_CAN_SEND
    BY DEF SEND_BUTTON_STATE, RESPOND_CAN_SEND
  <2> QED
    BY <1>4, <2>1, <2>2, <2>3, Heard
<1> QED
  BY <1>2, <1>3, <1>4

\* ... and a permission that was given.
LEMMA GoHeard ==
  ASSUME TypeInv, Replies, GoReceived
  PROVE  /\ release_go' \in {0, 1}
         /\ release_go' = 1 => startSeen \/ rxq = <<RESPOND_CAN_SEND>>
<1>1. /\ rxq # <<>>
      /\ release_go' = IF rxq[1] = RESPOND_CAN_SEND THEN Second(1) ELSE 0
  BY DEF GoReceived, Receive
<1>2. Queued \in Nat /\ Queued >= 1
  BY <1>1, StreamTypes
<1>3. CASE Queued = 1
  <2>1. release_go' = IF rxq[1] = RESPOND_CAN_SEND THEN 1 ELSE 0
    BY <1>1, <1>3 DEF Second, Queued
  <2>2. rxq[1] = RESPOND_CAN_SEND => rxq = <<RESPOND_CAN_SEND>>
    <3>1. rxq \in Seq(ReplyByte) /\ <<RESPOND_CAN_SEND>> \in Seq(ReplyByte)
      BY DEF TypeInv, ReplyByte
    <3>2. Len(rxq) = 1
      BY <1>3 DEF Queued
    <3> QED
      BY <3>1, <3>2, SeqEqual
  <2> QED
    BY <2>1, <2>2
<1>4. CASE Queued >= 2
  <2>1. release_go' = 0 \/ (rxq[1] = RESPOND_CAN_SEND /\ release_go' = rxq[2])
    BY <1>1, <1>4 DEF Second, Queued
  <2>2. RESPOND_CAN_SEND \notin Mode /\ SEND_BUTTON_STATE # RESPOND_CAN_SEND
    BY DEF SEND_BUTTON_STATE, RESPOND_CAN_SEND, Mode, AUTOMATIC, MANUAL, MAINTENANCE,
           STOP, RETURN_TO_SAFE
  <2>3. CASE release_go' = 0
    BY <2>3
  <2>4. CASE release_go' # 0
    <3>1. rxq[2] \in {0, 1} /\ (rxq[2] = 1 => startSeen)
      BY <1>4, <2>1, <2>2, <2>4, Heard
    <3> QED
      BY <2>1, <2>4, <3>1
  <2> QED
    BY <2>3, <2>4
<1> QED
  BY <1>2, <1>3, <1>4

-----------------------------------------------------------------------------
(***************************************************************************)
(* A byte stays what it is while the stream grows behind it by a reply, or *)
(* moves from the line to the queue.                                       *)
(***************************************************************************)
LEMMA ByteKept ==
  ASSUME TypeInv, Replies, NEW i \in 1 .. StreamLen,
         StreamByte(i)' = StreamByte(i),
         i + 1 <= StreamLen => StreamByte(i + 1)' = StreamByte(i + 1),
         reported \subseteq reported', startSeen => startSeen'
  PROVE  /\ Odd(StreamLen - i) => ReplyAt(i)'
         /\ ~Odd(StreamLen - i) => StreamByte(i)' \in Mode
<1>1. StreamLen \in Nat
  BY StreamTypes
<1>2. ASSUME Odd(StreamLen - i)
      PROVE  ReplyAt(i)'
  <2>1. ReplyAt(i)
    BY <1>2 DEF Replies
  <2>2. i + 1 <= StreamLen
    BY <1>1, <1>2 DEF Odd
  <2>3. CASE StreamByte(i) = SEND_BUTTON_STATE /\ StreamByte(i + 1) \in reported
    BY <2>2, <2>3 DEF ReplyAt
  <2>4. CASE /\ StreamByte(i) = RESPOND_CAN_SEND /\ StreamByte(i + 1) \in {0, 1}
             /\ StreamByte(i + 1) = 1 => startSeen
    <3>1. /\ StreamByte(i)' = RESPOND_CAN_SEND /\ StreamByte(i + 1)' \in {0, 1}
          /\ StreamByte(i + 1)' = 1 => startSeen'
      BY <2>2, <2>4
    <3> QED
      BY <3>1, Zenon DEF ReplyAt
  <2> QED
    BY <2>1, <2>3, <2>4 DEF ReplyAt
<1>3. ASSUME ~Odd(StreamLen - i)
      PROVE  StreamByte(i)' \in Mode
  BY <1>3 DEF Replies
<1> QED
  BY <1>2, <1>3

LEMMA StreamKept ==
  ASSUME TypeInv, Replies,
         StreamLen' = StreamLen, \A i \in 1 .. StreamLen : StreamByte(i)' = StreamByte(i),
         reported \subseteq reported', startSeen => startSeen'
  PROVE  Replies'
<1>1. StreamLen \in Nat
  BY StreamTypes
<1>2. ASSUME NEW i \in 1 .. StreamLen
      PROVE  /\ Odd(StreamLen - i) => ReplyAt(i)'
             /\ ~Odd(StreamLen - i) => StreamByte(i)' \in Mode
  <2>1. i + 1 <= StreamLen => StreamByte(i + 1)' = StreamByte(i + 1)
    BY <1>1
  <2> QED
    BY <2>1, ByteKept
<1> QED
  BY <1>2 DEF Replies

\* A reply of which no byte has arrived is whole.
LEMMA ReplyOnLine ==
  ASSUME TypeInv, Replies, OnLine = 2
  PROVE  \/ line[1] = SEND_BUTTON_STATE /\ line[2] \in reported
         \/ line[1] = RESPOND_CAN_SEND /\ line[2] \in {0, 1} /\ (line[2] = 1 => startSeen)
<1>1. Queued \in Nat /\ StreamLen = Queued + 2
  BY StreamTypes DEF StreamLen
<1>2. /\ Queued + 1 \in 1 .. StreamLen /\ StreamLen - (Queued + 1) = 1
      /\ (Queued + 1) + 1 = Queued + 2
  BY <1>1
<1>3. ReplyAt(Queued + 1)
  BY <1>2, Parity DEF Replies
<1>4. StreamByte(Queued + 1) = line[1] /\ StreamByte(Queued + 2) = line[2]
  BY <1>1 DEF StreamByte
<1> QED
  BY <1>2, <1>3, <1>4 DEF ReplyAt

\* What may still come has been said by the firmware before.
LEMMA ListeningReports ==
  ASSUME TypeInv, Replies, ControllerListens
  PROVE  reported' \subseteq reported
<1>1. StartListening /\ \E n \in 0 .. Len(line) : Loses(n)
  BY ListeningSteps
<1>2. PICK n \in 0 .. OnLine : Loses(n)
  BY <1>1 DEF OnLine
<1>3. ASSUME NEW m \in Mode, line' = <<SEND_BUTTON_STATE, m>>
      PROVE  m \in reported
  <2>1. Len(line') = 2 /\ line'[1] = SEND_BUTTON_STATE /\ line'[2] = m
    BY <1>3
  <2>2. OnLine = 2 /\ n = 0
    <3>1. OnLine - n = 2
      BY <1>2, <2>1 DEF Loses, OnLine
    <3> QED
      BY <3>1, StreamTypes
  <2>3. line[1] = SEND_BUTTON_STATE /\ line[2] = m
    BY <1>2, <2>1, <2>2 DEF Loses, OnLine
  <2>4. SEND_BUTTON_STATE # RESPOND_CAN_SEND
    BY DEF SEND_BUTTON_STATE, RESPOND_CAN_SEND
  <2> QED
    BY <2>2, <2>3, <2>4, ReplyOnLine
<1> QED
  BY <1>1, <1>3 DEF StartListening

LEMMA RepliesListening ==
  ASSUME TypeInv, Replies, ControllerListens
  PROVE  Replies'
<1>1. /\ rxq' = <<>> /\ StartListening
      /\ \E n \in 0 .. Len(line) : Loses(n)
  BY ListeningSteps
<1>2. PICK n \in 0 .. OnLine : Loses(n)
  BY <1>1 DEF OnLine
<1>3. Queued \in Nat /\ OnLine \in 0 .. 2 /\ StreamLen = Queued + OnLine
  BY StreamTypes DEF StreamLen
<1>4. StreamLen' = OnLine - n /\ Queued' = 0 /\ OnLine' = OnLine - n
  <2>1. Queued' = 0 /\ OnLine' = OnLine - n
    BY <1>1, <1>2, EmptySeq DEF Queued, OnLine, Loses
  <2> QED
    BY <1>3, <2>1 DEF StreamLen
<1>5. ASSUME NEW i \in 1 .. OnLine - n
      PROVE  /\ StreamByte(i)' = line'[i] /\ line'[i] = line[n + i]
             /\ StreamByte(Queued + n + i) = line[n + i]
  <2>1. line'[i] = line[n + i]
    BY <1>2, <1>5 DEF Loses, OnLine
  <2>2. StreamByte(i)' = line'[i]
    BY <1>3, <1>4 DEF StreamByte
  <2>3. ASSUME NEW m, m = Queued + n + i
        PROVE  StreamByte(m) = line[n + i]
    <3>1. ~(m <= Queued) /\ m - Queued = n + i
      BY <1>3, <2>3
    <3> QED
      BY <3>1 DEF StreamByte
  <2> QED
    BY <2>1, <2>2, <2>3
<1>6. ASSUME NEW i \in 1 .. OnLine - n, ~Odd(OnLine - n - i)
      PROVE  StreamByte(i)' \in Mode
  <2>1. /\ Queued + n + i \in 1 .. StreamLen
        /\ StreamLen - (Queued + n + i) = OnLine - n - i
    BY <1>3
  <2>2. StreamByte(Queued + n + i) \in Mode
    BY <1>6, <2>1 DEF Replies
  <2> QED
    BY <1>5, <2>2
<1>7. ASSUME NEW i \in 1 .. OnLine - n, Odd(OnLine - n - i)
      PROVE  ReplyAt(i)'
  <2>1. i = 1 /\ OnLine = 2 /\ n = 0
    BY <1>3, <1>7 DEF Odd
  <2>2. StreamByte(1)' = line[1] /\ StreamByte(1 + 1)' = line[2]
    BY <1>5, <2>1
  <2>3. line' = <<line[1], line[2]>>
    <3>1. /\ line' \in Seq(ReplyByte) /\ Len(line') = 2
          /\ line'[1] = line[1] /\ line'[2] = line[2]
      BY <1>2, <2>1 DEF Loses, OnLine
    <3>2. <<line[1], line[2]>> \in Seq(ReplyByte)
      BY <2>1, LineTypes DEF OnLine
    <3> QED
      BY <3>1, <3>2, SeqEqual
  <2>4. CASE line[1] = SEND_BUTTON_STATE /\ line[2] \in reported
    <3>1. line[2] \in Mode
      BY <2>4 DEF TypeInv
    <3>2. line[2] \in reported'
      BY <1>1, <2>3, <2>4, <3>1 DEF StartListening
    <3> QED
      BY <2>1, <2>2, <2>4, <3>2 DEF ReplyAt
  <2>5. CASE line[1] = RESPOND_CAN_SEND /\ line[2] \in {0, 1}
    <3>1. line[2] = 1 => startSeen'
      <4>1. startSeen' = (line' = <<RESPOND_CAN_SEND, 1>>)
        BY <1>1, Zenon DEF StartListening
      <4> QED
        BY <2>3, <2>5, <4>1, Zenon
    <3> QED
      BY <2>1, <2>2, <2>5, <3>1, Zenon DEF ReplyAt
  <2> QED
    BY <2>1, <2>4, <2>5, ReplyOnLine
<1> QED
  BY <1>4, <1>6, <1>7 DEF Replies

LEMMA RepliesHandled ==
  ASSUME TypeInv, Replies, Handler
  PROVE  Replies'
<1>1. /\ fwPc = "handle" /\ rxq' = rxq
      /\ reported \subseteq reported'
      /\ startSeen => startSeen'
      /\ Answers
  BY HandlerSteps
<1>2. /\ Queued' = Queued /\ Queued \in Nat /\ OnLine = 0
      /\ StreamLen = Queued /\ StreamLen' = Queued + OnLine'
  <2>1. line = <<>>
    BY <1>1 DEF TypeInv
  <2>2. Queued \in Nat /\ OnLine \in 0 .. 2 /\ OnLine = 0
    BY <2>1, StreamTypes, EmptySeq DEF OnLine
  <2>3. Queued' = Queued
    BY <1>1 DEF Queued
  <2> QED
    BY <2>2, <2>3 DEF StreamLen
<1>3. \A i \in 1 .. StreamLen : StreamByte(i)' = StreamByte(i)
  BY <1>1, <1>2 DEF StreamByte
<1>5. CASE line' = <<>>
  <2>1. OnLine' = 0
    BY <1>5, EmptySeq DEF OnLine
  <2>2. StreamLen' = StreamLen
    BY <1>2, <2>1
  <2> QED
    BY <1>1, <1>3, <2>2, StreamKept
<1>6. ASSUME NEW n \in Nat, n = StreamLen,
             NEW a, NEW b, line' = <<a, b>>, b \in Mode,
             \/ a = SEND_BUTTON_STATE /\ b \in reported'
             \/ a = RESPOND_CAN_SEND /\ b \in {0, 1} /\ (b = 1 => startSeen')
      PROVE  Replies'
  <2>1. OnLine' = 2 /\ line'[1] = a /\ line'[2] = b
    BY <1>6 DEF OnLine
  <2>2. StreamLen' = n + 2
    BY <1>2, <1>6, <2>1
  <2>3. StreamByte(n + 1)' = a /\ StreamByte(n + 2)' = b
    BY <1>2, <1>6, <2>1 DEF StreamByte
  <2>4. ASSUME NEW i \in 1 .. n
        PROVE  /\ Odd(StreamLen' - i) => ReplyAt(i)'
               /\ ~Odd(StreamLen' - i) => StreamByte(i)' \in Mode
    <3>1. Odd(StreamLen' - i) <=> Odd(StreamLen - i)
      <4>1. n - i \in Nat /\ StreamLen' - i = (n - i) + 2
        BY <2>2
      <4> QED
        BY <1>6, <4>1, Parity
    <3>2. i + 1 <= StreamLen => StreamByte(i + 1)' = StreamByte(i + 1)
      BY <1>3, <1>6
    <3> QED
      BY <1>1, <1>3, <1>6, <3>1, <3>2, ByteKept
  <2>5. ReplyAt(n + 1)'
    <3>1. (n + 1) + 1 = n + 2
      OBVIOUS
    <3>2. \/ a = SEND_BUTTON_STATE /\ b \in reported'
          \/ a = RESPOND_CAN_SEND /\ b \in {0, 1} /\ (b = 1 => startSeen')
      BY <1>6
    <3> QED
      BY <2>3, <3>1, <3>2, Zenon DEF ReplyAt
  <2>6. Odd(StreamLen' - (n + 1)) /\ ~Odd(StreamLen' - (n + 2))
    <3>1. StreamLen' - (n + 1) = 1 /\ StreamLen' - (n + 2) = 0
      BY <2>2
    <3> QED
      BY <3>1, Parity
  <2>8. ASSUME NEW i \in 1 .. n + 2
        PROVE  /\ Odd(StreamLen' - i) => ReplyAt(i)'
               /\ ~Odd(StreamLen' - i) => StreamByte(i)' \in Mode
    <3>1. i \in 1 .. n \/ i = n + 1 \/ i = n + 2
      OBVIOUS
    <3>2. CASE i = n + 1
      BY <2>5, <2>6, <3>2
    <3>3. CASE i = n + 2
      BY <1>6, <2>3, <2>6, <3>3
    <3> QED
      BY <2>4, <3>1, <3>2, <3>3
  <2> QED
    BY <2>2, <2>8 DEF Replies
<1>7. fwState \in Mode /\ {0, 1} \subseteq Mode
  BY DEF TypeInv, Mode, AUTOMATIC, MANUAL
<1>8. CASE line' = <<SEND_BUTTON_STATE, fwState>> /\ fwState \in reported'
  BY <1>2, <1>6, <1>7, <1>8
<1>9. ASSUME NEW v \in {0, 1}, line' = <<RESPOND_CAN_SEND, v>>, v = 1 => startSeen'
      PROVE  Replies'
  BY <1>2, <1>6, <1>7, <1>9
<1> QED
  BY <1>1, <1>5, <1>8, <1>9 DEF Answers

LEMMA RepliesArrive ==
  ASSUME TypeInv, Arrive
  PROVE  /\ rxq' \in Seq(ReplyByte) /\ line' \in Seq(ReplyByte) /\ Len(line') <= 2
         /\ line' # <<>> => line # <<>>
         /\ StreamLen' = StreamLen
         /\ \A i \in 1 .. StreamLen : StreamByte(i)' = StreamByte(i)
         /\ OnLine' < OnLine
<1> DEFINE n == IF Together THEN OnLine ELSE 1
           sent == SubSeq(line, 1, n)
           rest == SubSeq(line, n + 1, OnLine)
<1>1. line # <<>> /\ rxq' = rxq \o sent /\ line' = rest
  BY DEF Arrive, OnLine
<1>2. line \in Seq(ReplyByte) /\ rxq \in Seq(ReplyByte)
  BY DEF TypeInv
<1>3. Queued \in Nat /\ OnLine \in 1 .. 2 /\ n \in 1 .. OnLine /\ StreamLen = Queued + OnLine
  BY <1>1, StreamTypes DEF StreamLen
<1> HIDE DEF n, sent, rest
<1>4. \A i \in 1 .. OnLine : line[i] \in ReplyByte
  BY <1>2, ElementOfSeq DEF OnLine
<1>5. /\ sent \in Seq(ReplyByte) /\ Len(sent) = n
      /\ \A i \in 1 .. n : sent[i] = line[i]
  <2>1. \A i \in 1 .. n : line[i] \in ReplyByte
    BY <1>3, <1>4
  <2>2. /\ sent \in Seq(ReplyByte) /\ Len(sent) = (IF 1 <= n THEN n - 1 + 1 ELSE 0)
        /\ \A i \in 1 .. n - 1 + 1 : sent[i] = line[1 + i - 1]
    BY <1>3, <2>1, SubSeqProperties DEF sent
  <2> QED
    BY <1>3, <2>2
<1>6. /\ rest \in Seq(ReplyByte) /\ Len(rest) = OnLine - n
      /\ \A i \in 1 .. OnLine - n : rest[i] = line[n + i]
  <2>1. line' = SubSeq(line, n + 1, Len(line)) /\ n \in 0 .. Len(line)
    BY <1>1, <1>3 DEF rest, OnLine
  <2>2. Loses(n)
    BY <2>1, LineLoses
  <2> QED
    BY <1>1, <2>2 DEF Loses, OnLine
<1>7. /\ rxq' \in Seq(ReplyByte) /\ Queued' = Queued + n
      /\ \A i \in 1 .. Queued + n : rxq'[i] = IF i <= Queued THEN rxq[i] ELSE sent[i - Queued]
  <2>1. /\ rxq \o sent \in Seq(ReplyByte)
        /\ Len(rxq \o sent) = Len(rxq) + Len(sent)
        /\ \A i \in 1 .. Len(rxq) + Len(sent) : (rxq \o sent)[i] =
             IF i <= Len(rxq) THEN rxq[i] ELSE sent[i - Len(rxq)]
    BY <1>2, <1>5, ConcatProperties
  <2> QED
    BY <1>1, <1>5, <2>1 DEF Queued
<1>8. OnLine' = OnLine - n /\ StreamLen' = StreamLen
  BY <1>1, <1>3, <1>6, <1>7 DEF OnLine, StreamLen
<1>9. ASSUME NEW i \in 1 .. StreamLen
      PROVE  StreamByte(i)' = StreamByte(i)
  <2>1. CASE i <= Queued
    BY <1>3, <1>7, <2>1 DEF StreamByte
  <2>2. CASE ~(i <= Queued) /\ i <= Queued + n
    <3>1. i - Queued \in 1 .. n /\ i \in 1 .. Queued + n
      BY <1>3, <2>2
    <3> QED
      BY <1>5, <1>7, <2>2, <3>1 DEF StreamByte
  <2>3. CASE ~(i <= Queued + n)
    <3>1. /\ i - (Queued + n) \in 1 .. OnLine - n
          /\ n + (i - (Queued + n)) = i - Queued
          /\ ~(i <= Queued)
      BY <1>3, <2>3
    <3> QED
      BY <1>1, <1>6, <1>7, <2>3, <3>1 DEF StreamByte
  <2> QED
    BY <2>1, <2>2, <2>3
<1>10. Len(line') <= 2 /\ OnLine' < OnLine
  BY <1>1, <1>3, <1>6, <1>8
<1> QED
  BY <1>1, <1>6, <1>7, <1>8, <1>9, <1>10

-----------------------------------------------------------------------------
(***************************************************************************)
(* Types, step by step.                                                    *)
(***************************************************************************)
LEMMA InboxGrows ==
  ASSUME TypeInv, inbox' = inbox \/ \E p : Queues(p)
  PROVE  inbox' \in Seq(Packets) /\ Len(inbox') <= InboxSize
<1>1. inbox \in Seq(Packets) /\ Len(inbox) <= InboxSize
  BY DEF TypeInv
<1>2. ASSUME NEW p, Queues(p)
      PROVE  inbox' \in Seq(Packets) /\ Len(inbox') <= InboxSize
  <2>1. p \in Packets /\ Len(inbox) < InboxSize /\ inbox' \in {inbox, Append(inbox, p)}
    BY <1>2 DEF Queues
  <2>2. Append(inbox, p) \in Seq(Packets) /\ Len(Append(inbox, p)) = Len(inbox) + 1
    BY <1>1, <2>1, AppendProperties
  <2>3. Len(inbox) \in Nat /\ InboxSize \in Nat
    BY <1>1, LenProperties, LinkAssumption
  <2>4. Len(inbox) + 1 <= InboxSize
    <3> DEFINE n == Len(inbox)
    <3>1. n \in Nat /\ n < InboxSize
      BY <2>1, <2>3
    <3> HIDE DEF n
    <3>2. n + 1 <= InboxSize
      BY <2>3, <3>1
    <3> QED
      BY <3>2 DEF n
  <2> QED
    BY <1>1, <2>1, <2>2, <2>4
<1> QED
  BY <1>1, <1>2

LEMMA TypeSending ==
  ASSUME TypeInv, ControllerSends
  PROVE  TypeInv'
<1>1. /\ UNCHANGED <<latches, loopVars, line, rxq, out, fwObservers>>
      /\ UNCHANGED mode
      /\ release_go' \in {0, release_go}
      /\ pc \in Sending
      /\ pc' \in {"awaitMode", "down", "poll"} \/
           (pc # "poll" /\ pc' \in {"station", "awaitGo", "preStation", "ride"})
  BY SendingSteps
<1>2. inbox' \in Seq(Packets) /\ Len(inbox') <= InboxSize
  BY SendingSteps, InboxGrows
<1>3. startSeen' \in BOOLEAN /\ acknowledged' \in BOOLEAN
  BY <1>1, Zenon DEF TypeInv, fwObservers
<1>4. /\ pc' \in {"poll", "awaitMode", "hill", "station", "awaitGo", "dispatch",
                  "preStation", "ride", "down"}
      /\ pc' \in {"hill", "station", "awaitGo", "dispatch", "preStation", "ride"} =>
           mode' \in RunMode
  BY <1>1 DEF TypeInv, Sending
<1>5. /\ UNCHANGED <<returnToSafe, recoverEstop, fwState, fwPc, packet, begun, line, rxq, out,
                     reported, mode>>
      /\ release_go' \in {0, 1}
  BY <1>1 DEF TypeInv, latches, loopVars, fwObservers
<1> QED
  BY <1>2, <1>3, <1>4, <1>5 DEF TypeInv

LEMMA TypeListening ==
  ASSUME TypeInv, Replies, ControllerListens
  PROVE  TypeInv'
<1>1. /\ rxq' = <<>>
      /\ UNCHANGED <<latches, loopVars, inbox, out, acknowledged>>
      /\ StartListening
      /\ \E n \in 0 .. Len(line) : Loses(n)
  BY ListeningSteps
<1>2. reported' \subseteq Mode
  BY <1>1 DEF StartListening
<1>3. startSeen' \in BOOLEAN
  BY <1>1, Zenon DEF StartListening
<1>4. acknowledged' \in BOOLEAN
  BY <1>1, Zenon DEF TypeInv
<1>5. /\ pc' \in {"poll", "hill", "dispatch"}
      /\ pc' = "hill" => mode' \in RunMode
      /\ pc' = "dispatch" => mode' \in RunMode
      /\ mode' \in Mode \cup {RESPOND_CAN_SEND}
      /\ release_go' \in {0, 1}
  <2>1. mode \in Mode \cup {RESPOND_CAN_SEND} /\ release_go \in {0, 1}
        /\ (pc = "awaitGo" => mode \in RunMode) /\ reported \subseteq Mode
    BY DEF TypeInv
  <2>2. CASE ModeReceived \/ ModeMissed
    <3>1. /\ pc' = IF mode' \in Mode \ {MAINTENANCE} THEN "hill" ELSE "poll"
          /\ release_go' = release_go
      BY <2>2 DEF ModeReceived, ModeMissed, StartRound
    <3>2. mode' \in Mode \cup {RESPOND_CAN_SEND}
      <4>1. CASE ModeReceived
        <5>1. \/ mode' = mode
              \/ mode' \in reported
              \/ mode' \in {AUTOMATIC, MANUAL, RESPOND_CAN_SEND}
          BY <4>1, ModeHeard
        <5> QED
          BY <2>1, <5>1 DEF Mode
      <4>2. CASE ModeMissed
        BY <2>1, <4>2 DEF ModeMissed
      <4> QED
        BY <2>2, <4>1, <4>2
    <3>3. Mode \ {MAINTENANCE} \subseteq RunMode
      BY DEF Mode, RunMode
    <3> QED
      BY <2>1, <3>1, <3>2, <3>3
  <2>3. CASE GoReceived
    <3>1. pc = "awaitGo" /\ pc' = "dispatch" /\ mode' = mode
      BY <2>3 DEF GoReceived
    <3>2. release_go' \in {0, 1}
      BY <2>3, GoHeard
    <3> QED
      BY <2>1, <3>1, <3>2
  <2>4. CASE GoMissed
    BY <2>1, <2>4 DEF GoMissed
  <2>5. CASE Start
    BY <2>5 DEF Start, Mode
  <2> QED
    BY <2>2, <2>3, <2>4, <2>5 DEF ControllerListens
<1>6. UNCHANGED <<returnToSafe, recoverEstop, fwState, fwPc, packet, begun, inbox, out>>
      /\ rxq' \in Seq(ReplyByte)
  BY <1>1 DEF latches, loopVars
<1>7. line' \in Seq(ReplyByte) /\ Len(line') <= 2 /\ (line' # <<>> => fwPc = "start")
  <2>1. PICK n \in 0 .. Len(line) : Loses(n)
    BY <1>1
  <2>2. Len(line) \in 0 .. 2 /\ Len(line') = Len(line) - n /\ line' \in Seq(ReplyByte)
    BY <2>1, LineTypes DEF Loses
  <2>3. Len(line') <= 2 /\ (Len(line') # 0 => Len(line) # 0)
    <3> DEFINE len == Len(line)
    <3>1. len \in 0 .. 2 /\ n \in 0 .. len /\ Len(line') = len - n
      BY <2>2
    <3> HIDE DEF len
    <3>2. Len(line') <= 2 /\ (Len(line') # 0 => len # 0)
      BY <3>1
    <3> QED
      BY <3>2 DEF len
  <2>4. (line' # <<>> => Len(line') # 0) /\ (Len(line) # 0 => line # <<>>)
    BY <2>2, EmptySeq
  <2>5. line # <<>> => fwPc = "start"
    BY DEF TypeInv
  <2> QED
    BY <2>2, <2>3, <2>4, <2>5
<1> QED
  BY <1>1, <1>2, <1>3, <1>4, <1>5, <1>6, <1>7 DEF TypeInv

\* What readState makes of the switches.
LEMMA ReadStateSteps ==
  ASSUME TypeInv, ReadState
  PROVE  /\ fwPc = "start" /\ fwPc' = "receive" /\ line = <<>>
         /\ returnToSafe' \in {0, 1} /\ recoverEstop' \in {0, 1}
         /\ fwState' \in Mode
         /\ returnToSafe = 1 => returnToSafe' = 1 /\ fwState' = RETURN_TO_SAFE
         /\ UNCHANGED <<begun, packet, inbox, line, rxq, out, fwObservers>>
<1>1. /\ fwPc = "start" /\ fwPc' = "receive" /\ line = <<>>
      /\ UNCHANGED <<begun, packet, inbox, line, rxq, out, fwObservers>>
  BY DEF ReadState
<1>2. PICK ignition, estop \in BOOLEAN, selector \in Selector :
        /\ fwState' = ModeOf(returnToSafe, recoverEstop, ignition, estop, selector)
        /\ returnToSafe' = SafeLatch(returnToSafe, recoverEstop, ignition)
        /\ recoverEstop' = EstopLatch(returnToSafe, recoverEstop, ignition, estop)
  BY Zenon DEF ReadState
<1>3. returnToSafe \in {0, 1} /\ recoverEstop \in {0, 1}
  BY DEF TypeInv
<1>4. returnToSafe' \in {0, 1} /\ (returnToSafe = 1 => returnToSafe' = 1)
  BY <1>2, <1>3 DEF SafeLatch
<1>5. recoverEstop' \in {0, 1}
  BY <1>2, <1>3 DEF EstopLatch
<1>6. returnToSafe = 1 => fwState' = RETURN_TO_SAFE
  BY <1>2 DEF ModeOf
<1>7. fwState' \in Mode
  <2>1. Selector \subseteq Mode /\ STOP \in Mode /\ RETURN_TO_SAFE \in Mode
    BY DEF Selector, Mode
  <2>2. CASE returnToSafe = 1
    BY <1>6, <2>1, <2>2
  <2>3. CASE returnToSafe = 0 /\ recoverEstop = 1
    <3>1. fwState' = STOP
      BY <1>2, <2>3 DEF ModeOf
    <3> QED
      BY <2>1, <3>1
  <2>4. CASE returnToSafe = 0 /\ recoverEstop = 0
    <3>1. fwState' \in {RETURN_TO_SAFE, STOP, selector}
      BY <1>2, <2>4 DEF ModeOf
    <3> QED
      BY <1>2, <2>1, <3>1
  <2> QED
    BY <1>3, <2>2, <2>3, <2>4
<1> QED
  BY <1>1, <1>4, <1>5, <1>6, <1>7

LEMMA TypeFirmware ==
  ASSUME TypeInv, FirmwareStep, UNCHANGED piVars
  PROVE  TypeInv'
<1>1. UNCHANGED <<pc, mode, release_go>>
  BY DEF piVars
<1>2. ASSUME UNCHANGED fwObservers
      PROVE  reported' \subseteq Mode /\ startSeen' \in BOOLEAN /\ acknowledged' \in BOOLEAN
  BY <1>2, Zenon DEF TypeInv, fwObservers
<1>3. CASE ReadState
  <2>1. /\ fwPc' = "receive" /\ fwPc = "start" /\ line = <<>>
        /\ returnToSafe' \in {0, 1} /\ recoverEstop' \in {0, 1} /\ fwState' \in Mode
        /\ UNCHANGED <<begun, packet, inbox, line, rxq, out, fwObservers>>
    BY <1>3, ReadStateSteps
  <2>2. reported' \subseteq Mode /\ startSeen' \in BOOLEAN /\ acknowledged' \in BOOLEAN
    BY <1>2, <2>1
  <2>3. UNCHANGED <<begun, packet, inbox, line, rxq, out>>
    BY <2>1
  <2> QED
    BY <1>1, <2>1, <2>2, <2>3 DEF TypeInv
<1>4. CASE BeginFrame
  <2>1. /\ fwPc' \in {"handle", "frame"} /\ fwPc = "receive"
        /\ UNCHANGED <<latches, fwState, begun, packet, inbox, line, rxq, out, fwObservers>>
    BY <1>4 DEF BeginFrame
  <2>2. reported' \subseteq Mode /\ startSeen' \in BOOLEAN /\ acknowledged' \in BOOLEAN
    BY <1>2, <2>1
  <2>3. UNCHANGED <<returnToSafe, recoverEstop, fwState, begun, packet, inbox, line, rxq, out>>
    BY <2>1 DEF latches
  <2>4. begun = NoPacket /\ packet = NoPacket /\ line = <<>>
    BY <2>1 DEF TypeInv
  <2> QED
    BY <1>1, <2>1, <2>2, <2>3, <2>4 DEF TypeInv
<1>5. CASE ReadFrame
  <2>1. /\ fwPc = "frame" /\ inbox # <<>> /\ inbox' = Tail(inbox)
        /\ UNCHANGED <<latches, fwState, line, rxq, out, fwObservers>>
    BY <1>5, ReadFrameSteps
  <2>2. reported' \subseteq Mode /\ startSeen' \in BOOLEAN /\ acknowledged' \in BOOLEAN
    BY <1>2, <2>1
  <2>3. UNCHANGED <<returnToSafe, recoverEstop, fwState, line, rxq, out>> /\ line = <<>>
    BY <2>1 DEF latches, TypeInv
  <2>4. /\ Head(inbox) \in Packets
        /\ inbox' \in Seq(Packets) /\ Len(inbox') <= InboxSize
    <3>1. inbox \in Seq(Packets) /\ Len(inbox) <= InboxSize
      BY DEF TypeInv
    <3>2. /\ Head(inbox) \in Packets /\ Tail(inbox) \in Seq(Packets)
          /\ Len(Tail(inbox)) = Len(inbox) - 1
      BY <2>1, <3>1, HeadTailProperties
    <3>3. Len(inbox) \in Nat /\ InboxSize \in Nat
      BY <3>1, LenProperties, LinkAssumption
    <3>4. Len(inbox) - 1 <= InboxSize
      <4> DEFINE n == Len(inbox)
      <4>1. n \in Nat /\ n <= InboxSize
        BY <3>1, <3>3
      <4> HIDE DEF n
      <4>2. n - 1 <= InboxSize
        BY <3>3, <4>1
      <4> QED
        BY <4>2 DEF n
    <3> QED
      BY <2>1, <3>2, <3>4
  <2>5. begun \in Packets \cup {NoPacket}
    BY DEF TypeInv
  <2>6. /\ PacketOf(Head(inbox).op, Head(inbox).value) \in Packets
        /\ begun # NoPacket => PacketOf(begun.op, StartByte) \in Packets
    <3>1. \A p \in Packets : p.op \in Request \cup Actuator /\ p.value \in 0 .. 255
      BY DEF Packets
    <3>2. StartByte \in 0 .. 255
      BY DEF StartByte
    <3>3. PacketOf(Head(inbox).op, Head(inbox).value) \in Packets
      BY <2>4, <3>1, PacketType
    <3>4. begun # NoPacket => PacketOf(begun.op, StartByte) \in Packets
      BY <2>5, <3>1, <3>2, PacketType
    <3> QED
      BY <3>3, <3>4
  <2>7. /\ fwPc' \in {"frame", "handle"}
        /\ packet' \in Packets \cup {NoPacket} /\ (packet' # NoPacket => fwPc' = "handle")
        /\ begun' \in Packets \cup {NoPacket} /\ (begun' # NoPacket => fwPc' = "frame")
    BY <1>5, <2>4, <2>5, <2>6, ReadFrameSteps
  <2> QED
    BY <1>1, <2>2, <2>3, <2>4, <2>7 DEF TypeInv
<1>6. CASE Handler
  <2>1. /\ fwPc = "handle" /\ fwPc' = "start" /\ packet' = NoPacket
        /\ UNCHANGED <<fwState, begun, inbox, rxq>>
        /\ returnToSafe' \in {0, 1} /\ recoverEstop' \in {0, 1}
        /\ out' \in [Followed -> 0 .. 255]
        /\ reported' \subseteq reported \cup {fwState}
        /\ startSeen' \in BOOLEAN /\ acknowledged' \in BOOLEAN
        /\ Answers
    BY <1>6, HandlerSteps
  <2>2. begun = NoPacket /\ reported' \subseteq Mode /\ fwState \in Mode
    BY <2>1 DEF TypeInv
  <2>3. line' \in Seq(ReplyByte) /\ Len(line') <= 2
    <3>1. \/ line' = <<>>
          \/ \E a, b \in ReplyByte : line' = <<a, b>>
      <4>1. {SEND_BUTTON_STATE, RESPOND_CAN_SEND, 0, 1} \subseteq ReplyByte
        BY DEF ReplyByte, Mode, SEND_BUTTON_STATE, AUTOMATIC, MANUAL
      <4>2. fwState \in ReplyByte
        BY <2>2 DEF ReplyByte
      <4> QED
        BY <2>1, <4>1, <4>2 DEF Answers
    <3>2. CASE line' = <<>>
      BY <3>2, EmptySeq
    <3>3. ASSUME NEW a \in ReplyByte, NEW b \in ReplyByte, line' = <<a, b>>
          PROVE  line' \in Seq(ReplyByte) /\ Len(line') <= 2
      BY <3>3
    <3> QED
      BY <3>1, <3>2, <3>3
  <2> QED
    BY <1>1, <2>1, <2>2, <2>3 DEF TypeInv
<1>7. CASE Arrive
  <2>1. /\ rxq' \in Seq(ReplyByte) /\ line' \in Seq(ReplyByte) /\ Len(line') <= 2
        /\ line' # <<>> => line # <<>>
    BY <1>7, RepliesArrive
  <2>2. UNCHANGED <<latches, loopVars, inbox, out, fwObservers>>
    BY <1>7 DEF Arrive
  <2>3. reported' \subseteq Mode /\ startSeen' \in BOOLEAN /\ acknowledged' \in BOOLEAN
    BY <1>2, <2>2
  <2>4. UNCHANGED <<returnToSafe, recoverEstop, fwState, fwPc, packet, begun, inbox, out>>
    BY <2>2 DEF latches, loopVars
  <2> QED
    BY <1>1, <2>1, <2>3, <2>4 DEF TypeInv
<1> QED
  BY <1>3, <1>4, <1>5, <1>6, <1>7 DEF FirmwareStep

LEMMA RepliesFirmware ==
  ASSUME TypeInv, Replies, FirmwareStep, UNCHANGED piVars
  PROVE  Replies'
<1>2. ASSUME UNCHANGED <<line, rxq>>
      PROVE  StreamLen' = StreamLen /\ \A i \in 1 .. StreamLen : StreamByte(i)' = StreamByte(i)
  BY <1>2 DEF StreamLen, StreamByte, Queued, OnLine
<1>3. ASSUME UNCHANGED fwObservers
      PROVE  reported \subseteq reported' /\ (startSeen => startSeen')
  BY <1>3, Zenon DEF fwObservers
<1>4. CASE ReadState \/ BeginFrame \/ ReadFrame
  <2>1. UNCHANGED <<line, rxq, fwObservers>>
    BY <1>4 DEF ReadState, BeginFrame, ReadFrame
  <2>2. UNCHANGED <<line, rxq>> /\ UNCHANGED fwObservers
    BY <2>1
  <2> QED
    BY <1>2, <1>3, <2>2, StreamKept
<1>5. CASE Handler
  BY <1>5, RepliesHandled
<1>6. CASE Arrive
  <2>1. UNCHANGED fwObservers
    BY <1>6 DEF Arrive
  <2>2. StreamLen' = StreamLen /\ \A i \in 1 .. StreamLen : StreamByte(i)' = StreamByte(i)
    BY <1>6, RepliesArrive
  <2> QED
    BY <1>3, <2>1, <2>2, StreamKept
<1> QED
  BY <1>4, <1>5, <1>6 DEF FirmwareStep

LEMMA RepliesSending ==
  ASSUME TypeInv, Replies, ControllerSends
  PROVE  Replies'
<1>1. UNCHANGED <<line, rxq, fwObservers>>
  BY SendingSteps
<1>2. UNCHANGED <<line, rxq, reported, startSeen>>
  BY <1>1 DEF fwObservers
<1>3. StreamLen' = StreamLen /\ \A i \in 1 .. StreamLen : StreamByte(i)' = StreamByte(i)
  BY <1>2 DEF StreamLen, StreamByte, Queued, OnLine
<1>4. reported \subseteq reported' /\ (startSeen => startSeen')
  BY <1>2, Zenon
<1> QED
  BY <1>3, <1>4, StreamKept

-----------------------------------------------------------------------------
LEMMA StepKinds ==
  ASSUME Next
  PROVE  (FirmwareStep /\ UNCHANGED piVars) \/ ControllerSends \/ ControllerListens
BY Zenon DEF Next, Controller, ControllerSends, ControllerListens

LEMMA LinkInit ==
  ASSUME Init
  PROVE  TypeInv /\ Replies
<1> USE DEF Init, FirmwareInit
<1>1. TypeInv
  <2>1. startSeen \in BOOLEAN /\ acknowledged \in BOOLEAN
    BY Zenon
  <2>2. /\ inbox \in Seq(Packets) /\ Len(inbox) <= InboxSize
        /\ line \in Seq(ReplyByte) /\ Len(line) <= 2 /\ rxq \in Seq(ReplyByte)
    BY EmptySeq, LinkAssumption
  <2>3. out \in [Followed -> 0 .. 255]
    BY Bytes
  <2> QED
    BY <2>1, <2>2, <2>3 DEF TypeInv, Mode, AUTOMATIC
<1>2. StreamLen = 0
  BY EmptySeq DEF StreamLen, Queued, OnLine
<1> QED
  BY <1>1, <1>2, Parity DEF Replies

LEMMA LinkStep ==
  ASSUME TypeInv, Replies, [Next]_vars
  PROVE  TypeInv' /\ Replies'
<1>1. CASE Next
  BY <1>1, StepKinds, TypeSending, TypeListening, TypeFirmware, RepliesSending,
     RepliesListening, RepliesFirmware
<1>2. CASE UNCHANGED vars
  <2>1. UNCHANGED <<returnToSafe, recoverEstop, fwState, fwPc, packet, begun, inbox, line, rxq,
                    out, reported, startSeen, acknowledged, pc, mode, release_go>>
    BY <1>2 DEF vars, fwVars, piVars, latches, loopVars, fwObservers
  <2>2. TypeInv'
    <3>1. startSeen' \in BOOLEAN /\ acknowledged' \in BOOLEAN
      BY <2>1, Zenon DEF TypeInv
    <3>2. UNCHANGED <<returnToSafe, recoverEstop, fwState, fwPc, packet, begun, inbox, line,
                      rxq, out, reported, pc, mode, release_go>>
      BY <2>1
    <3> QED
      BY <3>1, <3>2 DEF TypeInv
  <2>3. StreamLen' = StreamLen /\ \A i \in 1 .. StreamLen : StreamByte(i)' = StreamByte(i)
    BY <2>1 DEF StreamLen, StreamByte, Queued, OnLine
  <2>4. reported \subseteq reported' /\ (startSeen => startSeen')
    BY <2>1, Zenon
  <2> QED
    BY <2>2, <2>3, <2>4, StreamKept
<1> QED
  BY <1>1, <1>2

LEMMA LinkInvariant == Spec => [](TypeInv /\ Replies)
<1>1. Init => TypeInv /\ Replies
  BY LinkInit
<1>2. TypeInv /\ Replies /\ [Next]_vars => (TypeInv /\ Replies)'
  BY LinkStep
<1> QED
  BY <1>1, <1>2, PTL DEF Spec

-----------------------------------------------------------------------------
(***************************************************************************)
(* However late the replies are and whatever is lost, the controller works *)
(* in a mode that the firmware reported since it last looked for a reply,  *)
(* unless it reads one in part.                                            *)
(***************************************************************************)
THEOREM FreshModes == Spec => ModeIsFresh
<1>1. ASSUME TypeInv, Replies, [Next]_vars, mode' # mode, pc # "down"
      PROVE  \/ mode' \in reported
             \/ InPart /\ mode' \in {AUTOMATIC, MANUAL, RESPOND_CAN_SEND}
  <2>1. CASE FirmwareStep /\ UNCHANGED piVars
    BY <1>1, <2>1 DEF piVars
  <2>2. CASE ControllerSends
    BY <1>1, <2>2, SendingSteps
  <2>3. CASE ControllerListens
    <3>1. ModeReceived \/ ModeMissed \/ GoReceived \/ GoMissed
      BY <1>1, <2>3 DEF ControllerListens, Start
    <3>2. CASE ModeReceived
      BY <1>1, <3>2, ModeHeard
    <3>3. CASE ModeMissed \/ GoReceived \/ GoMissed
      BY <1>1, <3>3 DEF ModeMissed, GoReceived, GoMissed
    <3> QED
      BY <3>1, <3>2, <3>3
  <2>4. CASE UNCHANGED vars
    BY <1>1, <2>4 DEF vars, piVars
  <2> QED
    BY <1>1, <2>1, <2>2, <2>3, <2>4, StepKinds
<1>2. TypeInv /\ Replies /\ [Next]_vars =>
        [mode' # mode /\ pc # "down" =>
           \/ mode' \in reported
           \/ InPart /\ mode' \in {AUTOMATIC, MANUAL, RESPOND_CAN_SEND}]_vars
  BY <1>1
<1> QED
  BY <1>2, LinkInvariant, PTL DEF Spec, ModeIsFresh

(***************************************************************************)
(* release_go becomes 1 only when the firmware has reported START pressed  *)
(* since the controller last looked for a reply, or when only the type of  *)
(* its answer has come: neither a late answer, nor one to a poll, nor the  *)
(* rest of a reply that was read in part passes for it.                    *)
(***************************************************************************)
THEOREM DispatchNeedsStart == Spec => StartConfirmed
<1>1. ASSUME TypeInv, Replies, [Next]_vars, release_go = 0, release_go' = 1
      PROVE  startSeen \/ rxq = <<RESPOND_CAN_SEND>>
  <2>1. CASE FirmwareStep /\ UNCHANGED piVars
    BY <1>1, <2>1 DEF piVars
  <2>2. CASE ControllerSends
    BY <1>1, <2>2, SendingSteps
  <2>3. CASE ControllerListens
    <3>1. CASE GoReceived
      BY <1>1, <3>1, GoHeard
    <3>2. CASE ModeReceived \/ ModeMissed \/ GoMissed \/ Start
      BY <1>1, <3>2 DEF ModeReceived, ModeMissed, GoMissed, Start, StartRound
    <3> QED
      BY <2>3, <3>1, <3>2 DEF ControllerListens
  <2>4. CASE UNCHANGED vars
    BY <1>1, <2>4 DEF vars, piVars
  <2> QED
    BY <1>1, <2>1, <2>2, <2>3, <2>4, StepKinds
<1>2. TypeInv /\ Replies /\ [Next]_vars =>
        [release_go = 0 /\ release_go' = 1 => startSeen \/ rxq = <<RESPOND_CAN_SEND>>]_vars
  BY <1>1
<1> QED
  BY <1>2, LinkInvariant, PTL DEF Spec, StartConfirmed

-----------------------------------------------------------------------------
(***************************************************************************)
(* The receive queue.  A request is followed by an attempt to receive, so  *)
(* there is at most one behind those that were waiting at the last one:    *)
(* the replies that can still come are bounded by the packets underway.    *)
(***************************************************************************)
Waiting == Len(inbox)

\* The bytes of the reply to a packet.
Reply(p) == IF p.op \in Request THEN 2 ELSE 0

\* Bytes that are there, or due for what the firmware has received.
Due == StreamLen + Reply(packet) + Reply(begun)

\* No packet of these positions is a request.
Quiet(k, n) == \A i \in k + 1 .. n : inbox[i].op \notin Request

Awaiting == pc \in {"awaitMode", "awaitGo", "down"}

Capacity == 2 * InboxSize + 2

BoundedBy(k) ==
  \/ Quiet(k, Waiting) /\ Due + 2 * k <= Capacity
  \/ /\ Awaiting
     /\ \/ Quiet(k, Waiting - 1) /\ Due + 2 * k <= Capacity
        \/ Quiet(k, Waiting) /\ Due + 2 * k <= Capacity + 2

Bounded == \E k \in 0 .. Waiting : BoundedBy(k)

LEMMA BoundTypes ==
  ASSUME TypeInv
  PROVE  /\ Waiting \in 0 .. InboxSize /\ Capacity \in Nat
         /\ InboxSize \in Nat /\ Capacity = 2 * InboxSize + 2
         /\ Reply(packet) \in {0, 2} /\ Reply(begun) \in {0, 2}
         /\ Reply(NoPacket) = 0
         /\ Due \in Nat /\ Due = StreamLen + Reply(packet) + Reply(begun)
         /\ inbox \in Seq(Packets)
<1>1. inbox \in Seq(Packets) /\ Waiting <= InboxSize
  BY DEF TypeInv, Waiting
<1>2. Waiting \in Nat /\ InboxSize \in Nat
  BY <1>1, LenProperties, LinkAssumption DEF Waiting
<1>3. Reply(NoPacket) = 0
  <2>1. -1 \notin Request
    BY DEF Request, REQUEST_BUTTON_STATE, SEND_CAN_SEND
  <2> QED
    BY <2>1, NoPacketType DEF Reply
<1>4. StreamLen \in Nat
  BY StreamTypes
<1>5. Reply(packet) \in {0, 2} /\ Reply(begun) \in {0, 2}
  BY DEF Reply
<1> QED
  BY <1>1, <1>2, <1>3, <1>4, <1>5 DEF Due, Capacity

\* As long as no packet is put on its way or received.
LEMMA BoundKept ==
  ASSUME TypeInv, Bounded, UNCHANGED <<inbox, pc>>, Due' \in Nat, Due' <= Due
  PROVE  Bounded'
<1>1. PICK k \in 0 .. Waiting : BoundedBy(k)
  BY DEF Bounded
<1>2. Waiting' = Waiting /\ Capacity' = Capacity /\ Awaiting' = Awaiting
      /\ \A m, n : Quiet(m, n)' = Quiet(m, n)
  BY DEF Waiting, Capacity, Awaiting, Quiet
<1>3. Due + 2 * k <= Capacity => Due' + 2 * k <= Capacity
  BY BoundTypes
<1>4. Due + 2 * k <= Capacity + 2 => Due' + 2 * k <= Capacity + 2
  BY BoundTypes
<1>5. BoundedBy(k)'
  BY <1>1, <1>2, <1>3, <1>4, Zenon DEF BoundedBy
<1> QED
  BY <1>2, <1>5 DEF Bounded

LEMMA BoundSending ==
  ASSUME TypeInv, Bounded, ControllerSends
  PROVE  Bounded'
<1>1. /\ inbox' = inbox \/ \E p : Queues(p)
      /\ UNCHANGED <<latches, loopVars, line, rxq, out, fwObservers>>
      /\ pc \in Sending
  BY SendingSteps
<1>2. Due' = Due /\ Capacity' = Capacity
  <2>1. UNCHANGED <<packet, begun, line, rxq>>
    BY <1>1 DEF loopVars
  <2> QED
    BY <2>1 DEF Due, StreamLen, Queued, OnLine, Reply, Capacity
<1>3. PICK k \in 0 .. Waiting : BoundedBy(k)
  BY DEF Bounded
<1>4. Quiet(k, Waiting) /\ Due + 2 * k <= Capacity
  BY <1>1, <1>3 DEF BoundedBy, Awaiting, Sending
<1>5. CASE inbox' = inbox
  <2>1. Waiting' = Waiting /\ Quiet(k, Waiting)'
    BY <1>4, <1>5 DEF Waiting, Quiet
  <2>2. BoundedBy(k)'
    BY <1>2, <1>4, <2>1 DEF BoundedBy
  <2> QED
    BY <2>1, <2>2 DEF Bounded
<1>6. ASSUME NEW p, Queues(p), inbox' # inbox
      PROVE  Bounded'
  <2>1. p \in Packets /\ inbox' = Append(inbox, p)
        /\ (p.op \in Request => pc' \in {"awaitMode", "awaitGo", "down"})
    BY <1>6 DEF Queues
  <2>2. /\ Waiting' = Waiting + 1
        /\ \A i \in 1 .. Waiting : inbox'[i] = inbox[i]
        /\ inbox'[Waiting + 1] = p
    <3>1. inbox \in Seq(Packets)
      BY BoundTypes
    <3>2. /\ Len(Append(inbox, p)) = Len(inbox) + 1
          /\ \A i \in 1 .. Len(inbox) : Append(inbox, p)[i] = inbox[i]
          /\ Append(inbox, p)[Len(inbox) + 1] = p
      BY <2>1, <3>1, AppendProperties
    <3> QED
      BY <2>1, <3>2 DEF Waiting
  <2>3. Waiting \in Nat
    BY BoundTypes
  <2>4. \A i \in k + 1 .. Waiting : inbox'[i].op \notin Request
    BY <1>4, <2>2, <2>3 DEF Quiet
  <2>5. CASE p.op \in Request
    <3>1. Quiet(k, Waiting - 1)'
      BY <2>2, <2>3, <2>4 DEF Quiet
    <3>2. Awaiting'
      BY <2>1, <2>5 DEF Awaiting
    <3>3. BoundedBy(k)'
      BY <1>2, <1>4, <3>1, <3>2 DEF BoundedBy
    <3> QED
      BY <2>2, <2>3, <3>3 DEF Bounded
  <2>6. CASE p.op \notin Request
    <3>1. \A i \in k + 1 .. Waiting + 1 : inbox'[i].op \notin Request
      BY <2>2, <2>3, <2>4, <2>6
    <3>2. Quiet(k, Waiting)'
      BY <2>2, <3>1 DEF Quiet
    <3>3. BoundedBy(k)'
      BY <1>2, <1>4, <3>2 DEF BoundedBy
    <3> QED
      BY <2>2, <2>3, <3>3 DEF Bounded
  <2> QED
    BY <2>5, <2>6
<1> QED
  BY <1>1, <1>5, <1>6

LEMMA BoundListening ==
  ASSUME TypeInv, ControllerListens
  PROVE  Bounded'
<1>1. /\ rxq' = <<>>
      /\ UNCHANGED <<loopVars, inbox>>
      /\ \E n \in 0 .. Len(line) : Loses(n)
  BY ListeningSteps
<1>2. /\ Waiting' = Waiting /\ Capacity' = Capacity
      /\ Due' \in Nat /\ Due' <= OnLine + Reply(packet) + Reply(begun)
  <2>1. StreamLen' \in Nat /\ StreamLen' <= OnLine
    <3>1. PICK n \in 0 .. OnLine : Loses(n)
      BY <1>1 DEF OnLine
    <3>2. Queued' = 0 /\ OnLine' = OnLine - n
      BY <1>1, <3>1, EmptySeq DEF Queued, OnLine, Loses
    <3>3. OnLine \in 0 .. 2 /\ StreamLen' = 0 + (OnLine - n)
      BY <3>2, StreamTypes DEF StreamLen
    <3> QED
      BY <3>1, <3>3
  <2>2. Due' = StreamLen' + Reply(packet) + Reply(begun)
    BY <1>1 DEF Due, Reply, loopVars
  <2>3. Due' \in Nat /\ Due' <= OnLine + Reply(packet) + Reply(begun)
    <3>1. OnLine \in 0 .. 2 /\ Reply(packet) \in {0, 2} /\ Reply(begun) \in {0, 2}
      BY StreamTypes, BoundTypes
    <3> QED
      BY <2>1, <2>2, <3>1
  <2> QED
    BY <1>1, <2>3 DEF Waiting, Capacity
<1>3. OnLine + Reply(packet) + Reply(begun) <= 2
  <2>1. OnLine \in 0 .. 2 /\ (line # <<>> <=> OnLine >= 1)
    BY StreamTypes
  <2>2. Reply(packet) \in {0, 2} /\ Reply(begun) \in {0, 2} /\ Reply(NoPacket) = 0
    BY BoundTypes
  <2>3. CASE fwPc = "start"
    <3>1. packet = NoPacket /\ begun = NoPacket
      BY <2>3 DEF TypeInv
    <3> QED
      BY <2>1, <2>2, <3>1
  <2>4. CASE fwPc # "start"
    <3>1. line = <<>> /\ (packet = NoPacket \/ begun = NoPacket)
      BY <2>4 DEF TypeInv
    <3>2. OnLine = 0
      BY <2>1, <3>1
    <3> QED
      BY <2>2, <3>1, <3>2
  <2> QED
    BY <2>3, <2>4
<1>4. Waiting \in 0 .. InboxSize /\ InboxSize \in Nat /\ Capacity = 2 * InboxSize + 2
  BY BoundTypes
<1>5. ASSUME NEW k, k = Waiting
      PROVE  BoundedBy(k)'
  <2>1. Due' <= 2 /\ Due' \in Nat
    <3>1. OnLine + Reply(packet) + Reply(begun) \in Nat
      BY StreamTypes, BoundTypes
    <3> QED
      BY <1>2, <1>3, <3>1
  <2>2. Due' + 2 * k <= Capacity'
    <3>1. Capacity' = 2 * InboxSize + 2 /\ k \in 0 .. InboxSize
      BY <1>2, <1>4, <1>5
    <3>2. \A d \in Nat : d <= 2 => d + 2 * k <= 2 * InboxSize + 2
      BY <1>4, <3>1
    <3> QED
      BY <2>1, <3>1, <3>2, Zenon
  <2>3. Quiet(k, Waiting)'
    BY <1>2, <1>4, <1>5 DEF Quiet
  <2> QED
    BY <2>2, <2>3 DEF BoundedBy
<1> QED
  BY <1>2, <1>4, <1>5 DEF Bounded

LEMMA LoadArithmetic ==
  ASSUME NEW d \in Nat, NEW e \in Nat, NEW c \in Nat
  PROVE  /\ \A j, k \in Nat : e <= d + 2 /\ k = j + 1 =>
              /\ d + 2 * k <= c => e + 2 * j <= c
              /\ d + 2 * k <= c + 2 => e + 2 * j <= c + 2
         /\ e <= d =>
              /\ d + 2 * 0 <= c => e + 2 * 0 <= c
              /\ d + 2 * 0 <= c + 2 => e + 2 * 0 <= c + 2
         /\ e <= d + 2 /\ d + 2 * 0 <= c => e + 2 * 0 <= c + 2
  OBVIOUS

LEMMA BoundReading ==
  ASSUME TypeInv, Bounded, ReadFrame, pc' = pc
  PROVE  Bounded'
<1> DEFINE h == Head(inbox)
<1>1. /\ inbox # <<>> /\ inbox' = Tail(inbox) /\ packet = NoPacket
      /\ UNCHANGED <<line, rxq>>
  BY ReadFrameSteps
<1>2. /\ Waiting \in 0 .. InboxSize /\ InboxSize \in Nat /\ Capacity \in Nat
      /\ Reply(NoPacket) = 0 /\ Reply(begun) \in {0, 2}
      /\ Due \in Nat /\ Due = StreamLen + Reply(packet) + Reply(begun)
      /\ inbox \in Seq(Packets) /\ StreamLen \in Nat
  BY BoundTypes, StreamTypes
<1>3. /\ Waiting >= 1 /\ Waiting' = Waiting - 1
      /\ h = inbox[1]
      /\ \A i \in 1 .. Waiting - 1 : inbox'[i] = inbox[i + 1]
  <2>1. /\ Len(Tail(inbox)) = Len(inbox) - 1
        /\ \A i \in 1 .. Len(Tail(inbox)) : Tail(inbox)[i] = inbox[i + 1]
    BY <1>1, <1>2, HeadTailProperties
  <2>2. Waiting \in Nat \ {0}
    BY <1>1, <1>2, EmptySeq DEF Waiting
  <2> QED
    BY <1>1, <2>1, <2>2 DEF Waiting
<1>4. Reply(packet') + Reply(begun') <= Reply(begun) + Reply(h)
      /\ Reply(packet') \in {0, 2} /\ Reply(begun') \in {0, 2} /\ Reply(h) \in {0, 2}
  <2>1. \A p : Reply(p) \in {0, 2}
    BY DEF Reply
  <2>2. \A p, v : Reply(PacketOf(p.op, v)) = Reply(p)
    BY DEF Reply, PacketOf
  <2> HIDE DEF h
  <2>3. \/ packet' = NoPacket /\ begun' \in {NoPacket, begun}
        \/ packet' = NoPacket /\ begun' = PacketOf(h.op, h.value)
        \/ packet' = h /\ begun' = NoPacket
        \/ packet' \in {begun, PacketOf(begun.op, StartByte)} /\ begun' = NoPacket
    BY ReadFrameSteps DEF h
  <2>4. CASE packet' = NoPacket /\ begun' \in {NoPacket, begun}
    BY <1>2, <2>1, <2>4
  <2>5. CASE packet' = NoPacket /\ begun' = PacketOf(h.op, h.value)
    <3>1. Reply(begun') = Reply(h)
      BY <2>2, <2>5
    <3> QED
      BY <1>2, <2>1, <2>5, <3>1
  <2>6. CASE packet' = h /\ begun' = NoPacket
    BY <1>2, <2>1, <2>6
  <2>7. CASE packet' \in {begun, PacketOf(begun.op, StartByte)} /\ begun' = NoPacket
    <3>1. Reply(packet') = Reply(begun)
      BY <2>2, <2>7
    <3> QED
      BY <1>2, <2>1, <2>7, <3>1
  <2> QED
    BY <2>3, <2>4, <2>5, <2>6, <2>7
<1>5. Due' \in Nat /\ Due' <= Due + Reply(h)
  <2>1. StreamLen' = StreamLen
    BY <1>1 DEF StreamLen, Queued, OnLine
  <2>2. Due' = StreamLen + Reply(packet') + Reply(begun')
    BY <2>1 DEF Due, Reply
  <2> HIDE DEF h
  <2>3. Due = StreamLen + Reply(begun)
    BY <1>1, <1>2
  <2> QED
    BY <1>2, <1>4, <2>2, <2>3
<1> HIDE DEF h
<1>6. PICK k \in 0 .. Waiting : BoundedBy(k)
  BY DEF Bounded
<1>7. Capacity' = Capacity /\ (Awaiting => Awaiting')
  BY DEF Capacity, Awaiting
<1>8. Due' \in Nat /\ Due \in Nat /\ Due' <= Due + 2 /\ Capacity' = Capacity /\ Capacity \in Nat
  BY <1>2, <1>4, <1>5, <1>7
<1>9. ASSUME NEW j \in Nat, NEW n \in Int, n <= Waiting, Quiet(j + 1, n)
      PROVE  \A i \in j + 1 .. n - 1 : inbox'[i].op \notin Request
  <2> TAKE i \in j + 1 .. n - 1
  <2>1. i + 1 \in (j + 1) + 1 .. n /\ i \in 1 .. Waiting - 1
    BY <1>2, <1>9
  <2> QED
    BY <1>3, <1>9, <2>1 DEF Quiet
<1>10. CASE k >= 1
  <2> DEFINE j == k - 1
  <2>1. j \in Nat /\ k \in Nat /\ k = j + 1 /\ j \in 0 .. Waiting'
    BY <1>2, <1>3, <1>6, <1>10
  <2> HIDE DEF j
  <2>2. Quiet(k, Waiting) => Quiet(j, Waiting)'
    BY <1>2, <1>3, <1>9, <2>1 DEF Quiet
  <2>3. Quiet(k, Waiting - 1) => Quiet(j, Waiting - 1)'
    BY <1>2, <1>3, <1>9, <2>1 DEF Quiet
  <2>4. /\ Due + 2 * k <= Capacity => Due' + 2 * j <= Capacity
        /\ Due + 2 * k <= Capacity + 2 => Due' + 2 * j <= Capacity + 2
    BY <1>8, <2>1, LoadArithmetic
  <2>5. BoundedBy(j)'
    BY <1>6, <1>7, <2>2, <2>3, <2>4 DEF BoundedBy
  <2> QED
    BY <2>1, <2>5 DEF Bounded
<1>11. CASE k = 0 /\ h.op \notin Request
  <2>1. Due' <= Due
    BY <1>2, <1>5, <1>11 DEF Reply
  <2>2. ASSUME NEW n \in Int, n <= Waiting, Quiet(0, n)
        PROVE  \A i \in 0 + 1 .. n - 1 : inbox'[i].op \notin Request
    <3>1. Quiet(0 + 1, n)
      BY <2>2 DEF Quiet
    <3> QED
      BY <1>9, <2>2, <3>1
  <2>3. Quiet(0, Waiting) => Quiet(0, Waiting)'
    BY <1>2, <1>3, <2>2 DEF Quiet
  <2>4. Quiet(0, Waiting - 1) => Quiet(0, Waiting - 1)'
    BY <1>2, <1>3, <2>2 DEF Quiet
  <2>5. /\ Due + 2 * 0 <= Capacity => Due' + 2 * 0 <= Capacity
        /\ Due + 2 * 0 <= Capacity + 2 => Due' + 2 * 0 <= Capacity + 2
    BY <1>8, <2>1, LoadArithmetic
  <2>6. BoundedBy(0)'
    BY <1>6, <1>7, <1>11, <2>3, <2>4, <2>5 DEF BoundedBy
  <2> QED
    BY <1>2, <1>3, <2>6 DEF Bounded
<1>12. CASE k = 0 /\ h.op \in Request
  <2>1. Reply(h) = 2
    BY <1>12 DEF Reply
  <2>2. ~Quiet(0, Waiting)
    <3>1. 1 \in 0 + 1 .. Waiting
      BY <1>2, <1>3
    <3> QED
      BY <1>3, <1>12, <3>1 DEF Quiet
  <2>3. Awaiting /\ Quiet(0, Waiting - 1) /\ Due + 2 * 0 <= Capacity
    BY <1>6, <1>12, <2>2 DEF BoundedBy
  <2>4. Waiting' = 0
    <3>1. 1 \notin 0 + 1 .. Waiting - 1
      BY <1>3, <1>12, <2>3 DEF Quiet
    <3> QED
      BY <1>2, <1>3, <3>1
  <2>5. Quiet(0, Waiting)'
    BY <2>4 DEF Quiet
  <2>6. Due' + 2 * 0 <= Capacity + 2
    BY <1>8, <2>3, LoadArithmetic
  <2>7. BoundedBy(0)'
    BY <1>7, <2>3, <2>5, <2>6 DEF BoundedBy
  <2> QED
    BY <2>4, <2>7 DEF Bounded
<1>13. k >= 1 \/ k = 0
  BY <1>2, <1>6
<1> QED
  BY <1>10, <1>11, <1>12, <1>13

LEMMA BoundFirmware ==
  ASSUME TypeInv, Bounded, FirmwareStep, UNCHANGED piVars
  PROVE  Bounded'
<1>1. pc' = pc
  BY DEF piVars
<1>2. /\ StreamLen \in Nat /\ Reply(packet) \in {0, 2} /\ Reply(begun) \in {0, 2}
      /\ Reply(NoPacket) = 0
      /\ Due \in Nat /\ Due = StreamLen + Reply(packet) + Reply(begun)
  BY StreamTypes, BoundTypes
<1>3. CASE ReadState \/ BeginFrame
  <2>1. UNCHANGED <<begun, packet, inbox, line, rxq>>
    BY <1>3 DEF ReadState, BeginFrame
  <2>2. Due' = Due
    BY <2>1 DEF Due, StreamLen, Queued, OnLine, Reply
  <2>3. Due' \in Nat /\ Due' <= Due
    BY <1>2, <2>2
  <2> QED
    BY <1>1, <2>1, <2>3, BoundKept
<1>4. CASE ReadFrame
  BY <1>1, <1>4, BoundReading
<1>5. CASE Handler
  <2>1. /\ fwPc = "handle" /\ packet' = NoPacket
        /\ UNCHANGED <<begun, inbox, rxq>>
        /\ Answers
    BY <1>5, HandlerSteps
  <2>2. OnLine = 0 /\ StreamLen = Queued /\ Queued \in Nat
    <3>1. line = <<>>
      BY <2>1 DEF TypeInv
    <3>2. OnLine = 0 /\ Queued \in Nat
      BY <3>1, EmptySeq, StreamTypes DEF OnLine
    <3> QED
      BY <3>2 DEF StreamLen
  <2>3. OnLine' \in {0, 2} /\ OnLine' <= Reply(packet)
    <3>1. CASE line' = <<>>
      BY <1>2, <3>1, EmptySeq DEF OnLine
    <3>2. ASSUME NEW a, NEW b, line' = <<a, b>>, packet.op \in Request
          PROVE  OnLine' = 2 /\ Reply(packet) = 2
      BY <3>2 DEF OnLine, Reply
    <3>3. line' = <<>> \/ (packet.op \in Request /\ \E a, b : line' = <<a, b>>)
      BY <2>1 DEF Answers
    <3> QED
      BY <3>1, <3>2, <3>3
  <2>4. Due' = Queued + OnLine' + Reply(begun)
    <3>1. Queued' = Queued /\ Reply(begun') = Reply(begun) /\ Reply(packet') = 0
      BY <1>2, <2>1 DEF Queued
    <3>2. Due' = (Queued' + OnLine') + Reply(packet') + Reply(begun')
      BY DEF Due, StreamLen, Reply
    <3> QED
      BY <1>2, <2>2, <2>3, <3>1, <3>2
  <2>5. Due' \in Nat /\ Due' <= Due
    BY <1>2, <2>2, <2>3, <2>4
  <2> QED
    BY <1>1, <2>1, <2>5, BoundKept
<1>6. CASE Arrive
  <2>1. StreamLen' = StreamLen
    BY <1>6, RepliesArrive
  <2>2. UNCHANGED <<begun, packet, inbox>>
    BY <1>6 DEF Arrive, loopVars
  <2>3. Due' = Due
    BY <2>1, <2>2 DEF Due, Reply
  <2>4. Due' \in Nat /\ Due' <= Due
    BY <1>2, <2>3
  <2> QED
    BY <1>1, <2>2, <2>4, BoundKept
<1> QED
  BY <1>3, <1>4, <1>5, <1>6 DEF FirmwareStep

(***************************************************************************)
(* The variables stay in their types; no more replies than TypeOK allows   *)
(* gather in the receive queue.                                            *)
(***************************************************************************)
THEOREM TypeCorrect == Spec => []TypeOK
<1>1. Init => TypeInv /\ Replies /\ Bounded
  <2> SUFFICES ASSUME Init
               PROVE  TypeInv /\ Replies /\ Bounded
    OBVIOUS
  <2>1. TypeInv /\ Replies
    BY LinkInit
  <2>2. inbox = <<>> /\ line = <<>> /\ rxq = <<>> /\ packet = NoPacket /\ begun = NoPacket
    BY DEF Init, FirmwareInit
  <2>3. Waiting = 0 /\ Due = 0
    <3>1. Waiting = 0 /\ Queued = 0 /\ OnLine = 0
      BY <2>2, EmptySeq DEF Waiting, Queued, OnLine
    <3>2. Reply(packet) = 0 /\ Reply(begun) = 0
      BY <2>1, <2>2, BoundTypes
    <3> QED
      BY <3>1, <3>2 DEF Due, StreamLen
  <2>4. Capacity \in Nat
    BY <2>1, BoundTypes
  <2>5. BoundedBy(0)
    BY <2>3, <2>4 DEF BoundedBy, Quiet
  <2> QED
    BY <2>1, <2>3, <2>5 DEF Bounded
<1>2. TypeInv /\ Replies /\ Bounded /\ [Next]_vars => (TypeInv /\ Replies /\ Bounded)'
  <2> SUFFICES ASSUME TypeInv, Replies, Bounded, [Next]_vars
               PROVE  TypeInv' /\ Replies' /\ Bounded'
    OBVIOUS
  <2>1. TypeInv' /\ Replies'
    BY LinkStep
  <2>2. CASE UNCHANGED vars
    <3>1. UNCHANGED <<begun, packet, inbox, line, rxq, pc>>
      BY <2>2 DEF vars, fwVars, piVars, loopVars
    <3>2. Due' = Due
      BY <3>1 DEF Due, StreamLen, Queued, OnLine, Reply
    <3>3. Due' \in Nat /\ Due' <= Due
      BY <3>2, BoundTypes
    <3> QED
      BY <2>1, <3>1, <3>3, BoundKept
  <2> QED
    BY <2>1, <2>2, StepKinds, BoundSending, BoundListening, BoundFirmware
<1>3. TypeInv /\ Replies /\ Bounded => TypeOK
  <2> SUFFICES ASSUME TypeInv, Bounded
               PROVE  TypeOK
    OBVIOUS
  <2>1. Queued <= 2 * (InboxSize + 2)
    <3>1. PICK k \in 0 .. Waiting : BoundedBy(k)
      BY DEF Bounded
    <3>2. Due + 2 * k <= Capacity + 2
      <4>1. Due + 2 * k <= Capacity \/ Due + 2 * k <= Capacity + 2
        BY <3>1 DEF BoundedBy
      <4> QED
        BY <3>1, <4>1, BoundTypes
    <3>3. Queued \in Nat /\ StreamLen \in Nat /\ OnLine \in 0 .. 2 /\ StreamLen = Queued + OnLine
      BY StreamTypes DEF StreamLen
    <3>4. Queued <= Due
      BY <3>3, BoundTypes
    <3> QED
      BY <3>1, <3>2, <3>3, <3>4, BoundTypes
  <2>2. Len(rxq) <= 2 * (InboxSize + 2)
    BY <2>1 DEF Queued
  <2>3. startSeen \in BOOLEAN /\ acknowledged \in BOOLEAN
    BY Zenon DEF TypeInv
  <2> QED
    BY <2>2, <2>3 DEF TypeInv, TypeOK
<1> QED
  BY <1>1, <1>2, <1>3, PTL DEF Spec

-----------------------------------------------------------------------------
(***************************************************************************)
(* The lift hill before the checkout.  Replies that come whole are read    *)
(* whole, so that the only modes the controller learns of are the ones     *)
(* reported; a packet is truncated only when the controller ends.          *)
(***************************************************************************)
Checkout == Together /\ ~Lossy /\ CONTROL_DC_2 \in Followed

ReadWhole == ~Odd(Queued) /\ OnLine # 1

CutOnExit ==
  /\ \A i \in 1 .. Waiting : inbox[i].cut => Exits
  /\ begun # NoPacket => Exits

Off(p) == p.op = CONTROL_DC_2 => p.value = OFF

HillOff == out[CONTROL_DC_2] = OFF \/ (Exits /\ out[CONTROL_DC_2] = StartByte)

NothingStarts ==
  /\ returnToSafe = 1
  /\ fwPc # "start" => fwState = RETURN_TO_SAFE
  /\ reported \subseteq {RETURN_TO_SAFE}
  /\ mode \in {STOP, RETURN_TO_SAFE}
  /\ \A i \in 1 .. Waiting : Off(inbox[i])
  /\ Off(begun)
  /\ Off(packet) \/ (Exits /\ packet.value = StartByte)
  /\ HillOff

CheckoutInv == ReadWhole /\ CutOnExit /\ (~acknowledged => NothingStarts)

LEMMA NothingStartsKept ==
  ASSUME NothingStarts,
         UNCHANGED <<returnToSafe, fwPc, fwState, mode, inbox, begun, packet, out>>,
         reported' \subseteq reported
  PROVE  NothingStarts'
BY DEF NothingStarts, HillOff, Off, Waiting

LEMMA ReadWholeKept ==
  ASSUME ReadWhole, UNCHANGED <<line, rxq>>
  PROVE  ReadWhole'
BY DEF ReadWhole, Odd, Queued, OnLine

LEMMA CheckoutSending ==
  ASSUME Checkout, TypeInv, CheckoutInv, ControllerSends
  PROVE  CheckoutInv'
<1>1. /\ inbox' = inbox \/ \E p : Queues(p)
      /\ UNCHANGED <<latches, loopVars, line, rxq, out, fwObservers>>
      /\ UNCHANGED mode
  BY SendingSteps
<1>2. /\ UNCHANGED <<returnToSafe, fwPc, fwState, begun, packet, out, reported, mode>>
      /\ UNCHANGED <<line, rxq>>
  BY <1>1 DEF latches, loopVars, fwObservers
<1>3. ReadWhole'
  BY <1>2, ReadWholeKept DEF CheckoutInv
<1>4. acknowledged' = acknowledged
  BY <1>1 DEF fwObservers
<1>5. inbox \in Seq(Packets) /\ Waiting \in Nat
  BY BoundTypes
<1>6. CASE inbox' = inbox
  <2>1. CutOnExit'
    BY <1>2, <1>6 DEF CheckoutInv, CutOnExit, Waiting
  <2>2. ~acknowledged' => NothingStarts'
    BY <1>2, <1>4, <1>6, NothingStartsKept DEF CheckoutInv
  <2> QED
    BY <1>3, <2>1, <2>2 DEF CheckoutInv
<1>7. ASSUME NEW p, Queues(p), inbox' # inbox
      PROVE  CheckoutInv'
  <2>1. /\ p \in Packets /\ inbox' = Append(inbox, p)
        /\ p.op = CONTROL_DC_2 /\ mode \in {STOP, RETURN_TO_SAFE} => p.value = OFF
        /\ p.cut => Exits
    BY <1>7 DEF Queues, Checkout
  <2>2. /\ Waiting' = Waiting + 1
        /\ \A i \in 1 .. Waiting : inbox'[i] = inbox[i]
        /\ inbox'[Waiting + 1] = p
    <3>1. /\ Len(Append(inbox, p)) = Len(inbox) + 1
          /\ \A i \in 1 .. Len(inbox) : Append(inbox, p)[i] = inbox[i]
          /\ Append(inbox, p)[Len(inbox) + 1] = p
      BY <1>5, <2>1, AppendProperties
    <3> QED
      BY <2>1, <3>1 DEF Waiting
  <2>3. ASSUME NEW i \in 1 .. Waiting'
        PROVE  inbox'[i] = p \/ \E j \in 1 .. Waiting : inbox'[i] = inbox[j]
    <3>1. i \in 1 .. Waiting \/ i = Waiting + 1
      BY <1>5, <2>2
    <3> QED
      BY <2>2, <3>1
  <2>4. CutOnExit'
    <3>1. CutOnExit
      BY DEF CheckoutInv
    <3>2. \A i \in 1 .. Waiting' : inbox'[i].cut => Exits
      BY <2>1, <2>3, <3>1, Zenon DEF CutOnExit
    <3> QED
      BY <1>2, <3>1, <3>2 DEF CutOnExit
  <2>5. ~acknowledged' => NothingStarts'
    <3>1. ASSUME NothingStarts
          PROVE  NothingStarts'
      <4>1. \A i \in 1 .. Waiting' : Off(inbox'[i])
        BY <2>1, <2>3, <3>1 DEF NothingStarts, Off
      <4> QED
        BY <1>2, <3>1, <4>1 DEF NothingStarts, HillOff, Off
    <3> QED
      BY <1>4, <3>1 DEF CheckoutInv
  <2> QED
    BY <1>3, <2>4, <2>5 DEF CheckoutInv
<1> QED
  BY <1>1, <1>6, <1>7

LEMMA CheckoutListening ==
  ASSUME Checkout, TypeInv, Replies, CheckoutInv, ControllerListens
  PROVE  CheckoutInv'
<1>1. /\ rxq' = <<>>
      /\ UNCHANGED <<latches, loopVars, inbox, out, acknowledged>>
      /\ \E n \in {0, OnLine} : Loses(n)
  BY ListeningSteps DEF Checkout, OnLine
<1>2. /\ UNCHANGED <<returnToSafe, fwPc, fwState, begun, packet, inbox, out>>
      /\ reported' \subseteq reported
  BY <1>1, ListeningReports DEF latches, loopVars
<1>3. ReadWhole'
  <2>1. OnLine' \in {0, OnLine}
    BY <1>1, StreamTypes DEF Loses, OnLine
  <2>2. Queued' = 0
    BY <1>1, EmptySeq DEF Queued
  <2> QED
    BY <2>1, <2>2 DEF CheckoutInv, ReadWhole, Odd
<1>4. CutOnExit'
  BY <1>2 DEF CheckoutInv, CutOnExit, Waiting
<1>5. mode' \in {mode, STOP} \cup reported
  <2>1. CASE ModeReceived
    <3>1. Queued \in Nat /\ OnLine \in {0, 2} /\ ~Odd(Queued) /\ StreamLen = Queued + OnLine
      BY StreamTypes DEF CheckoutInv, ReadWhole, StreamLen
    <3>2. Queued # 1 /\ ~Odd(StreamLen)
      BY <3>1 DEF Odd
    <3> QED
      BY <2>1, <3>2, ModeHeard, ReadInPart
  <2>2. CASE ModeMissed \/ GoReceived \/ GoMissed \/ Start
    BY <2>2 DEF ModeMissed, GoReceived, GoMissed, Start
  <2> QED
    BY <2>1, <2>2 DEF ControllerListens
<1>6. ASSUME NothingStarts
      PROVE  NothingStarts'
  <2>1. mode' \in {STOP, RETURN_TO_SAFE}
    BY <1>5, <1>6 DEF NothingStarts
  <2> QED
    BY <1>2, <1>6, <2>1 DEF NothingStarts, HillOff, Off, Waiting
<1>7. acknowledged' = acknowledged
  BY <1>1
<1> QED
  BY <1>3, <1>4, <1>6, <1>7 DEF CheckoutInv

LEMMA CheckoutReading ==
  ASSUME Checkout, TypeInv, CheckoutInv, ReadFrame, UNCHANGED piVars
  PROVE  CheckoutInv'
<1> DEFINE h == Head(inbox)
<1>1. /\ fwPc = "frame" /\ inbox # <<>> /\ inbox' = Tail(inbox)
      /\ UNCHANGED <<latches, fwState, line, rxq, out, fwObservers>>
      /\ \/ packet' = NoPacket /\ begun' \in {NoPacket, begun}
         \/ packet' = NoPacket /\ h.cut /\ begun' = PacketOf(h.op, h.value)
         \/ begun' = NoPacket /\ packet' = h
         \/ begun' = NoPacket /\ begun # NoPacket
            /\ packet' \in {begun, PacketOf(begun.op, StartByte)}
  BY ReadFrameSteps
<1>2. /\ UNCHANGED <<returnToSafe, fwState, out, reported, mode>>
      /\ UNCHANGED <<line, rxq>> /\ acknowledged' = acknowledged
  BY <1>1 DEF latches, fwObservers, piVars
<1>3. ReadWhole'
  BY <1>2, ReadWholeKept DEF CheckoutInv
<1>4. /\ Waiting \in Nat /\ Waiting >= 1 /\ Waiting' = Waiting - 1
      /\ h = inbox[1]
      /\ \A i \in 1 .. Waiting - 1 : inbox'[i] = inbox[i + 1]
  <2>1. inbox \in Seq(Packets)
    BY BoundTypes
  <2>2. /\ Len(Tail(inbox)) = Len(inbox) - 1
        /\ \A i \in 1 .. Len(Tail(inbox)) : Tail(inbox)[i] = inbox[i + 1]
    BY <1>1, <2>1, HeadTailProperties
  <2>3. Waiting \in Nat \ {0}
    BY <1>1, <2>1, EmptySeq DEF Waiting
  <2> QED
    BY <1>1, <2>2, <2>3 DEF Waiting
<1> HIDE DEF h
<1>5. ASSUME NEW i \in 1 .. Waiting'
      PROVE  \E j \in 1 .. Waiting : inbox'[i] = inbox[j]
  <2>1. i + 1 \in 1 .. Waiting /\ i \in 1 .. Waiting - 1
    BY <1>4
  <2> QED
    BY <1>4, <2>1
<1>6. 1 \in 1 .. Waiting
  BY <1>4
<1>7. CutOnExit'
  <2>1. CutOnExit
    BY DEF CheckoutInv
  <2>2. \A i \in 1 .. Waiting' : inbox'[i].cut => Exits
    BY <1>5, <2>1, Zenon DEF CutOnExit
  <2>3. h.cut => Exits
    BY <1>4, <1>6, <2>1, Zenon DEF CutOnExit
  <2>4. begun' # NoPacket => Exits
    BY <1>1, <2>1, <2>3 DEF CutOnExit
  <2> QED
    BY <2>2, <2>4 DEF CutOnExit
<1>8. ASSUME NothingStarts
      PROVE  NothingStarts'
  <2>1. \A i \in 1 .. Waiting' : Off(inbox'[i])
    BY <1>5, <1>8 DEF NothingStarts
  <2>2. Off(h) /\ Off(begun) /\ Off(NoPacket)
    <3>1. Off(h) /\ Off(begun)
      BY <1>4, <1>6, <1>8 DEF NothingStarts
    <3>2. Off(NoPacket)
      BY NoPacketType DEF Off, CONTROL_DC_2
    <3> QED
      BY <3>1, <3>2
  <2>3. Off(begun')
    <3>1. Off(PacketOf(h.op, h.value))
      BY <2>2 DEF Off, PacketOf, OFF
    <3> QED
      BY <1>1, <2>2, <3>1
  <2>4. Off(packet') \/ (Exits /\ packet'.value = StartByte)
    <3>1. CASE packet' \in {NoPacket, h, begun}
      BY <2>2, <3>1
    <3>2. CASE begun # NoPacket /\ packet' = PacketOf(begun.op, StartByte)
      <4>1. Exits
        BY <3>2 DEF CheckoutInv, CutOnExit
      <4>2. packet'.op = CONTROL_DC_2 => packet'.value = StartByte
        BY <3>2 DEF PacketOf, Checkout
      <4> QED
        BY <4>1, <4>2 DEF Off
    <3> QED
      BY <1>1, <3>1, <3>2
  <2> QED
    BY <1>1, <1>2, <1>8, <2>1, <2>3, <2>4 DEF NothingStarts, HillOff, Off
<1> QED
  BY <1>2, <1>3, <1>7, <1>8 DEF CheckoutInv

\* Until the checkout is acknowledged the handler is getSafe.
LEMMA CheckoutHandling ==
  ASSUME Checkout, TypeInv, CheckoutInv, Handler, UNCHANGED piVars
  PROVE  CheckoutInv'
<1>1. /\ fwPc = "handle" /\ fwPc' = "start" /\ packet' = NoPacket
      /\ UNCHANGED <<fwState, begun, inbox, rxq>>
      /\ reported' \subseteq reported \cup {fwState}
      /\ Answers
  BY HandlerSteps
<1>2. UNCHANGED mode
  BY DEF piVars
<1>3. ReadWhole'
  <2>1. OnLine' # 1
    <3>1. CASE line' = <<>>
      BY <3>1, EmptySeq DEF OnLine
    <3>2. ASSUME NEW a, NEW b, line' = <<a, b>>
          PROVE  OnLine' # 1
      BY <3>2 DEF OnLine
    <3>3. line' = <<>> \/ \E a, b : line' = <<a, b>>
      BY <1>1 DEF Answers
    <3> QED
      BY <3>1, <3>2, <3>3
  <2>2. Queued' = Queued
    BY <1>1 DEF Queued
  <2> QED
    BY <2>1, <2>2 DEF CheckoutInv, ReadWhole, Odd
<1>4. CutOnExit'
  BY <1>1 DEF CheckoutInv, CutOnExit, Waiting
<1>5. acknowledged => acknowledged'
  <2>1. \/ acknowledged' = acknowledged
        \/ \E i, a \in BOOLEAN : acknowledged' = (acknowledged \/ (i /\ a))
    BY Zenon DEF Handler, Automatic, ManualCommand, ManualCanSend, Maintenance, GetSafe, Stopped
  <2> QED
    BY <2>1, Zenon
<1>6. ASSUME ~acknowledged', NothingStarts
      PROVE  NothingStarts'
  <2>1. fwState = RETURN_TO_SAFE
    BY <1>1, <1>6 DEF NothingStarts
  <2>2. GetSafe
    <3>1. RETURN_TO_SAFE \notin {AUTOMATIC, MANUAL, MAINTENANCE, STOP}
      BY DEF RETURN_TO_SAFE, AUTOMATIC, MANUAL, MAINTENANCE, STOP
    <3>2. ~Automatic /\ ~ManualCommand /\ ~ManualCanSend /\ ~Maintenance /\ ~Stopped
      BY <2>1, <3>1 DEF Automatic, ManualCommand, ManualCanSend, Maintenance, Stopped, Handle
    <3> QED
      BY <3>2 DEF Handler
  <2>3. returnToSafe' = 1
    <3>1. PICK ignition, acknowledge \in BOOLEAN :
            /\ returnToSafe' = IF ignition /\ acknowledge THEN 0 ELSE returnToSafe
            /\ acknowledged' = (acknowledged \/ (ignition /\ acknowledge))
      BY <2>2, Zenon DEF GetSafe
    <3>2. ~(ignition /\ acknowledge)
      BY <1>6, <3>1, Zenon
    <3> QED
      BY <1>6, <3>1, <3>2 DEF NothingStarts
  <2>4. HillOff'
    <3>1. out' = Commanded
      BY <2>2 DEF GetSafe
    <3>2. out \in [Followed -> 0 .. 255] /\ CONTROL_DC_2 \in Followed
      BY DEF TypeInv, Checkout
    <3>3. CASE packet.op = CONTROL_DC_2
      <4>1. out'[CONTROL_DC_2] = packet.value
        BY <3>1, <3>2, <3>3 DEF Commanded
      <4>2. packet.value = OFF \/ (Exits /\ packet.value = StartByte)
        BY <1>6, <3>3 DEF NothingStarts, Off
      <4> QED
        BY <4>1, <4>2, Zenon DEF HillOff
    <3>4. CASE packet.op # CONTROL_DC_2
      <4>1. out'[CONTROL_DC_2] = out[CONTROL_DC_2]
        BY <3>1, <3>2, <3>4 DEF Commanded
      <4> QED
        BY <1>6, <4>1 DEF NothingStarts, HillOff
    <3> QED
      BY <3>3, <3>4
  <2>5. Off(packet')
    BY <1>1, NoPacketType DEF Off, CONTROL_DC_2
  <2>6. reported' \subseteq {RETURN_TO_SAFE}
    BY <1>1, <1>6, <2>1 DEF NothingStarts
  <2>7. /\ \A i \in 1 .. Waiting' : Off(inbox'[i])
        /\ Off(begun') /\ mode' \in {STOP, RETURN_TO_SAFE}
    BY <1>1, <1>2, <1>6 DEF NothingStarts, Off, Waiting
  <2> QED
    BY <1>1, <2>3, <2>4, <2>5, <2>6, <2>7 DEF NothingStarts, Off
<1>7. ~acknowledged' => NothingStarts'
  <2>1. CASE ~acknowledged'
    <3>1. NothingStarts
      BY <1>5, <2>1, Zenon DEF CheckoutInv
    <3> QED
      BY <1>6, <2>1, <3>1
  <2> QED
    BY <2>1
<1> QED
  BY <1>3, <1>4, <1>7 DEF CheckoutInv

LEMMA CheckoutFirmware ==
  ASSUME Checkout, TypeInv, CheckoutInv, FirmwareStep, UNCHANGED piVars
  PROVE  CheckoutInv'
<1>1. UNCHANGED mode
  BY DEF piVars
<1>2. CASE ReadState
  <2>1. /\ returnToSafe = 1 => returnToSafe' = 1 /\ fwState' = RETURN_TO_SAFE
        /\ UNCHANGED <<begun, packet, inbox, line, rxq, out, fwObservers>>
    BY <1>2, ReadStateSteps
  <2>2. /\ UNCHANGED <<begun, packet, inbox, out, reported>>
        /\ UNCHANGED <<line, rxq>> /\ acknowledged' = acknowledged
    BY <2>1 DEF fwObservers
  <2>3. ReadWhole'
    BY <2>2, ReadWholeKept DEF CheckoutInv
  <2>4. CutOnExit'
    BY <2>2 DEF CheckoutInv, CutOnExit, Waiting
  <2>5. NothingStarts => NothingStarts'
    BY <1>1, <2>1, <2>2 DEF NothingStarts, HillOff, Off, Waiting
  <2> QED
    BY <2>2, <2>3, <2>4, <2>5 DEF CheckoutInv
<1>3. CASE BeginFrame
  <2>1. /\ fwPc = "receive"
        /\ UNCHANGED <<latches, fwState, begun, packet, inbox, line, rxq, out, fwObservers>>
    BY <1>3 DEF BeginFrame
  <2>2. /\ UNCHANGED <<returnToSafe, fwState, begun, packet, inbox, out, reported>>
        /\ UNCHANGED <<line, rxq>> /\ acknowledged' = acknowledged
    BY <2>1 DEF fwObservers, latches
  <2>3. ReadWhole'
    BY <2>2, ReadWholeKept DEF CheckoutInv
  <2>4. CutOnExit'
    BY <2>2 DEF CheckoutInv, CutOnExit, Waiting
  <2>5. NothingStarts => NothingStarts'
    BY <1>1, <2>1, <2>2 DEF NothingStarts, HillOff, Off, Waiting
  <2> QED
    BY <2>2, <2>3, <2>4, <2>5 DEF CheckoutInv
<1>4. CASE ReadFrame
  BY <1>4, CheckoutReading
<1>5. CASE Handler
  BY <1>5, CheckoutHandling
<1>6. CASE Arrive
  <2>1. UNCHANGED <<latches, loopVars, inbox, out, fwObservers>>
    BY <1>6 DEF Arrive
  <2>2. /\ UNCHANGED <<returnToSafe, fwPc, fwState, begun, packet, inbox, out, reported>>
        /\ acknowledged' = acknowledged
    BY <2>1 DEF fwObservers, latches, loopVars
  <2>3. ReadWhole'
    <3>1. line' = SubSeq(line, OnLine + 1, OnLine) /\ OnLine \in Nat
      BY <1>6, StreamTypes DEF Arrive, Checkout, OnLine
    <3>2. line' = <<>>
      BY <3>1, SubSeqEmpty
    <3>3. OnLine' = 0
      BY <3>2, EmptySeq DEF OnLine
    <3>4. StreamLen' = StreamLen /\ rxq' \in Seq(ReplyByte)
      BY <1>6, RepliesArrive
    <3>5. Queued' \in Nat
      BY <3>4, LenProperties DEF Queued
    <3>6. Queued' = Queued + OnLine
      BY <3>3, <3>4, <3>5 DEF StreamLen
    <3>7. Queued \in Nat /\ OnLine \in {0, 2} /\ ~Odd(Queued)
      BY StreamTypes DEF CheckoutInv, ReadWhole
    <3> QED
      BY <3>3, <3>6, <3>7 DEF ReadWhole, Odd
  <2>4. CutOnExit'
    BY <2>2 DEF CheckoutInv, CutOnExit, Waiting
  <2>5. NothingStarts => NothingStarts'
    BY <1>1, <2>2, NothingStartsKept
  <2> QED
    BY <2>2, <2>3, <2>4, <2>5 DEF CheckoutInv
<1> QED
  BY <1>2, <1>3, <1>4, <1>5, <1>6 DEF FirmwareStep

(***************************************************************************)
(* From power-up until the operator acknowledges the checkout the motor of *)
(* the lift hill is off, or has taken a start byte for its power after the *)
(* controller ended in a packet.  The two bytes of a reply come together,  *)
(* and packets are whole but for those exits.                              *)
(***************************************************************************)
THEOREM HillWaitsForCheckout ==
  ASSUME Checkout
  PROVE  Spec => []HillOffUntilCheckout
<1>1. Init => TypeInv /\ Replies /\ CheckoutInv
  <2> SUFFICES ASSUME Init
               PROVE  TypeInv /\ Replies /\ CheckoutInv
    OBVIOUS
  <2>1. TypeInv /\ Replies
    BY LinkInit
  <2>2. /\ inbox = <<>> /\ line = <<>> /\ rxq = <<>> /\ packet = NoPacket /\ begun = NoPacket
        /\ returnToSafe = 1 /\ fwPc = "start" /\ reported = {} /\ mode = STOP
    BY DEF Init, FirmwareInit
  <2>3. Waiting = 0 /\ OnLine = 0 /\ Queued = 0
    BY <2>2, EmptySeq DEF Waiting, OnLine, Queued
  <2>4. ReadWhole
    BY <2>3 DEF ReadWhole, Odd
  <2>5. CutOnExit
    BY <2>2, <2>3 DEF CutOnExit
  <2>6. Off(NoPacket)
    BY NoPacketType DEF Off, CONTROL_DC_2
  <2>7. HillOff
    <3>1. out[CONTROL_DC_2] = OFF
      BY DEF Init, FirmwareInit, Checkout, CONTROL_DC_2, CONTROL_SERVO_1, CONTROL_SERVO_2
    <3> QED
      BY <3>1, Zenon DEF HillOff
  <2>8. NothingStarts
    BY <2>2, <2>3, <2>6, <2>7 DEF NothingStarts
  <2> QED
    BY <2>1, <2>4, <2>5, <2>8 DEF CheckoutInv
<1>2. TypeInv /\ Replies /\ CheckoutInv /\ [Next]_vars => (TypeInv /\ Replies /\ CheckoutInv)'
  <2> SUFFICES ASSUME TypeInv, Replies, CheckoutInv, [Next]_vars
               PROVE  TypeInv' /\ Replies' /\ CheckoutInv'
    OBVIOUS
  <2>1. TypeInv' /\ Replies'
    BY LinkStep
  <2>2. CASE UNCHANGED vars
    <3>1. UNCHANGED <<returnToSafe, fwPc, fwState, mode, inbox, begun, packet, out, reported,
                      line, rxq, acknowledged>>
      BY <2>2 DEF vars, fwVars, piVars, latches, loopVars, fwObservers
    <3>2. ReadWhole'
      BY <3>1, ReadWholeKept DEF CheckoutInv
    <3>3. CutOnExit'
      BY <3>1 DEF CheckoutInv, CutOnExit, Waiting
    <3>4. NothingStarts => NothingStarts'
      BY <3>1, NothingStartsKept
    <3> QED
      BY <2>1, <3>1, <3>2, <3>3, <3>4 DEF CheckoutInv
  <2> QED
    BY <2>1, <2>2, StepKinds, CheckoutSending, CheckoutListening, CheckoutFirmware
<1>3. CheckoutInv => HillOffUntilCheckout
  BY DEF CheckoutInv, NothingStarts, HillOff, HillOffUntilCheckout
<1> QED
  BY <1>1, <1>2, <1>3, PTL DEF Spec
=============================================================================
