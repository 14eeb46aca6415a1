------------------------------ MODULE Firmware ------------------------------
(***************************************************************************)
(* The loop of the AtMega firmware: read the panel, receive a packet,      *)
(* answer a poll, and let the handler of the mode work.  The panel is read *)
(* before the packet, and a packet once begun is waited for, so the        *)
(* handler works on a mode that may be out of date.                        *)
(*                                                                         *)
(* Switches and buttons may change at any time, so they are no variables:  *)
(* whoever reads one may find it in either position.  The lamps are in     *)
(* Lamps.                                                                  *)
(***************************************************************************)
EXTENDS Sequences, Interlock, Messages, Panel

CONSTANTS
  Together, \* the controller's tty gets both bytes of a reply at one time
  Followed  \* the actuators whose outputs the model follows

ASSUME FirmwareAssumption ==
  /\ Together \in BOOLEAN
  /\ Followed \subseteq Actuator

VARIABLES
  returnToSafe, \* 1 until the operator has acknowledged the checkout
  recoverEstop, \* 1 from an emergency stop until its reset
  fwState,      \* the mode the firmware works in ("state")
  fwPc,         \* where it is in its loop
  begun,        \* what a truncated packet has left in msg, or NoPacket
  packet,       \* the packet received in this pass, or NoPacket
  inbox,        \* packets on their way to the firmware
  line,         \* bytes of its reply that are being sent
  rxq,          \* bytes in the receive queue of the controller
  out,          \* power of the motors, position of the servos followed
  reported,     \* modes reported since the controller last received
  startSeen,    \* START was reported pressed since then
  acknowledged  \* the operator has acknowledged a checkout since power-up

latches     == <<returnToSafe, recoverEstop>>
loopVars    == <<fwState, fwPc, begun, packet>>
fwObservers == <<reported, startSeen, acknowledged>>
fwVars == <<latches, loopVars, inbox, line, rxq, out, fwObservers>>

\* cut: the packet lost its end on the way.  The value of a command matters
\* only to an actuator that is followed.
PacketOf(op, value) ==
  [op    |-> op,
   value |-> IF op \in Actuator \ Followed THEN 0 ELSE value,
   cut   |-> FALSE]
NoPacket == PacketOf(-1, 0)

\* The start byte of the next packet, read as a value of the one before.
StartByte == 123

FirmwareInit ==
  /\ returnToSafe = 1
  /\ recoverEstop = 0
  /\ fwState = 0
  /\ fwPc = "start"
  /\ begun = NoPacket
  /\ packet = NoPacket
  /\ inbox = <<>>
  /\ line = <<>>
  /\ rxq = <<>>
  /\ out = [a \in Followed |-> CASE a = CONTROL_SERVO_1 -> PRESTATION_STOP
                               [] a = CONTROL_SERVO_2 -> RIDE_STOP
                               [] OTHER               -> OFF]
  /\ reported = {}
  /\ startSeen = FALSE
  /\ acknowledged = FALSE

-----------------------------------------------------------------------------
\* readState.  The loop gets here when the reply is out (Serial1.flush).
ReadState ==
  /\ fwPc = "start"
  /\ line = <<>>
  /\ \E ignition, estop \in BOOLEAN, selector \in Selector :
       /\ fwState' = ModeOf(returnToSafe, recoverEstop, ignition, estop, selector)
       /\ returnToSafe' = SafeLatch(returnToSafe, recoverEstop, ignition)
       /\ recoverEstop' = EstopLatch(returnToSafe, recoverEstop, ignition, estop)
  /\ fwPc' = "receive"
  /\ UNCHANGED <<begun, packet, inbox, line, rxq, out, fwObservers>>

\* A start byte is waiting, or nothing is.
BeginFrame ==
  /\ fwPc = "receive"
  /\ fwPc' = IF inbox = <<>> THEN "handle" ELSE "frame"
  /\ UNCHANGED <<latches, fwState, begun, packet, inbox, line, rxq,
                 out, fwObservers>>

\* The rest of the frame.  A truncated packet runs into the next one (see
\* SerialFrame): the frame that results has the first one's type, with its
\* value or the next start byte for one, or is too long and dropped.
ReadFrame ==
  /\ fwPc = "frame"
  /\ inbox # <<>>
  /\ inbox' = Tail(inbox)
  /\ LET p == Head(inbox) IN
       CASE p.cut /\ begun = NoPacket ->
              /\ begun' = PacketOf(p.op, p.value)
              /\ UNCHANGED <<fwPc, packet>>
         [] p.cut /\ begun # NoPacket ->
              \/ UNCHANGED <<fwPc, begun, packet>>
              \/ fwPc' = "handle" /\ begun' = NoPacket /\ UNCHANGED packet
         [] ~p.cut /\ begun = NoPacket ->
              /\ packet' = p
              /\ fwPc' = "handle"
              /\ UNCHANGED begun
         [] OTHER ->
              /\ packet' \in {NoPacket, begun, PacketOf(begun.op, StartByte)}
              /\ begun' = NoPacket
              /\ fwPc' = "handle"
  /\ UNCHANGED <<latches, fwState, line, rxq, out, fwObservers>>

-----------------------------------------------------------------------------
\* A poll is answered before the handler of the mode is entered, which then
\* finds no packet.
AnswerPoll ==
  IF packet.op = REQUEST_BUTTON_STATE
    THEN /\ line' = <<SEND_BUTTON_STATE, fwState>>
         /\ reported' = reported \cup {fwState}
    ELSE UNCHANGED <<line, reported>>

Commanded ==
  IF packet.op \in Followed THEN [out EXCEPT ![packet.op] = packet.value] ELSE out

\* Mutant of Handle: newMsg is not reset.
HandleKeepsPacket(m) ==
  /\ fwPc = "handle"
  /\ fwState = m
  /\ fwPc' = "start"
  /\ UNCHANGED <<fwState, begun, packet, inbox, rxq>>

Handle(m) ==
  /\ fwPc = "handle"
  /\ fwState = m
  /\ fwPc' = "start"
  /\ packet' = NoPacket
  /\ UNCHANGED <<fwState, begun, inbox, rxq>>

Automatic ==
  /\ Handle(AUTOMATIC)
  /\ AnswerPoll
  /\ out' = Commanded
  /\ UNCHANGED <<latches, startSeen, acknowledged>>

ManualCommand ==
  /\ Handle(MANUAL)
  /\ packet.op # SEND_CAN_SEND
  /\ AnswerPoll
  /\ out' = Commanded
  /\ UNCHANGED <<latches, startSeen, acknowledged>>

ManualCanSend ==
  /\ Handle(MANUAL)
  /\ packet.op = SEND_CAN_SEND
  /\ \E rideStart \in BOOLEAN :
       LET go == packet.value = 1 /\ rideStart IN
         /\ line' = <<RESPOND_CAN_SEND, IF go THEN 1 ELSE 0>>
         /\ startSeen' = (startSeen \/ go)
  /\ UNCHANGED <<latches, out, reported, acknowledged>>

\* Packets are thrown away and the brakes opened.  RIDE_STOP switches both
\* motors off, LIFT_STOP and LIFT_START the one that is selected.
Maintenance ==
  /\ Handle(MAINTENANCE)
  /\ AnswerPoll
  /\ \E rideStop, liftStop, liftStart \in BOOLEAN,
        selected \in SUBSET {CONTROL_DC_1, CONTROL_DC_2} :
       \* With both switches on the station is the one.
       LET one(a) == a \in selected /\ (a = CONTROL_DC_2 => CONTROL_DC_1 \notin selected)
       IN out' = [a \in Followed |->
            CASE a = CONTROL_SERVO_1 -> PRESTATION_GO
              [] a = CONTROL_SERVO_2 -> RIDE_GO
              [] OTHER -> IF liftStart /\ one(a) THEN 255
                          ELSE IF rideStop \/ (liftStop /\ one(a)) THEN OFF
                          ELSE out[a]]
  /\ UNCHANGED <<latches, startSeen, acknowledged>>

\* With checkout(): acknowledging it counts with the ignition on.
GetSafe ==
  /\ Handle(RETURN_TO_SAFE)
  /\ AnswerPoll
  /\ out' = Commanded
  /\ \E ignition, acknowledge \in BOOLEAN :
       /\ returnToSafe' = IF ignition /\ acknowledge THEN 0 ELSE returnToSafe
       /\ acknowledged' = (acknowledged \/ (ignition /\ acknowledge))
  /\ \E estop \in BOOLEAN : recoverEstop' = IF estop THEN 1 ELSE recoverEstop
  /\ UNCHANGED startSeen

\* Mutant of Stopped: commands are thrown away, as in MAINTENANCE.
StoppedIgnoresCommands ==
  /\ Handle(STOP)
  /\ AnswerPoll
  /\ \E estop, reset \in BOOLEAN :
       recoverEstop' = IF ~estop /\ reset THEN 0 ELSE recoverEstop
  /\ \E ignition \in BOOLEAN :
       returnToSafe' = IF ~ignition THEN 1 ELSE returnToSafe
  /\ UNCHANGED <<out, startSeen, acknowledged>>

\* With emergencyStop(): a reset counts once the stop is released.
Stopped ==
  /\ Handle(STOP)
  /\ AnswerPoll
  /\ out' = Commanded
  /\ \E estop, reset \in BOOLEAN :
       recoverEstop' = IF ~estop /\ reset THEN 0 ELSE recoverEstop
  /\ \E ignition \in BOOLEAN :
       returnToSafe' = IF ~ignition THEN 1 ELSE returnToSafe
  /\ UNCHANGED <<startSeen, acknowledged>>

Handler ==
  \/ Automatic
  \/ ManualCommand
  \/ ManualCanSend
  \/ Maintenance
  \/ GetSafe
  \/ Stopped

\* The reply reaches the controller's receive queue.
Arrive ==
  /\ line # <<>>
  /\ LET n == IF Together THEN Len(line) ELSE 1 IN
       /\ rxq' = rxq \o SubSeq(line, 1, n)
       /\ line' = SubSeq(line, n + 1, Len(line))
  /\ UNCHANGED <<latches, loopVars, inbox, out, fwObservers>>

FirmwareStep ==
  \/ ReadState
  \/ BeginFrame
  \/ ReadFrame
  \/ Handler
  \/ Arrive
=============================================================================
