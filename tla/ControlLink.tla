----------------------------- MODULE ControlLink -----------------------------
(***************************************************************************)
(* The control thread and the firmware on the two ends of the serial line. *)
(* A round polls the mode and commands the four actuators; in MANUAL it    *)
(* may ask for the START button on the way.  The controller waits 50 ms    *)
(* for a reply, takes the first bytes it finds and throws the rest of its  *)
(* receive queue away, so replies come late, are taken for others or get   *)
(* lost.  A write that fails ends the controller in the middle of a packet *)
(* and leaves the actuators as they are, until somebody starts it again.   *)
(*                                                                         *)
(* The track is left out: the zone states are any.                         *)
(***************************************************************************)
EXTENDS Firmware

CONSTANTS
  Lossy,       \* packets to the firmware may be truncated
  LateReplies, \* a reply may take longer than the controller waits
  Exits,       \* a write to the serial device may fail
  InboxSize    \* bound of the model: packets on their way

ASSUME LinkAssumption ==
  /\ Lossy \in BOOLEAN
  /\ LateReplies \in BOOLEAN
  /\ Exits \in BOOLEAN
  /\ InboxSize \in Nat \ {0}

VARIABLES
  pc,         \* the control thread
  mode,       \* "state": the mode it works in
  release_go  \* 1: the operator let the train in the station go

piVars == <<pc, mode, release_go>>
vars == <<fwVars, piVars>>

Init ==
  /\ FirmwareInit
  /\ pc = "poll"
  /\ mode = STOP
  /\ release_go = 0

TypeOK ==
  /\ returnToSafe \in {0, 1} /\ recoverEstop \in {0, 1}
  /\ fwState \in Mode
  /\ fwPc \in {"start", "receive", "frame", "handle"}
  /\ packet # NoPacket => fwPc = "handle"
  /\ begun # NoPacket => fwPc = "frame"
  /\ Len(inbox) <= InboxSize
  /\ Len(line) <= 2
  /\ Len(rxq) <= 2 * (InboxSize + 2)
  /\ out \in [Followed -> 0 .. 255]
  /\ reported \subseteq Mode
  /\ startSeen \in BOOLEAN /\ acknowledged \in BOOLEAN
  /\ pc \in {"poll", "awaitMode", "hill", "station", "awaitGo", "dispatch",
             "preStation", "ride", "down"}
  /\ mode \in Mode \cup {RESPOND_CAN_SEND}
  /\ release_go \in {0, 1}

-----------------------------------------------------------------------------
\* sendPacket.  A truncated packet has lost its end or all of it.
Send(op, value) ==
  /\ Len(inbox) < InboxSize
  /\ LET p == PacketOf(op, value) IN
       \/ inbox' = Append(inbox, p)
       \/ Lossy /\ inbox' = Append(inbox, [p EXCEPT !.cut = TRUE])
       \/ Lossy /\ UNCHANGED inbox
  /\ UNCHANGED <<latches, loopVars, line, rxq, out, fwObservers>>

Command(op, cmd) ==
  IF cmd = NoCommand THEN UNCHANGED fwVars ELSE Send(op, cmd)

\* What the firmware reports from here on, and what a reply says of which
\* no byte has reached the controller yet.
StartListening ==
  /\ reported' = {m \in Mode : line' = <<SEND_BUTTON_STATE, m>>}
  /\ startSeen' = (line' = <<RESPOND_CAN_SEND, 1>>)

\* Mutant of Receive: the receive queue is not flushed.
ReceiveWithoutFlush ==
  /\ rxq # <<>>
  /\ rxq' = SubSeq(rxq, 3, Len(rxq))
  /\ UNCHANGED line
  /\ StartListening
  /\ UNCHANGED <<latches, loopVars, inbox, out, acknowledged>>

\* recvPacket with bytes waiting: up to five are read, and the receive queue
\* is flushed (TCFLSH with 0 is TCIFLUSH), with what has come in since.
Receive ==
  /\ rxq # <<>>
  /\ rxq' = <<>>
  /\ \E n \in IF Together THEN {0, Len(line)} ELSE 0 .. Len(line) :
       line' = SubSeq(line, n + 1, Len(line))
  /\ StartListening
  /\ UNCHANGED <<latches, loopVars, inbox, out, acknowledged>>

\* A request that the firmware has not dealt with yet.
Underway ==
  \/ inbox # <<>>
  \/ packet # NoPacket
  \/ line # <<>>

\* select() runs into its 50 ms timeout.
ReceiveNothing ==
  /\ rxq = <<>>
  /\ LateReplies \/ ~Underway
  /\ UNCHANGED line
  /\ StartListening
  /\ UNCHANGED <<latches, loopVars, inbox, rxq, out, acknowledged>>

\* The byte after the first one; what the buffer held there if none came.
Second(default) == IF Len(rxq) >= 2 THEN rxq[2] ELSE default

-----------------------------------------------------------------------------
\* updateCoasterState
PollMode ==
  /\ pc = "poll"
  /\ Send(REQUEST_BUTTON_STATE, 0)
  /\ pc' = "awaitMode"
  /\ UNCHANGED <<mode, release_go>>

\* MAINTENANCE skips the commands, and so does a byte that is no mode.
StartRound ==
  /\ pc = "awaitMode"
  /\ pc' = IF mode' \in Mode \ {MAINTENANCE} THEN "hill" ELSE "poll"
  /\ UNCHANGED release_go

ModeReceived ==
  /\ Receive
  /\ mode' = IF rxq[1] = SEND_BUTTON_STATE THEN Second(0) ELSE mode
  /\ StartRound

ModeMissed ==
  /\ ReceiveNothing
  /\ UNCHANGED mode
  /\ StartRound

\* The copies of the zone states, as far as the commands depend on them.
AnyZones == [Zone -> ZoneState]

HillCommands == {HillCommand(mode, zs, release_go) : zs \in AnyZones}

DriveHill ==
  /\ pc = "hill"
  /\ \E cmd \in HillCommands : Command(CONTROL_DC_2, cmd)
  /\ pc' = "station"
  /\ UNCHANGED <<mode, release_go>>

\* release_go and the command of the branches that need no answer ...
StationOutcomes ==
  LET go(zs) == ReleaseGo(mode, zs, release_go)
  IN {<<go(zs), StationCommand(mode, zs, go(zs))>> :
        zs \in {z \in AnyZones : ~AsksOperator(mode, z, release_go)}}

DriveStation ==
  /\ pc = "station"
  /\ \E o \in StationOutcomes :
       release_go' = o[1] /\ Command(CONTROL_DC_1, o[2])
  /\ pc' = "preStation"
  /\ UNCHANGED mode

\* ... and the one that asks for it: sendCanSend
MayAsk == \E zs \in AnyZones : AsksOperator(mode, zs, release_go)

AskOperator ==
  /\ pc = "station"
  /\ MayAsk
  /\ Send(SEND_CAN_SEND, 1)
  /\ pc' = "awaitGo"
  /\ UNCHANGED <<mode, release_go>>

\* Mutant of GoReceived: any reply will do.
GoReceivedOfAnyType ==
  /\ pc = "awaitGo"
  /\ Receive
  /\ release_go' = IF Second(1) = 1 THEN 1 ELSE 0
  /\ pc' = "dispatch"
  /\ UNCHANGED mode

\* The buffer of the reply is the one of the request, with a 1 in it.
GoReceived ==
  /\ pc = "awaitGo"
  /\ Receive
  /\ release_go' = IF rxq[1] = RESPOND_CAN_SEND THEN Second(1) ELSE 0
  /\ pc' = "dispatch"
  /\ UNCHANGED mode

GoMissed ==
  /\ pc = "awaitGo"
  /\ ReceiveNothing
  /\ release_go' = 0
  /\ pc' = "dispatch"
  /\ UNCHANGED mode

DispatchPower == IF release_go = 1 THEN STATION_RUN ELSE OFF

Dispatch ==
  /\ pc = "dispatch"
  /\ Send(CONTROL_DC_1, DispatchPower)
  /\ pc' = "preStation"
  /\ UNCHANGED <<mode, release_go>>

PreStationCommands == {PreStationCommand(mode, zs) : zs \in AnyZones}

DrivePreStation ==
  /\ pc = "preStation"
  /\ \E cmd \in PreStationCommands : Command(CONTROL_SERVO_1, cmd)
  /\ pc' = "ride"
  /\ UNCHANGED <<mode, release_go>>

RideCommands == {RideCommand(mode, zs) : zs \in AnyZones}

DriveRide ==
  /\ pc = "ride"
  /\ \E cmd \in RideCommands : Command(CONTROL_SERVO_2, cmd)
  /\ pc' = "poll"
  /\ UNCHANGED <<mode, release_go>>

-----------------------------------------------------------------------------
\* The packets that the controller may be writing.
Outgoing ==
  LET packets(op, cmds) == {PacketOf(op, c) : c \in cmds \ {NoCommand}} IN
    CASE pc = "poll"       -> packets(REQUEST_BUTTON_STATE, {0})
      [] pc = "hill"       -> packets(CONTROL_DC_2, HillCommands)
      [] pc = "station"    -> packets(CONTROL_DC_1, {o[2] : o \in StationOutcomes})
                              \cup (IF MayAsk THEN packets(SEND_CAN_SEND, {1}) ELSE {})
      [] pc = "dispatch"   -> packets(CONTROL_DC_1, {DispatchPower})
      [] pc = "preStation" -> packets(CONTROL_SERVO_1, PreStationCommands)
      [] pc = "ride"       -> packets(CONTROL_SERVO_2, RideCommands)
      [] OTHER             -> {}

\* sendPacket: one of the writes of a packet fails, and exit() ends the
\* process.  The part that was written goes out.
WriteFails ==
  /\ Exits
  /\ Len(inbox) < InboxSize
  /\ \E p \in Outgoing :
       inbox' \in {inbox, Append(inbox, [p EXCEPT !.cut = TRUE])}
  /\ pc' = "down"
  /\ UNCHANGED <<mode, release_go>>
  /\ UNCHANGED <<latches, loopVars, line, rxq, out, fwObservers>>

\* Mutant of Start: the constructor does not flush the queues.
StartWithoutFlush ==
  /\ pc = "down"
  /\ pc' = "poll"
  /\ mode' = STOP
  /\ release_go' = 0
  /\ UNCHANGED line
  /\ StartListening
  /\ UNCHANGED <<latches, loopVars, inbox, rxq, out, acknowledged>>

\* The controller is started again: the globals have their first values, and
\* the constructor of serial throws away what is in the queues.
Start ==
  /\ pc = "down"
  /\ pc' = "poll"
  /\ mode' = STOP
  /\ release_go' = 0
  /\ rxq' = <<>>
  /\ UNCHANGED line
  /\ StartListening
  /\ UNCHANGED <<latches, loopVars, inbox, out, acknowledged>>

Controller ==
  \/ PollMode
  \/ ModeReceived
  \/ ModeMissed
  \/ DriveHill
  \/ DriveStation
  \/ AskOperator
  \/ GoReceived
  \/ GoMissed
  \/ Dispatch
  \/ DrivePreStation
  \/ DriveRide

Next ==
  \/ FirmwareStep /\ UNCHANGED piVars
  \/ Controller
  \/ WriteFails
  \/ Start

Spec == Init /\ [][Next]_vars

\* Both programs are endless loops.  No switch or button is used for sure,
\* and nobody starts a controller for sure that has ended.
FairSpec ==
  /\ Spec
  /\ WF_vars(FirmwareStep /\ UNCHANGED piVars)
  /\ WF_vars(Controller)

-----------------------------------------------------------------------------
\* The controller is about to read no whole reply: only a type has come, or
\* the first byte is the value of a reply whose type was read, or thrown
\* away, before.
InPart ==
  \/ Len(rxq) = 1
  \/ (Len(rxq) + Len(line)) % 2 = 1

(***************************************************************************)
(* The controller never adopts a mode that was reported before its last    *)
(* attempt to receive: a late reply is either used by the very next one or *)
(* thrown away, so stale modes cannot pile up in the receive queue.  A     *)
(* controller that has been started again does not work in a mode that was *)
(* reported to the one before it (STOP, its first mode, is the exception). *)
(* What it reads in part may pass for a mode that was not reported, which  *)
(* is then AUTOMATIC, MANUAL or a type of message that is no mode; the     *)
(* next whole reply is taken for what it says.  Coaster assumes this of a  *)
(* poll.                                                                   *)
(***************************************************************************)
ModeIsFresh ==
  [][mode' # mode /\ pc # "down" =>
       \/ mode' \in reported
       \/ InPart /\ mode' \in {AUTOMATIC, MANUAL, RESPOND_CAN_SEND}]_vars

(***************************************************************************)
(* The train in the station gets its permission from START: the firmware   *)
(* has reported the button pressed since the mode of this round was        *)
(* received, and no late reply, nor one to another question, passes for    *)
(* it.  The one exception is a type of which the value has not come yet:   *)
(* the 1 of the request stands in for it.                                  *)
(***************************************************************************)
StartConfirmed ==
  [][release_go = 0 /\ release_go' = 1 =>
       startSeen \/ rxq = <<RESPOND_CAN_SEND>>]_vars

(***************************************************************************)
(* From power-up until the operator acknowledges the checkout, the lift    *)
(* hill stands still, whatever the zones look like to the controller.      *)
(* A controller that ends in the middle of a packet can break this: the     *)
(* type of its packet and the start byte of the next one command it.       *)
(***************************************************************************)
HillOffUntilCheckout ==
  ~acknowledged =>
    \/ out[CONTROL_DC_2] = OFF
    \/ Exits /\ out[CONTROL_DC_2] = StartByte

(***************************************************************************)
(* An emergency stop that the ride is in operation for, and that is not    *)
(* reset, stops both motors for good, although only the controller sends   *)
(* the commands that do.  It may have ended before, in the middle of a     *)
(* packet, as long as it has been started again.                           *)
(***************************************************************************)
EStopStopsMotors ==
  <>[](recoverEstop = 1 /\ returnToSafe = 0 /\ pc # "down") =>
     <>[](out[CONTROL_DC_1] = OFF /\ out[CONTROL_DC_2] = OFF)
=============================================================================
