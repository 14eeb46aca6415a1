------------------------------- MODULE Coaster -------------------------------
(***************************************************************************)
(* The controller in command of trains on the track: the control thread of *)
(* controller.c, round after round, the four zones it watches, the mode    *)
(* panel and the actuators behind the serial line.                         *)
(*                                                                         *)
(* A zone is abstracted to what its two sensors make of it (BrakeZone has  *)
(* the details): an edge is handled at once, and the quiet time of a left  *)
(* zone may end at any moment.  A command reaches its actuator at once,    *)
(* unless the panel is in MAINTENANCE, where the firmware discards it.     *)
(*                                                                         *)
(* Trains and track are the physical world, not code.  What the code needs *)
(* from them is named: see Timely, Driven and Released.                    *)
(***************************************************************************)
EXTENDS Integers, FiniteSets, Interlock, Messages

CONSTANTS
  Train,       \* the trains on the track
  PanelModes,  \* the modes the operator selects
  ShortReads,  \* the controller may read a reply before all of it is there
  Timely       \* the zones that a train leaves in time, see QuietTimeEnds

ASSUME CoasterAssumption ==
  /\ PanelModes \subseteq Mode
  /\ ShortReads \in BOOLEAN
  /\ Timely \subseteq Zone

VARIABLES
  at,            \* at[t]: where train t is
  internalState, \* state of each zone as its monitor thread sees it
  fallLast,      \* zones whose stop sensor was uncovered last
  zoneState,     \* the control thread's copies
  panel,         \* the mode the firmware reports
  mode,          \* the controller's "state": the mode it works in
  release_go,    \* 1: the operator let the train in the station go
  pc,            \* where the control thread is in its round
  hillPower, stationPower, preStationServo, rideServo,  \* the actuators
  unseen,        \* zones whose last train movement no round has acted on
  confirmed      \* the train in the station was permitted to go

trackVars    == <<at, internalState, fallLast>>
actuators    == <<hillPower, stationPower, preStationServo, rideServo>>
controlVars  == <<zoneState, mode, release_go, pc>>
observerVars == <<unseen, confirmed>>
vars == <<trackVars, panel, controlVars, actuators, observerVars>>

\* A train has just covered the entry sensor of a zone, stands on its stop
\* sensor, or is on its way from there to the next zone.
Position == Zone \X {"entry", "stop", "gap"}

\* A round copies the zone states in this order, polls the mode and then
\* serves the actuators.  The station's turn has one more, "dispatch", when
\* the operator has been asked.
Round == <<"liftHill", "ride", "preStation", "station", "poll",
           "driveHill", "driveStation", "drivePreStation", "driveRide">>

NextStep(s) == Round[1 + CHOOSE i \in 1 .. 8 : Round[i] = s]

TypeOK ==
  /\ at \in [Train -> Position]
  /\ internalState \in [Zone -> ZoneState]
  /\ fallLast \subseteq Zone
  /\ zoneState \in [Zone -> ZoneState]
  /\ panel \in Mode
  /\ mode \in Mode \cup {RESPOND_CAN_SEND}
  /\ release_go \in {0, 1}
  /\ pc \in {Round[i] : i \in 1 .. 9} \cup {"dispatch"}
  /\ hillPower \in {OFF, HILL_RUN}
  /\ stationPower \in {OFF, STATION_RUN, HILL_RUN}
  /\ preStationServo \in {PRESTATION_STOP, PRESTATION_GO}
  /\ rideServo \in {RIDE_STOP, RIDE_GO}
  /\ unseen \subseteq Zone
  /\ confirmed \in BOOLEAN

\* All zones start EMPTY, so every train has been rolled over the entry
\* sensor of a zone of its own after power-up, where its monitor saw it.
Init ==
  /\ at \in [Train -> Zone \X {"entry"}]
  /\ \A t, u \in Train : t # u => at[t] # at[u]
  /\ internalState = [z \in Zone |->
       IF \E t \in Train : at[t] = <<z, "entry">> THEN ENTERING ELSE EMPTY]
  /\ fallLast = {}
  /\ zoneState = [z \in Zone |-> EMPTY]
  /\ panel \in PanelModes
  /\ mode = STOP
  /\ release_go = 0
  /\ pc = "liftHill"
  /\ hillPower = OFF
  /\ stationPower = OFF
  /\ preStationServo = PRESTATION_STOP
  /\ rideServo = RIDE_STOP
  /\ unseen = {z \in Zone : internalState[z] # EMPTY}
  /\ confirmed = FALSE

-----------------------------------------------------------------------------
(***************************************************************************)
(* Trains.  Lift hill and station move a train with their motors; a train  *)
(* in front of an open brake rolls, and so does one between two zones.     *)
(*                                                                         *)
(* Assumed of the track: a round of the controller is faster than a train, *)
(* so that between the sensors of a brake zone there is time to close the  *)
(* brake, and on the stop sensor of a motor zone time to stop the motor.   *)
(***************************************************************************)
Driven(z) ==
  CASE z = "liftHill" -> hillPower # OFF
    [] z = "station"  -> stationPower # OFF
    [] OTHER          -> z \notin unseen

Released(z) ==
  CASE z = "liftHill"   -> hillPower # OFF /\ z \notin unseen
    [] z = "station"    -> stationPower # OFF /\ z \notin unseen
    [] z = "preStation" -> preStationServo = PRESTATION_GO
    [] z = "ride"       -> rideServo = RIDE_GO

EnterZone(t) ==
  \E z \in Zone :
    LET n == After[z] IN
      /\ at[t] = <<z, "gap">>
      /\ at' = [at EXCEPT ![t] = <<n, "entry">>]
      /\ internalState' =
           [internalState EXCEPT ![n] = IF @ = EMPTY THEN ENTERING ELSE @]
      /\ fallLast' = fallLast \ {n}
      /\ unseen' = unseen \cup {n}
      /\ UNCHANGED <<panel, controlVars, actuators, confirmed>>

CoverStop(t) ==
  \E z \in Zone :
    /\ at[t] = <<z, "entry">>
    /\ Driven(z)
    /\ at' = [at EXCEPT ![t] = <<z, "stop">>]
    /\ internalState' =
         [internalState EXCEPT ![z] = IF @ = ENTERING THEN ENTERED ELSE @]
    /\ fallLast' = fallLast \ {z}
    /\ unseen' = unseen \cup {z}
    /\ confirmed' = (confirmed /\ z # "station")
    /\ UNCHANGED <<panel, controlVars, actuators>>

LeaveZone(t) ==
  \E z \in Zone :
    /\ at[t] = <<z, "stop">>
    /\ Released(z)
    /\ at' = [at EXCEPT ![t] = <<z, "gap">>]
    /\ fallLast' =
         IF internalState[z] = ENTERED THEN fallLast \cup {z} ELSE fallLast
    /\ UNCHANGED <<internalState, panel, controlVars, actuators, observerVars>>

\* The stop sensor of the zone was uncovered last and its quiet time runs.
Leaving(z) == internalState[z] = ENTERED /\ z \in fallLast

\* The quiet time is the same for all zones, so a train's zones are given up
\* in the order in which it left them.  After a Timely zone the train has
\* reached the next one by then, and a round has acted on that.
QuietTimeEnds(z) ==
  /\ Leaving(z)
  /\ \A b \in Zone : After[b] = z => ~Leaving(b)
  /\ z \in Timely =>
       /\ \A t \in Train : at[t] # <<z, "gap">>
       /\ After[z] \notin unseen
  /\ internalState' = [internalState EXCEPT ![z] = EMPTY]
  /\ UNCHANGED <<at, fallLast, panel, controlVars, actuators, observerVars>>

SelectMode(m) ==
  /\ panel # m
  /\ panel' = m
  /\ UNCHANGED <<trackVars, controlVars, actuators, observerVars>>

\* The firmware in MAINTENANCE: both brakes open, the motors in the hands of
\* the operator's buttons, which run either of them at full power.
Maintenance ==
  /\ panel = MAINTENANCE
  /\ preStationServo' = PRESTATION_GO
  /\ rideServo' = RIDE_GO
  /\ \E power \in {OFF, HILL_RUN} :
       \/ hillPower' = power /\ stationPower' = power
       \/ hillPower' = power /\ UNCHANGED stationPower
       \/ stationPower' = power /\ UNCHANGED hillPower
  /\ UNCHANGED <<trackVars, panel, controlVars, observerVars>>

-----------------------------------------------------------------------------
(***************************************************************************)
(* The control thread.                                                     *)
(***************************************************************************)
\* updateBrakeZoneState takes the copies one after the other.
UpdateState(z) ==
  /\ pc = z
  /\ zoneState' = [zoneState EXCEPT ![z] = internalState[z]]
  /\ pc' = NextStep(pc)
  /\ UNCHANGED <<trackVars, panel, mode, release_go, actuators, observerVars>>

\* updateCoasterState: no reply in time (255) leaves the mode as it is.  When
\* the two bytes of replies are read apart, AUTOMATIC, MANUAL or a byte that
\* is no mode may come out (ControlLink shows that nothing else does).
Reported ==
  {panel, mode} \cup
    (IF ShortReads THEN {AUTOMATIC, MANUAL, RESPOND_CAN_SEND} ELSE {})

\* MAINTENANCE ends the round, and so does a byte that is no mode.
Poll ==
  /\ pc = "poll"
  /\ mode' \in Reported
  /\ pc' = IF mode' \in Mode \ {MAINTENANCE} THEN NextStep(pc) ELSE "liftHill"
  /\ UNCHANGED <<trackVars, panel, zoneState, release_go, actuators, observerVars>>

\* The firmware applies a command to its actuator.
Send(cmd, actuator) == IF panel = MAINTENANCE THEN actuator ELSE Apply(cmd, actuator)

DriveHill ==
  /\ pc = "driveHill"
  /\ hillPower' = Send(HillCommand(mode, zoneState, release_go), hillPower)
  /\ pc' = NextStep(pc)
  /\ UNCHANGED <<trackVars, panel, zoneState, mode, release_go,
                 stationPower, preStationServo, rideServo, observerVars>>

\* In MANUAL the firmware answers 1 if START is pressed, and an answer of
\* which only the first byte was read counts as 1 (see ControlLink).  While
\* the controller waits for it trains and panel go on.
AskOperator ==
  /\ pc = "driveStation"
  /\ AsksOperator(mode, zoneState, release_go)
  /\ release_go' \in {0, 1}
  /\ release_go' = 1 => panel = MANUAL
  /\ confirmed' = (confirmed \/ release_go' = 1)
  /\ pc' = "dispatch"
  /\ UNCHANGED <<trackVars, panel, zoneState, mode, actuators, unseen>>

DriveStation ==
  /\ \/ pc = "driveStation" /\ ~AsksOperator(mode, zoneState, release_go)
     \/ pc = "dispatch"
  /\ release_go' = ReleaseGo(mode, zoneState, release_go)
  /\ stationPower' =
       Send(StationCommand(mode, zoneState, release_go'), stationPower)
  /\ pc' = NextStep("driveStation")
  /\ UNCHANGED <<trackVars, panel, zoneState, mode,
                 hillPower, preStationServo, rideServo, observerVars>>

DrivePreStation ==
  /\ pc = "drivePreStation"
  /\ preStationServo' = Send(PreStationCommand(mode, zoneState), preStationServo)
  /\ pc' = NextStep(pc)
  /\ UNCHANGED <<trackVars, panel, zoneState, mode, release_go,
                 hillPower, stationPower, rideServo, observerVars>>

\* The end of a round: it has acted on what it saw of each zone.
DriveRide ==
  /\ pc = "driveRide"
  /\ rideServo' = Send(RideCommand(mode, zoneState), rideServo)
  /\ pc' = "liftHill"
  /\ unseen' = {z \in unseen : zoneState[z] # internalState[z]}
  /\ UNCHANGED <<trackVars, panel, zoneState, mode, release_go,
                 hillPower, stationPower, preStationServo, confirmed>>

Control ==
  \/ \E z \in Zone : UpdateState(z)
  \/ Poll
  \/ DriveHill
  \/ AskOperator
  \/ DriveStation
  \/ DrivePreStation
  \/ DriveRide

Trains == \E t \in Train : EnterZone(t) \/ CoverStop(t) \/ LeaveZone(t)

Next ==
  \/ Trains
  \/ \E z \in Zone : QuietTimeEnds(z)
  \/ \E m \in PanelModes : SelectMode(m)
  \/ Maintenance
  \/ Control

Spec == Init /\ [][Next]_vars

\* The threads of the controller never stop, trains that can move do, quiet
\* times end, and a mode that stays selected is reported in the end.
Fairness ==
  /\ WF_vars(Control)
  /\ SF_vars(Poll /\ mode' = panel)
  /\ \A t \in Train : WF_vars(EnterZone(t) \/ CoverStop(t) \/ LeaveZone(t))
  /\ \A z \in Zone : WF_vars(QuietTimeEnds(z))

FairSpec == Spec /\ Fairness

-----------------------------------------------------------------------------
Block(z) == {<<z, part>> : part \in {"entry", "stop", "gap"}}

\* Trains in a zone or on their way from it to the next one.
TrainsIn(z) == {t \in Train : at[t] \in Block(z)}

(***************************************************************************)
(* The block rule, what the interlock is for: no train gets into a zone    *)
(* that another one still occupies or has not left behind completely.  The *)
(* decision is taken on copies of four zone states that are not taken at   *)
(* one moment, and acted upon after a poll of up to 50 ms.                 *)
(***************************************************************************)
OneTrainPerBlock == \A z \in Zone : Cardinality(TrainsIn(z)) <= 1

(***************************************************************************)
(* In MANUAL the station sends a train off only after the firmware has     *)
(* answered for this very train: the permission given for one train must   *)
(* not last until the next one, whichever modes come in between in which   *)
(* the controller is in charge.                                            *)
(***************************************************************************)
DispatchConfirmed ==
  [][ /\ pc \in {"driveStation", "dispatch"} /\ mode = MANUAL
      /\ MayDispatch(zoneState)
      /\ release_go' = 1
      => confirmed' ]_vars

(***************************************************************************)
(* With the panel on STOP for good both motors are off in the end, and     *)
(* stay off.                                                               *)
(***************************************************************************)
StopStopsMotors ==
  <>[](panel = STOP) => <>[](hillPower = OFF /\ stationPower = OFF)

(***************************************************************************)
(* With the panel on AUTOMATIC for good the ride runs: every train comes   *)
(* to the station again and again, so the zones do not wait for each other *)
(* in a ring.                                                              *)
(***************************************************************************)
RideRuns ==
  <>[](panel = AUTOMATIC) => \A t \in Train : []<>(at[t] = <<"station", "stop">>)

(***************************************************************************)
(* What the comment MOVE FORWARD at controller.c:257 and 350 says of the   *)
(* command it stands behind: an empty ride is opened for the train that    *)
(* waits on the lift hill.                                                 *)
(***************************************************************************)
RideMovesForward ==
  [][ /\ pc = "driveRide" /\ mode \in {AUTOMATIC, MANUAL}
      /\ panel # MAINTENANCE
      /\ zoneState["ride"] = EMPTY /\ zoneState["liftHill"] = ENTERED
      => rideServo' = RIDE_GO ]_vars
=============================================================================
