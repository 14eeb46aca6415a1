------------------------------ MODULE Interlock ------------------------------
(***************************************************************************)
(* What controlRollerCoaster commands to the four actuators of the track,  *)
(* as a function of the mode, its copies zs of the zone states and the     *)
(* dispatch permission release_go.  The zones form a ring: station,        *)
(* liftHill, ride, preStation and back to the station.                     *)
(***************************************************************************)
EXTENDS Integers, StateMachine

Zone == {"liftHill", "ride", "preStation", "station"}

After == [station    |-> "liftHill",
          liftHill   |-> "ride",
          ride       |-> "preStation",
          preStation |-> "station"]

\* Servo positions of serial.h.
PRESTATION_STOP == 140
PRESTATION_GO   == 180
RIDE_STOP       == 185
RIDE_GO         == 250

\* Motor powers of the calls in the controller.
HILL_RUN    == 255
STATION_RUN == 128
OFF         == 0

\* The branch taken sends nothing: the actuator keeps what it was told last.
NoCommand == -1

Apply(cmd, actuator) == IF cmd = NoCommand THEN actuator ELSE cmd

-----------------------------------------------------------------------------
\* Mutant: a train is handed over whether the ride is free or not.
HillRunsIntoRide(zs, dispatch) ==
  \/ zs["liftHill"] = EMPTY /\ zs["station"] = ENTERED /\ dispatch
  \/ zs["liftHill"] \in {ENTERING, ENTERED}

\* Mutant: a train that enters the hill is not brought up.
HillRunsOnceEntered(zs, dispatch) ==
  \/ zs["liftHill"] = EMPTY /\ zs["station"] = ENTERED /\ dispatch
  \/ zs["liftHill"] = ENTERED /\ zs["ride"] = EMPTY

\* The hill runs to fetch the train that is about to leave the station, to
\* bring a train up, and to hand it over to a free ride.
HillRuns(zs, dispatch) ==
  \/ zs["liftHill"] = EMPTY /\ zs["station"] = ENTERED /\ dispatch
  \/ zs["liftHill"] = ENTERING
  \/ zs["liftHill"] = ENTERED /\ zs["ride"] = EMPTY

HillCommand(mode, zs, release_go) ==
  CASE mode = AUTOMATIC -> IF HillRuns(zs, TRUE) THEN HILL_RUN ELSE OFF
    [] mode = MANUAL -> IF HillRuns(zs, release_go = 1) THEN HILL_RUN ELSE OFF
    [] mode = STOP -> OFF
    [] mode = RETURN_TO_SAFE ->
         IF zs["liftHill"] = ENTERING THEN NoCommand ELSE OFF

-----------------------------------------------------------------------------
\* Mutant: a train that is still entering the lift hill does not count.
MayDispatchBehind(zs) == zs["station"] = ENTERED /\ zs["liftHill"] # ENTERED

\* The train in the station may go: the lift hill is free.
MayDispatch(zs) == zs["station"] = ENTERED /\ zs["liftHill"] = EMPTY

\* MANUAL: the operator is asked (sendCanSend) unless the answer is known.
AsksOperator(mode, zs, release_go) ==
  mode = MANUAL /\ MayDispatch(zs) /\ release_go = 0

\* Mutant: only the modes without dispatch take the permission back.
ReleaseGoForEver(mode, zs, release_go) ==
  CASE mode \in {AUTOMATIC, MANUAL} -> release_go
    [] mode = STOP -> 0
    [] mode = RETURN_TO_SAFE ->
         IF zs["station"] = ENTERED THEN 0 ELSE release_go

\* release_go after the station's branch; where the branch asks the operator
\* it is the answer to begin with.
ReleaseGo(mode, zs, release_go) ==
  CASE mode \in {AUTOMATIC, MANUAL} ->
         IF zs["station"] = ENTERED /\ zs["liftHill"] # EMPTY THEN 0
         ELSE release_go
    [] mode = STOP -> 0
    [] mode = RETURN_TO_SAFE ->
         IF zs["station"] = ENTERED THEN 0 ELSE release_go

\* The station pulls in the train that the pre station lets go, and sends
\* its train off when "dispatch" says so.
StationRuns(zs, dispatch) ==
  \/ zs["station"] = EMPTY /\ zs["preStation"] = ENTERED
  \/ zs["station"] = ENTERING
  \/ MayDispatch(zs) /\ dispatch

\* Mutant: STOP leaves the station to the firmware.
StationCommandNotInStop(mode, zs, release_go) ==
  CASE mode = AUTOMATIC -> IF StationRuns(zs, TRUE) THEN STATION_RUN ELSE OFF
    [] mode = MANUAL ->
         IF StationRuns(zs, release_go = 1) THEN STATION_RUN ELSE OFF
    [] mode = STOP -> NoCommand
    [] mode = RETURN_TO_SAFE ->
         IF zs["station"] = ENTERING THEN STATION_RUN ELSE OFF

\* release_go is the value after ReleaseGo.
StationCommand(mode, zs, release_go) ==
  CASE mode = AUTOMATIC -> IF StationRuns(zs, TRUE) THEN STATION_RUN ELSE OFF
    [] mode = MANUAL ->
         IF StationRuns(zs, release_go = 1) THEN STATION_RUN ELSE OFF
    [] mode = STOP -> OFF
    [] mode = RETURN_TO_SAFE ->
         IF zs["station"] = ENTERING THEN STATION_RUN ELSE OFF

-----------------------------------------------------------------------------
\* Mutant: a brake opens for its train whatever is ahead.
BrakeCommandBlind(mode, zone, ahead, go, halt) ==
  IF mode \in {STOP, RETURN_TO_SAFE}
    THEN IF zone = ENTERED THEN NoCommand ELSE halt
    ELSE IF zone = ENTERED THEN go ELSE halt

\* The brakes of the pre station and of the ride open for a train that
\* stands at them when the zone ahead is free.  STOP and RETURN_TO_SAFE send
\* nothing for an ENTERED zone: an open brake stays open.
BrakeCommand(mode, zone, ahead, go, halt) ==
  IF mode \in {STOP, RETURN_TO_SAFE}
    THEN IF zone = ENTERED THEN NoCommand ELSE halt
    ELSE IF zone = ENTERED /\ ahead = EMPTY THEN go ELSE halt

\* Mutant: the positions of the other servo.
PreStationCommandOfRide(mode, zs) ==
  BrakeCommand(mode, zs["preStation"], zs["station"], RIDE_GO, RIDE_STOP)

PreStationCommand(mode, zs) ==
  BrakeCommand(mode, zs["preStation"], zs["station"],
               PRESTATION_GO, PRESTATION_STOP)

RideCommand(mode, zs) ==
  BrakeCommand(mode, zs["ride"], zs["preStation"], RIDE_GO, RIDE_STOP)
=============================================================================
