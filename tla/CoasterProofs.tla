---------------------------- MODULE CoasterProofs ----------------------------
(***************************************************************************)
(* The controller in command of any number of trains: type correctness,    *)
(* and, on a track that keeps the times which the code relies on, the      *)
(* block rule, the two refinements and the permission to dispatch.         *)
(***************************************************************************)
EXTENDS CoasterBlocks, FiniteSetTheorems, TLAPS

-----------------------------------------------------------------------------
(***************************************************************************)
(* The ring and the round.                                                 *)
(***************************************************************************)
LEMMA Ring ==
  /\ \A z \in Zone : After[z] \in Zone /\ After[z] # z
  /\ \A z, y \in Zone : After[z] = After[y] => z = y
  BY DEF Zone, After

LEMMA Steps ==
  /\ NextStep("liftHill") = "ride"
  /\ NextStep("ride") = "preStation"
  /\ NextStep("preStation") = "station"
  /\ NextStep("station") = "poll"
  /\ NextStep("poll") = "driveHill"
  /\ NextStep("driveHill") = "driveStation"
  /\ NextStep("driveStation") = "drivePreStation"
  /\ NextStep("drivePreStation") = "driveRide"
<1>1. ASSUME NEW i \in 1 .. 8
      PROVE  NextStep(Round[i]) = Round[1 + i]
  <2>1. \A j \in 1 .. 8 : Round[j] = Round[i] => j = i
    BY DEF Round
  <2>2. (CHOOSE j \in 1 .. 8 : Round[j] = Round[i]) = i
    BY <2>1
  <2> QED
    BY <2>2 DEF NextStep
<1> QED
  BY <1>1 DEF Round

Driving == {"driveHill", "driveStation", "dispatch", "drivePreStation", "driveRide"}

LEMMA Pcs == {Round[i] : i \in 1 .. 9} \cup {"dispatch"} = Zone \cup {"poll"} \cup Driving
  BY DEF Round, Zone, Driving

-----------------------------------------------------------------------------
(***************************************************************************)
(* Types.                                                                  *)
(***************************************************************************)
\* The mode of a round that commands is one of these.
RunMode == {AUTOMATIC, MANUAL, STOP, RETURN_TO_SAFE}

\* The commands are only looked up in a mode that has some.
TypeInv ==
  /\ TypeOK
  /\ pc \in Driving => mode \in RunMode

LEMMA Commands ==
  ASSUME mode \in RunMode
  PROVE  /\ \A go : HillCommand(mode, zoneState, go) \in {OFF, HILL_RUN, NoCommand}
         /\ \A go : StationCommand(mode, zoneState, go) \in {OFF, STATION_RUN}
         /\ PreStationCommand(mode, zoneState)
              \in {PRESTATION_GO, PRESTATION_STOP, NoCommand}
         /\ RideCommand(mode, zoneState) \in {RIDE_GO, RIDE_STOP, NoCommand}
         /\ release_go \in {0, 1} => ReleaseGo(mode, zoneState, release_go) \in {0, 1}
  BY DEF RunMode, HillCommand, StationCommand, PreStationCommand, RideCommand,
         BrakeCommand, ReleaseGo, AUTOMATIC, MANUAL, STOP, RETURN_TO_SAFE

LEMMA InitTypes == Init => TypeInv
<1>1. Init => pc \notin Driving /\ pc \in {Round[i] : i \in 1 .. 9} \cup {"dispatch"}
  BY Pcs DEF Init, Driving, Zone
<1> QED
  BY <1>1, CoasterAssumption
     DEF Init, TypeInv, TypeOK, Position, ZoneState, Mode, Zone, STOP

LEMMA TrackTypes ==
  ASSUME TypeInv, \/ Trains
                  \/ \E z \in Zone : QuietTimeEnds(z)
                  \/ \E m \in PanelModes : SelectMode(m)
                  \/ Maintenance
  PROVE  TypeInv'
<1> USE DEF TypeInv, TypeOK, controlVars, actuators, observerVars, trackVars
<1>1. ASSUME NEW t \in Train, EnterZone(t) \/ CoverStop(t) \/ LeaveZone(t)
      PROVE  TypeInv'
  <2>1. CASE EnterZone(t)
    BY <2>1, Ring DEF EnterZone, Position, ZoneState
  <2>2. CASE CoverStop(t)
    <3>1. confirmed' \in BOOLEAN
      BY <2>2, Zenon DEF CoverStop
    <3> QED
      BY <2>2, <3>1 DEF CoverStop, Position, ZoneState
  <2>3. CASE LeaveZone(t)
    BY <2>3 DEF LeaveZone, Position
  <2> QED
    BY <1>1, <2>1, <2>2, <2>3
<1>2. ASSUME NEW z \in Zone, QuietTimeEnds(z)
      PROVE  TypeInv'
  BY <1>2 DEF QuietTimeEnds, ZoneState
<1>3. ASSUME NEW m \in PanelModes, SelectMode(m)
      PROVE  TypeInv'
  BY <1>3, CoasterAssumption DEF SelectMode
<1>4. CASE Maintenance
  BY <1>4 DEF Maintenance
<1> QED
  BY <1>1, <1>2, <1>3, <1>4 DEF Trains

LEMMA ControlTypes ==
  ASSUME TypeInv, Control
  PROVE  TypeInv'
<1> USE DEF TypeInv, TypeOK, controlVars, actuators, observerVars, trackVars
<1>1. ASSUME NEW z \in Zone, UpdateState(z)
      PROVE  TypeInv'
  BY <1>1, Steps, Pcs DEF UpdateState, Zone, Driving
<1>2. CASE Poll
  <2>1. mode' \in Mode \cup {RESPOND_CAN_SEND}
    BY <1>2 DEF Poll, Reported, Mode
  <2>2. mode' \in Mode \ {MAINTENANCE} => mode' \in RunMode
    BY DEF RunMode, Mode
  <2> QED
    BY <1>2, <2>1, <2>2, Steps, Pcs DEF Poll, Zone, Driving
<1>3. CASE DriveHill
  BY <1>3, Steps, Pcs, Commands DEF DriveHill, Send, Apply, Driving
<1>4. CASE AskOperator
  <2>1. confirmed' \in BOOLEAN
    BY <1>4, Zenon DEF AskOperator
  <2> QED
    BY <1>4, <2>1, Pcs DEF AskOperator, Driving
<1>5. CASE DriveStation
  BY <1>5, Steps, Pcs, Commands DEF DriveStation, Send, Apply, Driving, NoCommand
<1>6. CASE DrivePreStation
  BY <1>6, Steps, Pcs, Commands DEF DrivePreStation, Send, Apply, Driving
<1>7. CASE DriveRide
  BY <1>7, Steps, Pcs, Commands DEF DriveRide, Send, Apply, Driving, Zone
<1> QED
  BY <1>1, <1>2, <1>3, <1>4, <1>5, <1>6, <1>7 DEF Control

LEMMA TypesAreKept ==
  ASSUME TypeInv, [Next]_vars
  PROVE  TypeInv'
<1>1. CASE UNCHANGED vars
  <2>1. confirmed' \in BOOLEAN
    BY <1>1, Zenon DEF vars, observerVars, TypeInv, TypeOK
  <2> QED
    BY <1>1, <2>1 DEF vars, TypeInv, TypeOK, controlVars, actuators,
                      observerVars, trackVars
<1> QED
  BY <1>1, TrackTypes, ControlTypes DEF Next

LEMMA TypesAreInductive == Spec => []TypeInv
  BY InitTypes, TypesAreKept, PTL DEF Spec

(***************************************************************************)
(* Every variable of the ride keeps its type: no actuator is ever told     *)
(* anything but its own values, in no mode, byte 7 included.               *)
(***************************************************************************)
THEOREM TypeCorrect == Spec => []TypeOK
<1>1. TypeInv => TypeOK
  BY DEF TypeInv
<1> QED
  BY <1>1, TypesAreInductive, PTL

-----------------------------------------------------------------------------
(***************************************************************************)
(* The block rule.                                                         *)
(***************************************************************************)
\* The track keeps the times that the code relies on (see Coaster), and the
\* operator does not work on it by hand: in MAINTENANCE brakes are open.
UnderControl == Timely = Zone /\ MAINTENANCE \notin PanelModes

\* No two trains are in one block.
Apart == \A t, u \in Train : t # u => at[t][1] # at[u][1]

\* Each zone's state tells where in it the train is, and a train on its way
\* to the next zone finds that one EMPTY.
Seen ==
  \A t \in Train, z \in Zone :
    /\ at[t] = <<z, "entry">> => internalState[z] = ENTERING
    /\ at[t] = <<z, "stop">>  => internalState[z] = ENTERED /\ z \notin fallLast
    /\ at[t] = <<z, "gap">>   => Leaving(z) /\ internalState[After[z]] = EMPTY

\* Once a round has acted on a zone, only the end of its quiet time is news.
Copies == \A z \in Zone : z \notin unseen => internalState[z] \in {EMPTY, zoneState[z]}

\* The zones that this round has copied.
Copied ==
  CASE pc = "liftHill"   -> {}
    [] pc = "ride"       -> {"liftHill"}
    [] pc = "preStation" -> {"liftHill", "ride"}
    [] pc = "station"    -> {"liftHill", "ride", "preStation"}
    [] OTHER             -> Zone

\* Before the first commands nothing moves.
Standing ==
  /\ \A t \in Train : at[t][2] = "entry"
  /\ hillPower = OFF /\ stationPower = OFF
  /\ \A z \in Zone : internalState[z] # EMPTY => z \in unseen

\* A copy says EMPTY of a zone that is not only while the train that came is
\* still reserving the zone before.
StaleCopies ==
  \A z \in Zone :
    internalState[After[z]] # EMPTY /\ zoneState[After[z]] = EMPTY =>
      Leaving(z) \/ (Standing /\ After[z] \notin Copied)

\* What the commands of this round have done, as far as the zones that they
\* are about were copied correctly.
Commanded ==
  /\ panel # MAINTENANCE
  /\ /\ pc \in Driving \ {"driveHill"}
     /\ zoneState["liftHill"] = ENTERED /\ hillPower # OFF
     => zoneState["ride"] = EMPTY
  /\ /\ pc \in {"drivePreStation", "driveRide"}
     /\ zoneState["station"] = ENTERED /\ stationPower # OFF
     => zoneState["liftHill"] = EMPTY
  /\ pc = "driveRide" /\ zoneState["preStation"] # ENTERED =>
       preStationServo = PRESTATION_STOP

\* A brake has closed behind the last train when the next one may go on.
BrakesClosed ==
  \A t \in Train :
    /\ at[t] = <<"preStation", "entry">> /\ "preStation" \notin unseen =>
         preStationServo = PRESTATION_STOP
    /\ at[t] = <<"ride", "entry">> /\ "ride" \notin unseen =>
         rideServo = RIDE_STOP

\* A train that can leave its zone finds the next one free.
FreeAhead ==
  \A t \in Train, z \in Zone :
    at[t] = <<z, "stop">> /\ Released(z) => internalState[After[z]] = EMPTY

BlockInv ==
  /\ TypeInv
  /\ Apart
  /\ Seen
  /\ Copies
  /\ StaleCopies
  /\ Commanded
  /\ BrakesClosed
  /\ FreeAhead

LEMMA States ==
  EMPTY # ENTERING /\ EMPTY # ENTERED /\ ENTERING # ENTERED
  BY DEF EMPTY, ENTERING, ENTERED

LEMMA InitBlocks ==
  ASSUME UnderControl, Init
  PROVE  BlockInv
<1> USE DEF Init
<1>1. TypeInv
  BY InitTypes
<1>2. Apart
  BY DEF Apart
<1>3. Seen
  BY DEF Seen
<1>4. Copies /\ BrakesClosed
  BY DEF Copies, BrakesClosed
<1>5. Standing /\ Copied = {}
  BY DEF Standing, Copied
<1>6. StaleCopies
  BY <1>5 DEF StaleCopies
<1>7. Commanded
  BY DEF Commanded, UnderControl, Driving
<1>8. FreeAhead
  BY DEF FreeAhead
<1> QED
  BY <1>1, <1>2, <1>3, <1>4, <1>6, <1>7, <1>8 DEF BlockInv

\* A train anywhere in a zone keeps it from being EMPTY.
LEMMA HeldZone ==
  ASSUME TypeInv, Seen, NEW t \in Train, NEW z \in Zone, at[t][1] = z
  PROVE  internalState[z] # EMPTY
<1>1. PICK part \in {"entry", "stop", "gap"} : at[t] = <<z, part>>
  BY DEF TypeInv, TypeOK, Position
<1> QED
  BY <1>1, States DEF Seen, Leaving

\* What is not commanded and not acted on cannot let a train go.
LEMMA ReleasedBefore ==
  ASSUME NEW z \in Zone, UNCHANGED actuators, unseen \subseteq unseen', Released(z)'
  PROVE  Released(z)
<1>1. CASE z = "liftHill"
  BY <1>1 DEF Released, actuators
<1>2. CASE z = "station"
  BY <1>2 DEF Released, actuators
<1>3. CASE z = "preStation"
  BY <1>3 DEF Released, actuators
<1>4. CASE z = "ride"
  BY <1>4 DEF Released, actuators
<1> QED
  BY <1>1, <1>2, <1>3, <1>4 DEF Zone

\* A train that comes into a zone finds it EMPTY and marks it unseen, so
\* nobody else's zone is touched.
LEMMA EnterZoneKeepsBlocks ==
  ASSUME BlockInv, NEW t \in Train, EnterZone(t)
  PROVE  /\ Apart' /\ Seen' /\ Copies' /\ StaleCopies'
         /\ Commanded' /\ BrakesClosed' /\ FreeAhead'
<1> USE DEF BlockInv
<1>0. PICK z \in Zone :
        /\ at[t] = <<z, "gap">>
        /\ at' = [at EXCEPT ![t] = <<After[z], "entry">>]
        /\ internalState' = [internalState EXCEPT
             ![After[z]] = IF @ = EMPTY THEN ENTERING ELSE @]
        /\ fallLast' = fallLast \ {After[z]}
        /\ unseen' = unseen \cup {After[z]}
        /\ UNCHANGED <<panel, controlVars, actuators, confirmed>>
  BY DEF EnterZone
<1> DEFINE n == After[z]
<1>1. n \in Zone /\ n # z
  BY Ring
<1>2. internalState[n] = EMPTY /\ Leaving(z)
  BY <1>0 DEF Seen
<1>3. internalState' = [internalState EXCEPT ![n] = ENTERING]
  BY <1>0, <1>2
<1>4. at'[t] = <<n, "entry">> /\ \A u \in Train : u # t => at'[u] = at[u]
  BY <1>0 DEF TypeInv, TypeOK
<1>5. internalState'[n] = ENTERING /\ \A y \in Zone : y # n => internalState'[y] = internalState[y]
  BY <1>1, <1>3 DEF TypeInv, TypeOK
<1>6. \A u \in Train : u # t => at[u][1] # n /\ at[u][1] # z
  <2>1. \A u \in Train : at[u][1] # n
    BY <1>1, <1>2, HeldZone
  <2> QED
    BY <2>1, <1>0 DEF Apart
<1>7. \A y \in Zone : y # z => After[y] # n
  BY Ring
<1>8. \A y \in Zone : y # n => (Leaving(y)' <=> Leaving(y))
  BY <1>0, <1>5 DEF Leaving
<1>9. ~Standing
  BY <1>0 DEF Standing
<1>a. Apart'
  BY <1>4, <1>6 DEF Apart
<1>b. Seen'
  <2> SUFFICES ASSUME NEW u \in Train, NEW y \in Zone
               PROVE  /\ at'[u] = <<y, "entry">> => internalState'[y] = ENTERING
                      /\ at'[u] = <<y, "stop">>  =>
                           internalState'[y] = ENTERED /\ y \notin fallLast'
                      /\ at'[u] = <<y, "gap">>   =>
                           Leaving(y)' /\ internalState'[After[y]] = EMPTY
    BY DEF Seen
  <2>1. CASE u = t
    BY <2>1, <1>4, <1>5
  <2>2. CASE u # t /\ at[u][1] = y
    <3>1. y # n /\ y # z
      BY <2>2, <1>6
    <3>2. internalState'[y] = internalState[y] /\ (Leaving(y)' <=> Leaving(y))
      BY <3>1, <1>5, <1>8
    <3>3. internalState'[After[y]] = internalState[After[y]]
      BY <3>1, <1>5, <1>7, Ring
    <3> QED
      BY <2>2, <3>2, <3>3, <1>0, <1>4 DEF Seen
  <2>3. CASE u # t /\ at[u][1] # y
    BY <2>3, <1>4
  <2> QED
    BY <2>1, <2>2, <2>3
<1>c. Copies'
  BY <1>0, <1>5 DEF Copies, controlVars
<1>d. StaleCopies'
  <2> SUFFICES ASSUME NEW y \in Zone,
                      internalState'[After[y]] # EMPTY, zoneState'[After[y]] = EMPTY
               PROVE  Leaving(y)'
    BY DEF StaleCopies
  <2>1. CASE y = z
    BY <2>1, <1>1, <1>2, <1>8
  <2>2. CASE y # z
    <3>1. internalState[After[y]] # EMPTY /\ zoneState[After[y]] = EMPTY
      BY <2>2, <1>0, <1>5, <1>7, Ring DEF controlVars
    <3>2. Leaving(y)
      BY <3>1, <1>9 DEF StaleCopies
    <3>3. y # n
      BY <3>2, <1>2, States DEF Leaving
    <3> QED
      BY <3>2, <3>3, <1>8
  <2> QED
    BY <2>1, <2>2
<1>e. Commanded'
  BY <1>0 DEF Commanded, controlVars, actuators
<1>f. BrakesClosed'
  <2> SUFFICES ASSUME NEW u \in Train
               PROVE  /\ at'[u] = <<"preStation", "entry">> /\ "preStation" \notin unseen' =>
                           preStationServo' = PRESTATION_STOP
                      /\ at'[u] = <<"ride", "entry">> /\ "ride" \notin unseen' =>
                           rideServo' = RIDE_STOP
    BY DEF BrakesClosed
  <2>1. CASE u = t
    BY <2>1, <1>0, <1>4
  <2>2. CASE u # t
    BY <2>2, <1>0, <1>4 DEF BrakesClosed, actuators
  <2> QED
    BY <2>1, <2>2
<1>g. FreeAhead'
  <2> SUFFICES ASSUME NEW u \in Train, NEW y \in Zone, at'[u] = <<y, "stop">>, Released(y)'
               PROVE  internalState'[After[y]] = EMPTY
    BY DEF FreeAhead
  <2>1. u # t /\ at[u] = <<y, "stop">>
    BY <1>4
  <2>2. y # z
    BY <2>1, <1>6
  <2>3. Released(y)
    BY <1>0, ReleasedBefore
  <2> QED
    BY <2>1, <2>2, <2>3, <1>5, <1>7, Ring DEF FreeAhead
<1> QED
  BY <1>a, <1>b, <1>c, <1>d, <1>e, <1>f, <1>g

\* A train that reaches a brake finds it closed, and a motor has to be seen
\* to stop before its train goes on.
LEMMA CoverStopKeepsBlocks ==
  ASSUME BlockInv, NEW t \in Train, CoverStop(t)
  PROVE  /\ Apart' /\ Seen' /\ Copies' /\ StaleCopies'
         /\ Commanded' /\ BrakesClosed' /\ FreeAhead'
<1> USE DEF BlockInv
<1>0. PICK z \in Zone :
        /\ at[t] = <<z, "entry">>
        /\ Driven(z)
        /\ at' = [at EXCEPT ![t] = <<z, "stop">>]
        /\ internalState' = [internalState EXCEPT
             ![z] = IF @ = ENTERING THEN ENTERED ELSE @]
        /\ fallLast' = fallLast \ {z}
        /\ unseen' = unseen \cup {z}
        /\ UNCHANGED <<panel, controlVars, actuators>>
  BY DEF CoverStop
<1>1. internalState[z] = ENTERING
  BY <1>0 DEF Seen
<1>2. internalState' = [internalState EXCEPT ![z] = ENTERED]
  BY <1>0, <1>1
<1>3. at'[t] = <<z, "stop">> /\ \A u \in Train : u # t => at'[u] = at[u]
  BY <1>0 DEF TypeInv, TypeOK
<1>4. internalState'[z] = ENTERED /\ \A y \in Zone : y # z => internalState'[y] = internalState[y]
  BY <1>2 DEF TypeInv, TypeOK
<1>5. \A u \in Train : u # t => at[u][1] # z
  BY <1>0 DEF Apart
<1>6. \A y \in Zone : Leaving(y)' <=> Leaving(y)
  BY <1>0, <1>1, <1>4, States DEF Leaving
<1>7. \A y \in Zone : internalState'[y] = EMPTY <=> internalState[y] = EMPTY
  BY <1>1, <1>4, States
<1>8. ~Standing
  BY <1>0, <1>1, States DEF Standing, Driven
<1>a. Apart'
  BY <1>0, <1>3, <1>5 DEF Apart
<1>b. Seen'
  <2> SUFFICES ASSUME NEW u \in Train, NEW y \in Zone
               PROVE  /\ at'[u] = <<y, "entry">> => internalState'[y] = ENTERING
                      /\ at'[u] = <<y, "stop">>  =>
                           internalState'[y] = ENTERED /\ y \notin fallLast'
                      /\ at'[u] = <<y, "gap">>   =>
                           Leaving(y)' /\ internalState'[After[y]] = EMPTY
    BY DEF Seen
  <2>1. CASE u = t
    BY <2>1, <1>0, <1>3, <1>4
  <2>2. CASE u # t
    BY <2>2, <1>0, <1>3, <1>4, <1>5, <1>6, <1>7, Ring DEF Seen
  <2> QED
    BY <2>1, <2>2
<1>c. Copies'
  BY <1>0, <1>4 DEF Copies, controlVars
<1>d. StaleCopies'
  BY <1>0, <1>6, <1>7, <1>8, Ring DEF StaleCopies, controlVars
<1>e. Commanded'
  BY <1>0 DEF Commanded, controlVars, actuators
<1>f. BrakesClosed'
  BY <1>0, <1>3 DEF BrakesClosed, actuators
<1>g. FreeAhead'
  <2> SUFFICES ASSUME NEW u \in Train, NEW y \in Zone, at'[u] = <<y, "stop">>, Released(y)'
               PROVE  internalState'[After[y]] = EMPTY
    BY DEF FreeAhead
  <2>1. CASE u = t
    <3>1. y = z
      BY <2>1, <1>3
    <3>2. CASE z \in {"liftHill", "station"}
      BY <3>1, <3>2, <1>0 DEF Released
    <3>3. CASE z = "preStation"
      BY <3>1, <3>3, <1>0 DEF Released, Driven, BrakesClosed, actuators,
                              PRESTATION_GO, PRESTATION_STOP
    <3>4. CASE z = "ride"
      BY <3>1, <3>4, <1>0 DEF Released, Driven, BrakesClosed, actuators,
                              RIDE_GO, RIDE_STOP
    <3> QED
      BY <3>2, <3>3, <3>4 DEF Zone
  <2>2. CASE u # t
    <3>1. at[u] = <<y, "stop">> /\ Released(y)
      BY <2>2, <1>0, <1>3, ReleasedBefore
    <3> QED
      BY <3>1, <1>7, Ring DEF FreeAhead
  <2> QED
    BY <2>1, <2>2
<1> QED
  BY <1>a, <1>b, <1>c, <1>d, <1>e, <1>f, <1>g

\* A train leaves only into a free block.
LEMMA LeaveZoneKeepsBlocks ==
  ASSUME BlockInv, NEW t \in Train, LeaveZone(t)
  PROVE  /\ Apart' /\ Seen' /\ Copies' /\ StaleCopies'
         /\ Commanded' /\ BrakesClosed' /\ FreeAhead'
<1> USE DEF BlockInv
<1>0. PICK z \in Zone :
        /\ at[t] = <<z, "stop">>
        /\ Released(z)
        /\ at' = [at EXCEPT ![t] = <<z, "gap">>]
        /\ fallLast' = IF internalState[z] = ENTERED THEN fallLast \cup {z} ELSE fallLast
        /\ UNCHANGED <<internalState, panel, controlVars, actuators, observerVars>>
  BY DEF LeaveZone
<1>1. internalState[z] = ENTERED /\ internalState[After[z]] = EMPTY
  BY <1>0 DEF Seen, FreeAhead
<1>2. fallLast' = fallLast \cup {z} /\ internalState' = internalState
  BY <1>0, <1>1
<1>3. at'[t] = <<z, "gap">> /\ \A u \in Train : u # t => at'[u] = at[u]
  BY <1>0 DEF TypeInv, TypeOK
<1>4. \A u \in Train : u # t => at[u][1] # z
  BY <1>0 DEF Apart
<1>5. Leaving(z)' /\ \A y \in Zone : Leaving(y) => Leaving(y)'
  BY <1>1, <1>2 DEF Leaving
<1>6. ~Standing
  BY <1>0 DEF Standing
<1>a. Apart'
  BY <1>0, <1>3, <1>4 DEF Apart
<1>b. Seen'
  <2> SUFFICES ASSUME NEW u \in Train, NEW y \in Zone
               PROVE  /\ at'[u] = <<y, "entry">> => internalState'[y] = ENTERING
                      /\ at'[u] = <<y, "stop">>  =>
                           internalState'[y] = ENTERED /\ y \notin fallLast'
                      /\ at'[u] = <<y, "gap">>   =>
                           Leaving(y)' /\ internalState'[After[y]] = EMPTY
    BY DEF Seen
  <2>1. CASE u = t
    BY <2>1, <1>1, <1>2, <1>3, <1>5
  <2>2. CASE u # t
    BY <2>2, <1>2, <1>3, <1>4, <1>5 DEF Seen
  <2> QED
    BY <2>1, <2>2
<1>c. Copies'
  BY <1>0 DEF Copies, controlVars, observerVars
<1>d. StaleCopies'
  BY <1>0, <1>2, <1>5, <1>6, Ring DEF StaleCopies, controlVars
<1>e. Commanded'
  BY <1>0 DEF Commanded, controlVars, actuators
<1>f. BrakesClosed'
  BY <1>0, <1>3 DEF BrakesClosed, actuators, observerVars
<1>g. FreeAhead'
  <2> SUFFICES ASSUME NEW u \in Train, NEW y \in Zone, at'[u] = <<y, "stop">>, Released(y)'
               PROVE  internalState'[After[y]] = EMPTY
    BY DEF FreeAhead
  <2>1. at[u] = <<y, "stop">> /\ Released(y)
    BY <1>0, <1>3, ReleasedBefore DEF observerVars
  <2> QED
    BY <2>1, <1>2 DEF FreeAhead
<1> QED
  BY <1>a, <1>b, <1>c, <1>d, <1>e, <1>f, <1>g

\* A zone is given up only when the next train has been seen ahead of it.
LEMMA QuietTimeKeepsBlocks ==
  ASSUME UnderControl, BlockInv, NEW z \in Zone, QuietTimeEnds(z)
  PROVE  /\ Apart' /\ Seen' /\ Copies' /\ StaleCopies'
         /\ Commanded' /\ BrakesClosed' /\ FreeAhead'
<1> USE DEF BlockInv
<1>1. /\ Leaving(z)
      /\ \A t \in Train : at[t] # <<z, "gap">>
      /\ After[z] \notin unseen
      /\ internalState' = [internalState EXCEPT ![z] = EMPTY]
      /\ UNCHANGED <<at, fallLast, panel, controlVars, actuators, observerVars>>
  BY DEF QuietTimeEnds, UnderControl
<1>2. internalState'[z] = EMPTY /\ \A y \in Zone : y # z => internalState'[y] = internalState[y]
  BY <1>1 DEF TypeInv, TypeOK
<1>3. ASSUME NEW t \in Train
      PROVE  at[t][1] # z
  <2>1. at[t] # <<z, "entry">> /\ at[t] # <<z, "stop">>
    BY <1>1, States DEF Seen, Leaving
  <2>2. PICK y \in Zone, part \in {"entry", "stop", "gap"} : at[t] = <<y, part>>
    BY DEF TypeInv, TypeOK, Position
  <2> QED
    BY <2>1, <2>2, <1>1
<1>4. \A y \in Zone : y # z => (Leaving(y)' <=> Leaving(y))
  BY <1>1, <1>2 DEF Leaving
<1>5. internalState[After[z]] # EMPTY => zoneState[After[z]] # EMPTY
  BY <1>1, Ring DEF Copies
<1>6. \A y \in Zone : Released(y)' <=> Released(y)
  <2>1. UNCHANGED <<hillPower, stationPower, preStationServo, rideServo, unseen>>
    BY <1>1 DEF actuators, observerVars
  <2> QED
    BY <2>1 DEF Released, Zone
<1>a. Apart'
  BY <1>1 DEF Apart
<1>b. Seen'
  <2> SUFFICES ASSUME NEW u \in Train, NEW y \in Zone, at[u][1] = y
               PROVE  /\ at[u] = <<y, "entry">> => internalState'[y] = ENTERING
                      /\ at[u] = <<y, "stop">>  =>
                           internalState'[y] = ENTERED /\ y \notin fallLast'
                      /\ at[u] = <<y, "gap">>   =>
                           Leaving(y)' /\ internalState'[After[y]] = EMPTY
    BY <1>1 DEF Seen
  <2>1. y # z
    BY <1>3
  <2>2. internalState'[After[y]] = internalState[After[y]] \/ internalState'[After[y]] = EMPTY
    BY <1>2, Ring
  <2> QED
    BY <2>1, <2>2, <1>1, <1>2, <1>4 DEF Seen
<1>c. Copies'
  BY <1>1, <1>2 DEF Copies, controlVars, observerVars
<1>d. StaleCopies'
  <2> SUFFICES ASSUME NEW y \in Zone,
                      internalState'[After[y]] # EMPTY, zoneState'[After[y]] = EMPTY
               PROVE  Leaving(y)' \/ (Standing' /\ After[y] \notin Copied')
    BY DEF StaleCopies
  <2>1. After[y] # z /\ internalState[After[y]] # EMPTY /\ zoneState[After[y]] = EMPTY
    BY <1>1, <1>2, Ring DEF controlVars
  <2>2. y # z
    BY <2>1, <1>5
  <2>3. CASE Leaving(y)
    BY <2>2, <2>3, <1>4
  <2>4. CASE Standing /\ After[y] \notin Copied
    <3>1. Standing'
      BY <2>4, <1>1, <1>2 DEF Standing, actuators, observerVars
    <3>2. Copied' = Copied
      BY <1>1 DEF Copied, controlVars
    <3> QED
      BY <2>4, <3>1, <3>2
  <2> QED
    BY <2>1, <2>3, <2>4 DEF StaleCopies
<1>e. Commanded'
  BY <1>1 DEF Commanded, controlVars, actuators
<1>f. BrakesClosed'
  BY <1>1 DEF BrakesClosed, actuators, observerVars
<1>g. FreeAhead'
  <2> SUFFICES ASSUME NEW u \in Train, NEW y \in Zone, at[u] = <<y, "stop">>, Released(y)
               PROVE  internalState'[After[y]] = EMPTY
    BY <1>1, <1>6 DEF FreeAhead
  <2> QED
    BY <1>2, Ring DEF FreeAhead
<1> QED
  BY <1>a, <1>b, <1>c, <1>d, <1>e, <1>f, <1>g

\* The panel only tells; and MAINTENANCE it does not tell.
LEMMA SelectModeKeepsBlocks ==
  ASSUME UnderControl, BlockInv, NEW m \in PanelModes, SelectMode(m)
  PROVE  /\ Apart' /\ Seen' /\ Copies' /\ StaleCopies'
         /\ Commanded' /\ BrakesClosed' /\ FreeAhead'
<1> USE DEF BlockInv
<1>1. /\ panel' # MAINTENANCE
      /\ UNCHANGED <<trackVars, controlVars, actuators, observerVars>>
  BY DEF SelectMode, UnderControl
<1>2. Apart' /\ Seen' /\ Copies'
  BY <1>1 DEF Apart, Seen, Copies, Leaving, trackVars, controlVars, observerVars
<1>3. Standing' <=> Standing
  BY <1>1 DEF Standing, trackVars, actuators, observerVars
<1>4. Copied' = Copied
  BY <1>1 DEF Copied, controlVars
<1>5. StaleCopies'
  BY <1>1, <1>3, <1>4 DEF StaleCopies, Leaving, trackVars, controlVars
<1>6. Commanded' /\ BrakesClosed'
  BY <1>1 DEF Commanded, BrakesClosed, trackVars, controlVars, actuators, observerVars
<1>7. FreeAhead'
  <2>1. \A z \in Zone : Released(z)' => Released(z)
    BY <1>1, ReleasedBefore DEF observerVars
  <2> QED
    BY <1>1, <2>1 DEF FreeAhead, trackVars
<1> QED
  BY <1>2, <1>5, <1>6, <1>7

-----------------------------------------------------------------------------
\* The control thread does not move trains.
LEMMA TrackAsBefore ==
  ASSUME BlockInv, UNCHANGED trackVars
  PROVE  Apart' /\ Seen'
  BY DEF BlockInv, trackVars, Apart, Seen, Leaving

\* A copy is true where it was taken last.
LEMMA UpdateStateKeepsBlocks ==
  ASSUME BlockInv, NEW z \in Zone, UpdateState(z)
  PROVE  /\ Apart' /\ Seen' /\ Copies' /\ StaleCopies'
         /\ Commanded' /\ BrakesClosed' /\ FreeAhead'
<1> USE DEF BlockInv
<1>1. /\ pc = z
      /\ zoneState' = [zoneState EXCEPT ![z] = internalState[z]]
      /\ UNCHANGED <<trackVars, panel, mode, release_go, actuators, observerVars>>
  BY DEF UpdateState
<1>2. zoneState'[z] = internalState[z] /\ \A y \in Zone : y # z => zoneState'[y] = zoneState[y]
  BY <1>1 DEF TypeInv, TypeOK
<1>3. pc' \in Zone \cup {"poll"} /\ Copied' = Copied \cup {z}
  <2>1. pc' = NextStep(pc)
    BY DEF UpdateState
  <2>2. CASE z = "liftHill"
    BY <1>1, <2>1, <2>2, Steps DEF Copied, Zone
  <2>3. CASE z = "ride"
    BY <1>1, <2>1, <2>3, Steps DEF Copied, Zone
  <2>4. CASE z = "preStation"
    BY <1>1, <2>1, <2>4, Steps DEF Copied, Zone
  <2>5. CASE z = "station"
    BY <1>1, <2>1, <2>5, Steps DEF Copied, Zone
  <2> QED
    BY <2>2, <2>3, <2>4, <2>5 DEF Zone
<1>4. Copies'
  BY <1>1, <1>2 DEF Copies, trackVars, observerVars
<1>5. StaleCopies'
  <2>1. Standing' <=> Standing
    BY <1>1 DEF Standing, trackVars, actuators, observerVars
  <2> QED
    BY <1>1, <1>2, <1>3, <2>1, Ring DEF StaleCopies, Leaving, trackVars
<1>6. Commanded'
  BY <1>1, <1>3 DEF Commanded, Driving, Zone
<1>7. BrakesClosed'
  BY <1>1 DEF BrakesClosed, trackVars, actuators, observerVars
<1>8. FreeAhead'
  <2>1. \A y \in Zone : Released(y)' => Released(y)
    BY <1>1, ReleasedBefore DEF observerVars
  <2> QED
    BY <1>1, <2>1 DEF FreeAhead, trackVars
<1> QED
  BY <1>1, <1>4, <1>5, <1>6, <1>7, <1>8, TrackAsBefore

LEMMA PollKeepsBlocks ==
  ASSUME BlockInv, Poll
  PROVE  /\ Apart' /\ Seen' /\ Copies' /\ StaleCopies'
         /\ Commanded' /\ BrakesClosed' /\ FreeAhead'
<1> USE DEF BlockInv
<1>1. /\ pc = "poll"
      /\ pc' \in {"driveHill", "liftHill"}
      /\ UNCHANGED <<trackVars, panel, zoneState, release_go, actuators, observerVars>>
  BY Steps DEF Poll
<1>2. Copied = Zone
  BY <1>1 DEF Copied
<1>3. Copies'
  BY <1>1 DEF Copies, trackVars, observerVars
<1>4. StaleCopies'
  BY <1>1, <1>2, Ring DEF StaleCopies, Leaving, trackVars
<1>5. Commanded'
  BY <1>1 DEF Commanded, Driving
<1>6. BrakesClosed'
  BY <1>1 DEF BrakesClosed, trackVars, actuators, observerVars
<1>7. FreeAhead'
  <2>1. \A y \in Zone : Released(y)' => Released(y)
    BY <1>1, ReleasedBefore DEF observerVars
  <2> QED
    BY <1>1, <2>1 DEF FreeAhead, trackVars
<1> QED
  BY <1>1, <1>3, <1>4, <1>5, <1>6, <1>7, TrackAsBefore

\* When all zones are copied, a train at a stop sensor may believe the copy
\* of the zone ahead.
LEMMA CopyAheadIsTrue ==
  ASSUME BlockInv, pc \notin Zone, NEW t \in Train, NEW z \in Zone,
         at[t] = <<z, "stop">>, zoneState[After[z]] = EMPTY
  PROVE  internalState[After[z]] = EMPTY
<1>1. Copied = Zone
  BY DEF Copied, Zone
<1>2. ~Leaving(z)
  BY DEF BlockInv, Seen, Leaving
<1> QED
  BY <1>1, <1>2, Ring DEF BlockInv, StaleCopies

\* A command changes neither the copies nor what they are copies of.
LEMMA CopiesAsBefore ==
  ASSUME BlockInv, pc \in Driving, pc' \in Driving,
         UNCHANGED <<trackVars, zoneState, unseen>>
  PROVE  Apart' /\ Seen' /\ Copies' /\ StaleCopies'
<1>1. Copied = Zone /\ Copied' = Zone
  BY DEF Copied, Driving
<1>2. Copies'
  BY DEF BlockInv, Copies, trackVars
<1>3. StaleCopies'
  BY <1>1, Ring DEF BlockInv, StaleCopies, Leaving, trackVars
<1> QED
  BY <1>2, <1>3, TrackAsBefore

LEMMA DriveHillKeepsBlocks ==
  ASSUME BlockInv, DriveHill
  PROVE  /\ Apart' /\ Seen' /\ Copies' /\ StaleCopies'
         /\ Commanded' /\ BrakesClosed' /\ FreeAhead'
<1>1. /\ pc = "driveHill" /\ pc' = "driveStation"
      /\ hillPower' = Apply(HillCommand(mode, zoneState, release_go), hillPower)
      /\ UNCHANGED <<trackVars, panel, zoneState, mode, release_go,
                     stationPower, preStationServo, rideServo, unseen>>
  BY Steps DEF DriveHill, Send, BlockInv, Commanded, observerVars
<1>2. mode \in RunMode
  BY <1>1 DEF BlockInv, TypeInv, Driving
<1>3. zoneState["liftHill"] = ENTERED /\ hillPower' # OFF => zoneState["ride"] = EMPTY
  BY <1>1, <1>2, States DEF RunMode, HillCommand, HillRuns, Apply, NoCommand, OFF, HILL_RUN,
                    AUTOMATIC, MANUAL, STOP, RETURN_TO_SAFE
<1>4. Commanded'
  BY <1>1, <1>3 DEF Commanded, BlockInv, Driving
<1>5. BrakesClosed'
  BY <1>1 DEF BlockInv, BrakesClosed, trackVars
<1>6. FreeAhead'
  <2> SUFFICES ASSUME NEW t \in Train, NEW z \in Zone, at[t] = <<z, "stop">>, Released(z)'
               PROVE  internalState[After[z]] = EMPTY
    BY <1>1 DEF FreeAhead, trackVars
  <2>1. CASE z = "liftHill"
    <3>1. hillPower' # OFF /\ z \notin unseen
      BY <2>1, <1>1 DEF Released
    <3>2. zoneState[z] = ENTERED
      BY <3>1, States DEF BlockInv, Copies, Seen
    <3>3. zoneState[After[z]] = EMPTY
      BY <2>1, <3>1, <3>2, <1>3 DEF After
    <3> QED
      BY <3>3, <1>1, CopyAheadIsTrue DEF Zone
  <2>2. CASE z # "liftHill"
    <3>1. Released(z)
      BY <2>2, <1>1 DEF Released, Zone
    <3> QED
      BY <3>1 DEF BlockInv, FreeAhead
  <2> QED
    BY <2>1, <2>2
<1> QED
  BY <1>1, <1>4, <1>5, <1>6, CopiesAsBefore DEF Driving

\* The question moves nothing.
LEMMA AskOperatorKeepsBlocks ==
  ASSUME BlockInv, AskOperator
  PROVE  /\ Apart' /\ Seen' /\ Copies' /\ StaleCopies'
         /\ Commanded' /\ BrakesClosed' /\ FreeAhead'
<1>1. /\ pc = "driveStation" /\ pc' = "dispatch"
      /\ UNCHANGED <<trackVars, panel, zoneState, mode, actuators, unseen>>
  BY DEF AskOperator
<1>2. Commanded'
  BY <1>1 DEF Commanded, BlockInv, Driving, actuators
<1>3. BrakesClosed'
  BY <1>1 DEF BlockInv, BrakesClosed, trackVars, actuators
<1>4. FreeAhead'
  BY <1>1, ReleasedBefore DEF BlockInv, FreeAhead, trackVars
<1> QED
  BY <1>1, <1>2, <1>3, <1>4, CopiesAsBefore DEF Driving

LEMMA DriveStationKeepsBlocks ==
  ASSUME BlockInv, DriveStation
  PROVE  /\ Apart' /\ Seen' /\ Copies' /\ StaleCopies'
         /\ Commanded' /\ BrakesClosed' /\ FreeAhead'
<1>1. /\ pc \in {"driveStation", "dispatch"} /\ pc' = "drivePreStation"
      /\ stationPower' = Apply(StationCommand(mode, zoneState, release_go'), stationPower)
      /\ UNCHANGED <<trackVars, panel, zoneState, mode,
                     hillPower, preStationServo, rideServo, unseen>>
  BY Steps DEF DriveStation, Send, BlockInv, Commanded, observerVars
<1>2. mode \in RunMode
  BY <1>1 DEF BlockInv, TypeInv, Driving
<1>3. zoneState["station"] = ENTERED /\ stationPower' # OFF => zoneState["liftHill"] = EMPTY
  BY <1>1, <1>2, States DEF RunMode, StationCommand, StationRuns, MayDispatch, Apply,
                    NoCommand, OFF, STATION_RUN, AUTOMATIC, MANUAL, STOP, RETURN_TO_SAFE
<1>4. Commanded'
  BY <1>1, <1>3 DEF Commanded, BlockInv, Driving
<1>5. BrakesClosed'
  BY <1>1 DEF BlockInv, BrakesClosed, trackVars
<1>6. FreeAhead'
  <2> SUFFICES ASSUME NEW t \in Train, NEW z \in Zone, at[t] = <<z, "stop">>, Released(z)'
               PROVE  internalState[After[z]] = EMPTY
    BY <1>1 DEF FreeAhead, trackVars
  <2>1. CASE z = "station"
    <3>1. stationPower' # OFF /\ z \notin unseen
      BY <2>1, <1>1 DEF Released
    <3>2. zoneState[z] = ENTERED
      BY <3>1, States DEF BlockInv, Copies, Seen
    <3>3. zoneState[After[z]] = EMPTY
      BY <2>1, <3>1, <3>2, <1>3 DEF After
    <3> QED
      BY <3>3, <1>1, CopyAheadIsTrue DEF Zone
  <2>2. CASE z # "station"
    <3>1. Released(z)
      BY <2>2, <1>1 DEF Released, Zone
    <3> QED
      BY <3>1 DEF BlockInv, FreeAhead
  <2> QED
    BY <2>1, <2>2
<1> QED
  BY <1>1, <1>4, <1>5, <1>6, CopiesAsBefore DEF Driving

\* What the two brakes are told: an order to open needs a free zone ahead,
\* and the order that leaves the brake as it is, a train at the stop sensor.
LEMMA BrakeOpens ==
  ASSUME mode \in RunMode, NEW zone, NEW ahead, NEW go, NEW halt,
         go # halt, halt # NoCommand, go # NoCommand
  PROVE  LET cmd == BrakeCommand(mode, zone, ahead, go, halt)
         IN  /\ zone # ENTERED => cmd = halt
             /\ cmd = go => zone = ENTERED /\ ahead = EMPTY
             /\ cmd \in {go, halt, NoCommand}
  BY DEF BrakeCommand

LEMMA DrivePreStationKeepsBlocks ==
  ASSUME BlockInv, DrivePreStation
  PROVE  /\ Apart' /\ Seen' /\ Copies' /\ StaleCopies'
         /\ Commanded' /\ BrakesClosed' /\ FreeAhead'
<1>1. /\ pc = "drivePreStation" /\ pc' = "driveRide"
      /\ preStationServo' = Apply(PreStationCommand(mode, zoneState), preStationServo)
      /\ UNCHANGED <<trackVars, panel, zoneState, mode, release_go,
                     hillPower, stationPower, rideServo, unseen>>
  BY Steps DEF DrivePreStation, Send, BlockInv, Commanded, observerVars
<1>2. mode \in RunMode
  BY <1>1 DEF BlockInv, TypeInv, Driving
<1>3. /\ zoneState["preStation"] # ENTERED => preStationServo' = PRESTATION_STOP
      /\ preStationServo' = PRESTATION_GO =>
           \/ zoneState["station"] = EMPTY
           \/ preStationServo = PRESTATION_GO
  BY <1>1, <1>2, BrakeOpens
     DEF PreStationCommand, Apply, NoCommand, PRESTATION_STOP, PRESTATION_GO
<1>4. Commanded'
  BY <1>1, <1>3 DEF Commanded, BlockInv, Driving
<1>5. BrakesClosed'
  <2>1. ASSUME NEW t \in Train, at[t] = <<"preStation", "entry">>, "preStation" \notin unseen
        PROVE  preStationServo' = PRESTATION_STOP
    <3>1. internalState["preStation"] = ENTERING
      BY <2>1 DEF BlockInv, Seen, Zone
    <3>2. zoneState["preStation"] = ENTERING
      BY <2>1, <3>1, States DEF BlockInv, Copies, Zone
    <3> QED
      BY <3>2, <1>3, States
  <2> QED
    BY <2>1, <1>1 DEF BlockInv, BrakesClosed, trackVars
<1>6. FreeAhead'
  <2> SUFFICES ASSUME NEW t \in Train, NEW z \in Zone, at[t] = <<z, "stop">>, Released(z)'
               PROVE  internalState[After[z]] = EMPTY
    BY <1>1 DEF FreeAhead, trackVars
  <2>1. CASE z = "preStation" /\ zoneState["station"] = EMPTY
    <3>1. zoneState[After[z]] = EMPTY
      BY <2>1 DEF After
    <3> QED
      BY <3>1, <1>1, CopyAheadIsTrue DEF Zone
  <2>2. CASE z # "preStation" \/ zoneState["station"] # EMPTY
    <3>1. Released(z)
      BY <2>2, <1>1, <1>3 DEF Released, Zone
    <3> QED
      BY <3>1 DEF BlockInv, FreeAhead
  <2> QED
    BY <2>1, <2>2
<1> QED
  BY <1>1, <1>4, <1>5, <1>6, CopiesAsBefore DEF Driving

\* The round ends: what it has copied correctly it has also acted on.
LEMMA DriveRideKeepsBlocks ==
  ASSUME BlockInv, DriveRide
  PROVE  /\ Apart' /\ Seen' /\ Copies' /\ StaleCopies'
         /\ Commanded' /\ BrakesClosed' /\ FreeAhead'
<1>1. /\ pc = "driveRide" /\ pc' = "liftHill"
      /\ rideServo' = Apply(RideCommand(mode, zoneState), rideServo)
      /\ unseen' = {z \in unseen : zoneState[z] # internalState[z]}
      /\ UNCHANGED <<trackVars, panel, zoneState, mode, release_go,
                     hillPower, stationPower, preStationServo>>
  BY DEF DriveRide, Send, BlockInv, Commanded
<1>2. mode \in RunMode
  BY <1>1 DEF BlockInv, TypeInv, Driving
<1>3. /\ zoneState["ride"] # ENTERED => rideServo' = RIDE_STOP
      /\ rideServo' = RIDE_GO => zoneState["preStation"] = EMPTY \/ rideServo = RIDE_GO
  BY <1>1, <1>2, BrakeOpens DEF RideCommand, Apply, NoCommand, RIDE_STOP, RIDE_GO
<1>4. Copies'
  BY <1>1 DEF BlockInv, Copies, trackVars
<1>5. ASSUME NEW z \in Zone, z \notin unseen', internalState[z] # EMPTY
      PROVE  zoneState[z] = internalState[z]
  BY <1>5, <1>1 DEF BlockInv, Copies
<1>6. StaleCopies'
  <2>1. Copied = Zone
    BY <1>1 DEF Copied
  <2> QED
    BY <1>1, <2>1, Ring DEF BlockInv, StaleCopies, Leaving, trackVars
<1>7. Commanded'
  BY <1>1 DEF Commanded, BlockInv, Driving
<1>8. BrakesClosed'
  <2>1. ASSUME NEW t \in Train, at[t] = <<"preStation", "entry">>, "preStation" \notin unseen'
        PROVE  preStationServo = PRESTATION_STOP
    <3>1. internalState["preStation"] = ENTERING
      BY <2>1 DEF BlockInv, Seen, Zone
    <3>2. zoneState["preStation"] = ENTERING
      BY <2>1, <3>1, <1>5, States DEF Zone
    <3> QED
      BY <3>2, <1>1, States DEF BlockInv, Commanded
  <2>2. ASSUME NEW t \in Train, at[t] = <<"ride", "entry">>, "ride" \notin unseen'
        PROVE  rideServo' = RIDE_STOP
    <3>1. internalState["ride"] = ENTERING
      BY <2>2 DEF BlockInv, Seen, Zone
    <3>2. zoneState["ride"] = ENTERING
      BY <2>2, <3>1, <1>5, States DEF Zone
    <3> QED
      BY <3>2, <1>3, States
  <2> QED
    BY <2>1, <2>2, <1>1 DEF BrakesClosed, trackVars
<1>9. FreeAhead'
  <2> SUFFICES ASSUME NEW t \in Train, NEW z \in Zone, at[t] = <<z, "stop">>, Released(z)'
               PROVE  internalState[After[z]] = EMPTY
    BY <1>1 DEF FreeAhead, trackVars
  <2>1. internalState[z] = ENTERED
    BY DEF BlockInv, Seen
  <2>2. z \notin unseen' => zoneState[z] = ENTERED
    BY <2>1, <1>5, States
  <2>3. CASE zoneState[After[z]] = EMPTY
    BY <2>3, <1>1, CopyAheadIsTrue DEF Zone
  <2>4. CASE z = "liftHill"
    <3>1. hillPower # OFF /\ z \notin unseen'
      BY <2>4, <1>1 DEF Released
    <3>2. zoneState[After[z]] = EMPTY
      BY <2>2, <2>4, <3>1, <1>1 DEF BlockInv, Commanded, Driving, After
    <3> QED
      BY <3>2, <2>3
  <2>5. CASE z = "station"
    <3>1. stationPower # OFF /\ z \notin unseen'
      BY <2>5, <1>1 DEF Released
    <3>2. zoneState[After[z]] = EMPTY
      BY <2>2, <2>5, <3>1, <1>1 DEF BlockInv, Commanded, After
    <3> QED
      BY <3>2, <2>3
  <2>6. CASE z = "preStation"
    <3>1. Released(z)
      BY <2>6, <1>1 DEF Released
    <3> QED
      BY <3>1 DEF BlockInv, FreeAhead
  <2>7. CASE z = "ride" /\ zoneState["preStation"] # EMPTY
    <3>1. Released(z)
      BY <2>7, <1>3 DEF Released
    <3> QED
      BY <3>1 DEF BlockInv, FreeAhead
  <2> QED
    BY <2>3, <2>4, <2>5, <2>6, <2>7 DEF Zone, After
<1> QED
  BY <1>1, <1>4, <1>6, <1>7, <1>8, <1>9, TrackAsBefore

LEMMA StutterKeepsBlocks ==
  ASSUME BlockInv, UNCHANGED vars
  PROVE  /\ Apart' /\ Seen' /\ Copies' /\ StaleCopies'
         /\ Commanded' /\ BrakesClosed' /\ FreeAhead'
<1> USE DEF BlockInv
<1>1. UNCHANGED <<at, internalState, fallLast, panel, zoneState, mode, release_go, pc,
                  hillPower, stationPower, preStationServo, rideServo, unseen>>
  BY DEF vars, trackVars, controlVars, actuators, observerVars
<1>2. Copied' = Copied /\ (Standing' <=> Standing)
  BY <1>1 DEF Copied, Standing
<1>3. \A y \in Zone : (Released(y)' <=> Released(y)) /\ (Leaving(y)' <=> Leaving(y))
  BY <1>1 DEF Released, Leaving, Zone
<1> QED
  BY <1>1, <1>2, <1>3 DEF Apart, Seen, Copies, StaleCopies, Commanded, BrakesClosed, FreeAhead

LEMMA BlocksAreInductive ==
  ASSUME UnderControl
  PROVE  Spec => []BlockInv
<1>1. ASSUME BlockInv, [Next]_vars
      PROVE  BlockInv'
  <2>1. TypeInv'
    BY <1>1, TypesAreKept DEF BlockInv
  <2>2. ~Maintenance
    BY <1>1 DEF Maintenance, BlockInv, Commanded
  <2>3. /\ Apart' /\ Seen' /\ Copies' /\ StaleCopies'
        /\ Commanded' /\ BrakesClosed' /\ FreeAhead'
    <3>1. CASE UNCHANGED vars
      BY <3>1, <1>1, StutterKeepsBlocks
    <3>2. CASE Trains
      BY <3>2, <1>1, EnterZoneKeepsBlocks, CoverStopKeepsBlocks, LeaveZoneKeepsBlocks
         DEF Trains
    <3>3. CASE \E z \in Zone : QuietTimeEnds(z)
      BY <3>3, <1>1, QuietTimeKeepsBlocks
    <3>4. CASE \E m \in PanelModes : SelectMode(m)
      BY <3>4, <1>1, SelectModeKeepsBlocks
    <3>5. CASE Control
      BY <3>5, <1>1, UpdateStateKeepsBlocks, PollKeepsBlocks, DriveHillKeepsBlocks,
         AskOperatorKeepsBlocks, DriveStationKeepsBlocks, DrivePreStationKeepsBlocks, DriveRideKeepsBlocks
         DEF Control
    <3> QED
      BY <1>1, <2>2, <3>1, <3>2, <3>3, <3>4, <3>5 DEF Next
  <2> QED
    BY <2>1, <2>3 DEF BlockInv
<1> QED
  BY <1>1, InitBlocks, PTL DEF Spec

(***************************************************************************)
(* The block rule: whatever the mode, the copies and the order in which    *)
(* trains, quiet times and rounds interleave, controlRollerCoaster lets no *)
(* train into a zone that another one has not left, for any number of      *)
(* trains.                                                                 *)
(***************************************************************************)
THEOREM BlockRule ==
  ASSUME UnderControl
  PROVE  Spec => []OneTrainPerBlock
<1>1. ASSUME BlockInv
      PROVE  OneTrainPerBlock
  <2> SUFFICES ASSUME NEW z \in Zone
               PROVE  Cardinality(TrainsIn(z)) <= 1
    BY DEF OneTrainPerBlock
  <2>1. \A t, u \in TrainsIn(z) : t = u
    BY <1>1 DEF BlockInv, Apart, TrainsIn, Block
  <2>2. CASE TrainsIn(z) = {}
    BY <2>2, FS_EmptySet
  <2>3. CASE TrainsIn(z) # {}
    <3>1. PICK t : TrainsIn(z) = {t}
      BY <2>1, <2>3
    <3>2. Cardinality({t}) = 1
      BY FS_Singleton
    <3> QED
      BY <3>1, <3>2
  <2> QED
    BY <2>2, <2>3
<1> QED
  BY <1>1, BlocksAreInductive, PTL

-----------------------------------------------------------------------------
(***************************************************************************)
(* The ride is a block system.                                             *)
(***************************************************************************)
\* The blocks that train t keeps others out of, the refinement mapping.
Held(t) == IF at[t][2] = "gap" THEN {at[t][1], After[at[t][1]]} ELSE {at[t][1]}

LEMMA InitHolds ==
  ASSUME Init
  PROVE  Blocks!Init
<1>1. /\ at \in [Train -> Zone \X {"entry"}]
      /\ \A t, u \in Train : t # u => at[t] # at[u]
  BY DEF Init
<1>2. \A t \in Train : Held(t) = {at[t][1]} /\ at[t][1] \in Zone
  BY <1>1 DEF Held
<1>3. \A t, u \in Train : t # u => Held(t) # Held(u)
  BY <1>1, <1>2
<1> QED
  BY <1>2, <1>3 DEF Blocks!Init, Held

\* A train that leaves its zone claims the next, and one that reaches it
\* releases the old.
LEMMA StepsHold ==
  ASSUME BlockInv, [Next]_vars
  PROVE  \/ Blocks!Next
         \/ UNCHANGED [t \in Train |-> Held(t)]
<1>1. ASSUME NEW t \in Train, LeaveZone(t)
      PROVE  Blocks!Claim(t)
  <2>1. PICK z \in Zone :
          /\ at[t] = <<z, "stop">> /\ Released(z)
          /\ at' = [at EXCEPT ![t] = <<z, "gap">>]
    BY <1>1 DEF LeaveZone
  <2>2. internalState[After[z]] = EMPTY
    BY <2>1 DEF BlockInv, FreeAhead
  <2>3. ASSUME NEW u \in Train
        PROVE  After[z] \notin Held(u)
    <3>1. at[u][1] # After[z]
      BY <2>2, HeldZone, Ring DEF BlockInv
    <3>2. CASE at[u][2] = "gap"
      <4>1. u # t
        BY <2>1, <3>2
      <4>2. at[u][1] # z /\ at[u][1] \in Zone
        BY <4>1, <2>1 DEF BlockInv, Apart, TypeInv, TypeOK, Position
      <4> QED
        BY <3>1, <3>2, <4>2, Ring DEF Held
    <3> QED
      BY <3>1, <3>2 DEF Held
  <2>4. Held(t) = {z} /\ Held(t)' = {z, After[z]}
    BY <2>1 DEF Held, BlockInv, TypeInv, TypeOK
  <2>5. \A u \in Train : u # t => Held(u)' = Held(u)
    BY <2>1 DEF Held, BlockInv, TypeInv, TypeOK
  <2>6. [u \in Train |-> Held(u)]'
          = [[u \in Train |-> Held(u)] EXCEPT ![t] = {z, After[z]}]
    BY <2>4, <2>5
  <2> QED
    BY <2>3, <2>4, <2>6 DEF Blocks!Claim, Blocks!Free, Held
<1>2. ASSUME NEW t \in Train, EnterZone(t)
      PROVE  Blocks!Release(t)
  <2>1. PICK z \in Zone :
          /\ at[t] = <<z, "gap">>
          /\ at' = [at EXCEPT ![t] = <<After[z], "entry">>]
    BY <1>2 DEF EnterZone
  <2>2. Held(t) = {z, After[z]} /\ Held(t)' = {After[z]}
    BY <2>1 DEF Held, BlockInv, TypeInv, TypeOK
  <2>3. \A u \in Train : u # t => Held(u)' = Held(u)
    BY <2>1 DEF Held, BlockInv, TypeInv, TypeOK
  <2>4. [u \in Train |-> Held(u)]'
          = [[u \in Train |-> Held(u)] EXCEPT ![t] = {After[z]}]
    BY <2>2, <2>3
  <2> QED
    BY <2>2, <2>4 DEF Blocks!Release, Held
<1>3. ASSUME NEW t \in Train, CoverStop(t)
      PROVE  \A u \in Train : Held(u)' = Held(u)
  <2>1. at \in [Train -> Position]
    BY DEF BlockInv, TypeInv, TypeOK
  <2>2. \A u \in Train : u # t => at'[u] = at[u]
    BY <1>3, <2>1 DEF CoverStop
  <2>3. at[t][2] = "entry" /\ at'[t][2] = "stop" /\ at'[t][1] = at[t][1]
    BY <1>3, <2>1 DEF CoverStop
  <2> QED
    BY <2>2, <2>3 DEF Held
<1>4. ASSUME UNCHANGED at
      PROVE  \A u \in Train : Held(u)' = Held(u)
  BY <1>4 DEF Held
<1>5. \/ \E t \in Train : LeaveZone(t) \/ EnterZone(t) \/ CoverStop(t)
      \/ UNCHANGED at
  BY DEF Next, Trains, QuietTimeEnds, SelectMode, Maintenance, Control, UpdateState, Poll,
         DriveHill, AskOperator, DriveStation, DrivePreStation, DriveRide, vars, trackVars
<1> QED
  BY <1>1, <1>2, <1>3, <1>4, <1>5 DEF Blocks!Next

(***************************************************************************)
(* The controller implements the block system of BlockSystem: a train is   *)
(* let go only into a block that nobody holds at that moment.              *)
(***************************************************************************)
THEOREM RideIsABlockSystem ==
  ASSUME UnderControl
  PROVE  Spec => ImplementsBlockSystem
<1>1. Init => Blocks!Init
  BY InitHolds
<1>2. BlockInv /\ [Next]_vars =>
        [Blocks!Next]_[t \in Train |->
           IF at[t][2] = "gap" THEN {at[t][1], After[at[t][1]]} ELSE {at[t][1]}]
  BY StepsHold DEF Held
<1> QED
  BY <1>1, <1>2, BlocksAreInductive, PTL DEF Spec, ImplementsBlockSystem, Blocks!Spec

-----------------------------------------------------------------------------
(***************************************************************************)
(* The monitors get the track they rely on.                                *)
(***************************************************************************)
\* A step of TrackZone, for the zone z.
TrackStep(z) ==
  \/ /\ Where(z) = "away" /\ internalState[z] = EMPTY
     /\ Where(z)' = "entry" /\ internalState'[z] = ENTERING
  \/ Where(z) = "entry" /\ Where(z)' = "stop" /\ internalState'[z] = ENTERED
  \/ Where(z) = "stop" /\ Where(z)' = "away" /\ internalState'[z] = internalState[z]
  \/ /\ Where(z) = "away" /\ internalState[z] = ENTERED
     /\ Where(z)' = Where(z) /\ internalState'[z] = EMPTY
  \/ Where(z)' = Where(z) /\ internalState'[z] = internalState[z]

\* Who does not come to a sensor of the zone or leave one is not seen there.
LEMMA ElsewhereNothingMoves ==
  ASSUME NEW z \in Zone, NEW t \in Train,
         \A u \in Train : u # t => at'[u] = at[u],
         at[t] \notin {<<z, "entry">>, <<z, "stop">>},
         at'[t] \notin {<<z, "entry">>, <<z, "stop">>}
  PROVE  Where(z)' = Where(z)
<1>1. \A part \in {"entry", "stop"} :
        (\E u \in Train : at'[u] = <<z, part>>) <=> (\E u \in Train : at[u] = <<z, part>>)
  OBVIOUS
<1> QED
  BY <1>1 DEF Where

LEMMA TrainsMoveAsTheZoneSees ==
  ASSUME BlockInv, NEW t \in Train, EnterZone(t) \/ CoverStop(t) \/ LeaveZone(t),
         NEW z \in Zone
  PROVE  TrackStep(z)
<1> USE DEF BlockInv, TypeInv, TypeOK
<1>1. CASE EnterZone(t)
  <2>1. PICK y \in Zone :
          /\ at[t] = <<y, "gap">>
          /\ at' = [at EXCEPT ![t] = <<After[y], "entry">>]
          /\ internalState' = [internalState EXCEPT
               ![After[y]] = IF @ = EMPTY THEN ENTERING ELSE @]
    BY <1>1 DEF EnterZone
  <2>2. internalState[After[y]] = EMPTY /\ After[y] \in Zone
    BY <2>1, Ring DEF Seen
  <2>3. CASE z = After[y]
    <3>1. \A u \in Train : at[u] # <<z, "entry">> /\ at[u] # <<z, "stop">>
      BY <2>2, <2>3, HeldZone
    <3>2. Where(z) = "away" /\ Where(z)' = "entry"
      BY <2>1, <2>3, <3>1 DEF Where
    <3>3. internalState'[z] = ENTERING
      BY <2>1, <2>2, <2>3
    <3> QED
      BY <2>2, <2>3, <3>2, <3>3 DEF TrackStep
  <2>4. CASE z # After[y]
    <3>1. Where(z)' = Where(z)
      BY <2>1, <2>4, ElsewhereNothingMoves
    <3> QED
      BY <2>1, <2>2, <2>4, <3>1 DEF TrackStep
  <2> QED
    BY <2>3, <2>4
<1>2. CASE CoverStop(t)
  <2>1. PICK y \in Zone :
          /\ at[t] = <<y, "entry">>
          /\ at' = [at EXCEPT ![t] = <<y, "stop">>]
          /\ internalState' = [internalState EXCEPT
               ![y] = IF @ = ENTERING THEN ENTERED ELSE @]
    BY <1>2 DEF CoverStop
  <2>2. internalState[y] = ENTERING
    BY <2>1 DEF Seen
  <2>3. CASE z = y
    <3>1. \A u \in Train : u # t => at[u][1] # z
      BY <2>1, <2>3 DEF Apart
    <3>2. Where(z) = "entry" /\ Where(z)' = "stop"
      BY <2>1, <2>3, <3>1 DEF Where
    <3> QED
      BY <2>1, <2>2, <2>3, <3>2 DEF TrackStep
  <2>4. CASE z # y
    <3>1. Where(z)' = Where(z)
      BY <2>1, <2>4, ElsewhereNothingMoves
    <3> QED
      BY <2>1, <2>4, <3>1 DEF TrackStep
  <2> QED
    BY <2>3, <2>4
<1>3. CASE LeaveZone(t)
  <2>1. PICK y \in Zone :
          /\ at[t] = <<y, "stop">>
          /\ at' = [at EXCEPT ![t] = <<y, "gap">>]
          /\ internalState' = internalState
    BY <1>3 DEF LeaveZone
  <2>2. CASE z = y
    <3>1. \A u \in Train : u # t => at[u][1] # z
      BY <2>1, <2>2 DEF Apart
    <3>2. Where(z) = "stop" /\ Where(z)' = "away"
      BY <2>1, <2>2, <3>1 DEF Where
    <3> QED
      BY <2>1, <3>2 DEF TrackStep
  <2>3. CASE z # y
    <3>1. Where(z)' = Where(z)
      BY <2>1, <2>3, ElsewhereNothingMoves
    <3> QED
      BY <2>1, <3>1 DEF TrackStep
  <2> QED
    BY <2>2, <2>3
<1> QED
  BY <1>1, <1>2, <1>3

LEMMA TrackSteps ==
  ASSUME UnderControl, BlockInv, [Next]_vars, NEW z \in Zone
  PROVE  TrackStep(z)
<1>1. CASE Trains
  BY <1>1, TrainsMoveAsTheZoneSees DEF Trains
<1>2. ASSUME NEW y \in Zone, QuietTimeEnds(y)
      PROVE  TrackStep(z)
  <2>1. /\ Leaving(y)
        /\ \A t \in Train : at[t] # <<y, "gap">>
        /\ internalState' = [internalState EXCEPT ![y] = EMPTY]
        /\ at' = at
    BY <1>2 DEF QuietTimeEnds, UnderControl
  <2>2. Where(z)' = Where(z)
    BY <2>1 DEF Where
  <2>3. CASE z = y
    <3>1. \A t \in Train : at[t] # <<y, "entry">> /\ at[t] # <<y, "stop">>
      BY <2>1, States DEF BlockInv, Seen, Leaving
    <3>2. Where(z) = "away"
      BY <2>3, <3>1 DEF Where
    <3> QED
      BY <2>1, <2>2, <2>3, <3>2 DEF TrackStep, Leaving, BlockInv, TypeInv, TypeOK
  <2>4. CASE z # y
    BY <2>1, <2>2, <2>4 DEF TrackStep, BlockInv, TypeInv, TypeOK
  <2> QED
    BY <2>3, <2>4
<1>3. CASE UNCHANGED trackVars
  <2>1. Where(z)' = Where(z)
    BY <1>3 DEF Where, trackVars
  <2> QED
    BY <1>3, <2>1 DEF TrackStep, trackVars
<1>4. \/ Trains
      \/ \E y \in Zone : QuietTimeEnds(y)
      \/ UNCHANGED trackVars
  BY DEF Next, SelectMode, Maintenance, Control, UpdateState, Poll,
         DriveHill, AskOperator, DriveStation, DrivePreStation, DriveRide, vars
<1> QED
  BY <1>1, <1>2, <1>3, <1>4

LEMMA InitTrack ==
  ASSUME Init, NEW z \in Zone
  PROVE  /\ Where(z) \in {"away", "entry"}
         /\ internalState[z] = IF Where(z) = "entry" THEN ENTERING ELSE EMPTY
  BY DEF Init, Where

(***************************************************************************)
(* The control thread lets no train come to a zone whose monitor, which    *)
(* knows only its own two sensors, still takes it for occupied: on such a  *)
(* track the four monitors of brakeZone.cpp work.                          *)
(***************************************************************************)
THEOREM MonitorsGetTheirTrack ==
  ASSUME UnderControl
  PROVE  Spec => ImplementsTrackZones
<1>1. Init => LiftHill!Init /\ Ride!Init /\ PreStation!Init /\ Station!Init
  BY InitTrack DEF Zone, LiftHill!Init, Ride!Init, PreStation!Init, Station!Init,
       EMPTY, ENTERING, LiftHill!EMPTY, Ride!EMPTY, PreStation!EMPTY, Station!EMPTY,
       LiftHill!ENTERING, Ride!ENTERING, PreStation!ENTERING, Station!ENTERING
<1>2. BlockInv /\ [Next]_vars => [LiftHill!Next]_<<Where("liftHill"), internalState["liftHill"]>>
  <2> SUFFICES ASSUME BlockInv, [Next]_vars
               PROVE  [LiftHill!Next]_<<Where("liftHill"), internalState["liftHill"]>>
    OBVIOUS
  <2>1. TrackStep("liftHill")
    BY TrackSteps DEF Zone
  <2> QED
    BY <2>1 DEF TrackStep, LiftHill!Next, LiftHill!EnterZone, LiftHill!CoverStop,
                LiftHill!LeaveZone, LiftHill!QuietTimeEnds,
                EMPTY, ENTERING, ENTERED, LiftHill!EMPTY, LiftHill!ENTERING, LiftHill!ENTERED
<1>3. BlockInv /\ [Next]_vars => [Ride!Next]_<<Where("ride"), internalState["ride"]>>
  <2> SUFFICES ASSUME BlockInv, [Next]_vars
               PROVE  [Ride!Next]_<<Where("ride"), internalState["ride"]>>
    OBVIOUS
  <2>1. TrackStep("ride")
    BY TrackSteps DEF Zone
  <2> QED
    BY <2>1 DEF TrackStep, Ride!Next, Ride!EnterZone, Ride!CoverStop,
                Ride!LeaveZone, Ride!QuietTimeEnds,
                EMPTY, ENTERING, ENTERED, Ride!EMPTY, Ride!ENTERING, Ride!ENTERED
<1>4. BlockInv /\ [Next]_vars =>
        [PreStation!Next]_<<Where("preStation"), internalState["preStation"]>>
  <2> SUFFICES ASSUME BlockInv, [Next]_vars
               PROVE  [PreStation!Next]_<<Where("preStation"), internalState["preStation"]>>
    OBVIOUS
  <2>1. TrackStep("preStation")
    BY TrackSteps DEF Zone
  <2> QED
    BY <2>1 DEF TrackStep, PreStation!Next, PreStation!EnterZone, PreStation!CoverStop,
                PreStation!LeaveZone, PreStation!QuietTimeEnds,
                EMPTY, ENTERING, ENTERED, PreStation!EMPTY, PreStation!ENTERING, PreStation!ENTERED
<1>5. BlockInv /\ [Next]_vars => [Station!Next]_<<Where("station"), internalState["station"]>>
  <2> SUFFICES ASSUME BlockInv, [Next]_vars
               PROVE  [Station!Next]_<<Where("station"), internalState["station"]>>
    OBVIOUS
  <2>1. TrackStep("station")
    BY TrackSteps DEF Zone
  <2> QED
    BY <2>1 DEF TrackStep, Station!Next, Station!EnterZone, Station!CoverStop,
                Station!LeaveZone, Station!QuietTimeEnds,
                EMPTY, ENTERING, ENTERED, Station!EMPTY, Station!ENTERING, Station!ENTERED
<1> QED
  BY <1>1, <1>2, <1>3, <1>4, <1>5, BlocksAreInductive, PTL
     DEF Spec, ImplementsTrackZones, LiftHill!Spec, Ride!Spec, PreStation!Spec, Station!Spec,
         LiftHill!vars, Ride!vars, PreStation!vars, Station!vars

-----------------------------------------------------------------------------
(***************************************************************************)
(* The permission to dispatch.                                             *)
(***************************************************************************)
\* No train is on its way out of the zone.
Arrived(z) == \A t \in Train : at[t] # <<z, "gap">>

\* A zone is left towards another one, and given up before that one is.
Order == \A z \in Zone : Leaving(z) /\ Arrived(z) => internalState[After[z]] # EMPTY

\* The permission is for the train that stands in the station, and is taken
\* back when a round has seen that train on the lift hill.
Permission ==
  /\ release_go = 1 => internalState["station"] = ENTERED
  /\ Leaving("station") => "station" \notin unseen
  /\ Leaving("station") /\ Arrived("station") /\ "liftHill" \notin unseen => release_go = 0
  /\ pc \in {"poll", "driveHill", "driveStation"} /\ MayDispatch(zoneState) =>
       internalState["station"] = ENTERED
  /\ pc \in {"drivePreStation", "driveRide"} /\ zoneState["station"] = ENTERED
       /\ zoneState["liftHill"] # EMPTY => release_go = 0

Confirmed == release_go = 1 => confirmed

PermitInv == BlockInv /\ Order /\ Permission /\ Confirmed

LEMMA InitPermit ==
  ASSUME UnderControl, Init
  PROVE  PermitInv
<1>1. BlockInv
  BY InitBlocks
<1>2. Order /\ Permission
  BY DEF Init, Order, Permission, Leaving
<1>3. Confirmed
  BY DEF Init, Confirmed
<1> QED
  BY <1>1, <1>2, <1>3 DEF PermitInv

\* Trains: who comes to a zone finds it EMPTY.
LEMMA TrainsKeepPermit ==
  ASSUME PermitInv, NEW t \in Train, EnterZone(t) \/ CoverStop(t) \/ LeaveZone(t)
  PROVE  Order' /\ Permission' /\ Confirmed'
<1> USE DEF PermitInv, BlockInv, TypeInv, TypeOK
<1>1. CASE EnterZone(t)
  <2>1. PICK z \in Zone :
          /\ at[t] = <<z, "gap">>
          /\ at' = [at EXCEPT ![t] = <<After[z], "entry">>]
          /\ internalState' = [internalState EXCEPT
               ![After[z]] = IF @ = EMPTY THEN ENTERING ELSE @]
          /\ fallLast' = fallLast \ {After[z]}
          /\ unseen' = unseen \cup {After[z]}
          /\ UNCHANGED <<release_go, zoneState, pc, confirmed>>
    BY <1>1 DEF EnterZone, controlVars
  <2> DEFINE n == After[z]
  <2>2. internalState[n] = EMPTY /\ n \in Zone
    BY <2>1, Ring DEF Seen
  <2>3. internalState'[n] = ENTERING /\ \A y \in Zone : y # n => internalState'[y] = internalState[y]
    BY <2>1, <2>2
  <2>4. \A y \in Zone : Leaving(y)' => y # n /\ Leaving(y)
    BY <2>1, <2>3, States DEF Leaving
  <2>5. \A y \in Zone : y # z /\ Arrived(y)' => Arrived(y)
    BY <2>1 DEF Arrived
  <2>6. Order'
    <3> SUFFICES ASSUME NEW y \in Zone, Leaving(y)', Arrived(y)'
                 PROVE  internalState'[After[y]] # EMPTY
      BY DEF Order
    <3>1. CASE y = z
      BY <3>1, <2>3, States
    <3>2. CASE y # z
      BY <3>2, <2>3, <2>4, <2>5, Ring DEF Order
    <3> QED
      BY <3>1, <3>2
  <2>7. Permission'
    <3>1. release_go' = 1 => internalState'["station"] = ENTERED
      BY <2>1, <2>2, <2>3, States DEF Permission, Zone
    <3>2. Leaving("station")' => "station" \notin unseen'
      BY <2>1, <2>4 DEF Permission, Zone
    <3>3. Leaving("station")' /\ Arrived("station")' /\ "liftHill" \notin unseen' =>
            release_go' = 0
      <4>1. n # "liftHill" => z # "station"
        BY DEF After
      <4> QED
        BY <4>1, <2>1, <2>4, <2>5 DEF Permission, Zone
    <3>4. internalState["station"] = ENTERED => internalState'["station"] = ENTERED
      BY <2>2, <2>3, States DEF Zone
    <3> QED
      BY <2>1, <3>1, <3>2, <3>3, <3>4 DEF Permission, MayDispatch
  <2>8. Confirmed'
    BY <2>1, Zenon DEF Confirmed
  <2> QED
    BY <2>6, <2>7, <2>8
<1>2. CASE CoverStop(t)
  <2>1. PICK z \in Zone :
          /\ at[t] = <<z, "entry">>
          /\ at' = [at EXCEPT ![t] = <<z, "stop">>]
          /\ internalState' = [internalState EXCEPT
               ![z] = IF @ = ENTERING THEN ENTERED ELSE @]
          /\ fallLast' = fallLast \ {z}
          /\ unseen' = unseen \cup {z}
          /\ confirmed' = (confirmed /\ z # "station")
          /\ UNCHANGED <<release_go, zoneState, pc>>
    BY <1>2 DEF CoverStop, controlVars
  <2>2. internalState[z] = ENTERING
    BY <2>1 DEF Seen
  <2>3. internalState'[z] = ENTERED /\ \A y \in Zone : y # z => internalState'[y] = internalState[y]
    BY <2>1, <2>2
  <2>4. \A y \in Zone : Leaving(y)' => y # z /\ Leaving(y)
    BY <2>1, <2>3, States DEF Leaving
  <2>5. \A y \in Zone : Arrived(y)' => Arrived(y)
    BY <2>1 DEF Arrived
  <2>6. Order'
    BY <2>2, <2>3, <2>4, <2>5, States, Ring DEF Order
  <2>7. Permission'
    <3>1. internalState["station"] = ENTERED => internalState'["station"] = ENTERED
      BY <2>2, <2>3, States DEF Zone
    <3>2. Leaving("station")' => "station" \notin unseen'
      BY <2>1, <2>4 DEF Permission, Zone
    <3>3. Leaving("station")' /\ Arrived("station")' /\ "liftHill" \notin unseen' =>
            release_go' = 0
      BY <2>1, <2>4, <2>5 DEF Permission, Zone
    <3> QED
      BY <2>1, <3>1, <3>2, <3>3 DEF Permission, MayDispatch
  <2>8. release_go = 1 => z # "station"
    BY <2>2, States DEF Permission
  <2>9. Confirmed'
    BY <2>1, <2>8, Zenon DEF Confirmed
  <2> QED
    BY <2>6, <2>7, <2>9
<1>3. CASE LeaveZone(t)
  <2>1. PICK z \in Zone :
          /\ at[t] = <<z, "stop">>
          /\ Released(z)
          /\ at' = [at EXCEPT ![t] = <<z, "gap">>]
          /\ fallLast' = IF internalState[z] = ENTERED THEN fallLast \cup {z} ELSE fallLast
          /\ UNCHANGED <<internalState, release_go, zoneState, pc, unseen, confirmed>>
    BY <1>3 DEF LeaveZone, controlVars, observerVars
  <2>2. \A y \in Zone : Arrived(y)' => y # z /\ Arrived(y)
    BY <2>1 DEF Arrived
  <2>3. \A y \in Zone : y # z /\ Leaving(y)' => Leaving(y)
    BY <2>1 DEF Leaving
  <2>4. Order'
    BY <2>1, <2>2, <2>3 DEF Order
  <2>5. Permission'
    <3>1. Leaving("station")' => "station" \notin unseen'
      <4>1. CASE z = "station"
        BY <4>1, <2>1 DEF Released
      <4>2. CASE z # "station"
        BY <4>2, <2>1, <2>3 DEF Permission, Zone
      <4> QED
        BY <4>1, <4>2
    <3>2. Leaving("station")' /\ Arrived("station")' /\ "liftHill" \notin unseen' =>
            release_go' = 0
      BY <2>1, <2>2, <2>3 DEF Permission, Zone
    <3> QED
      BY <2>1, <3>1, <3>2 DEF Permission, MayDispatch
  <2>6. Confirmed'
    BY <2>1, Zenon DEF Confirmed
  <2> QED
    BY <2>4, <2>5, <2>6
<1> QED
  BY <1>1, <1>2, <1>3

\* When the quiet time of the station ends, the permission is gone.
LEMMA QuietTimeKeepsPermit ==
  ASSUME UnderControl, PermitInv, NEW z \in Zone, QuietTimeEnds(z)
  PROVE  Order' /\ Permission' /\ Confirmed'
<1> USE DEF PermitInv, BlockInv, TypeInv, TypeOK
<1>1. /\ Leaving(z)
      /\ \A b \in Zone : After[b] = z => ~Leaving(b)
      /\ Arrived(z) /\ After[z] \notin unseen
      /\ internalState' = [internalState EXCEPT ![z] = EMPTY]
      /\ UNCHANGED <<at, fallLast, release_go, zoneState, pc, unseen, confirmed>>
  BY DEF QuietTimeEnds, UnderControl, Arrived, controlVars, observerVars
<1>2. internalState'[z] = EMPTY /\ \A y \in Zone : y # z => internalState'[y] = internalState[y]
  BY <1>1
<1>3. \A y \in Zone : Leaving(y)' => y # z /\ Leaving(y)
  BY <1>1, <1>2, States DEF Leaving
<1>4. \A y \in Zone : Arrived(y)' <=> Arrived(y)
  BY <1>1 DEF Arrived
<1>5. Order'
  BY <1>1, <1>2, <1>3, <1>4, Ring DEF Order
<1>6. Permission'
  <2>1. CASE z = "station"
    <3>1. release_go = 0
      BY <1>1, <2>1 DEF Permission, After
    <3>2. zoneState["liftHill"] # EMPTY
      <4>1. internalState["liftHill"] # EMPTY
        BY <1>1, <2>1 DEF Order, After
      <4> QED
        BY <4>1, <1>1, <2>1 DEF Copies, After, Zone
    <3> QED
      BY <1>1, <1>3, <2>1, <3>1, <3>2 DEF Permission, MayDispatch
  <2>2. CASE z # "station"
    BY <1>1, <1>2, <1>3, <1>4, <2>2 DEF Permission, MayDispatch, Zone
  <2> QED
    BY <2>1, <2>2
<1>7. Confirmed'
  BY <1>1, Zenon DEF Confirmed
<1> QED
  BY <1>5, <1>6, <1>7

\* A round that sends a train off has copied the station after its train
\* stood in it; one that sees it on the lift hill takes the permission back.
LEMMA ControlKeepsPermit ==
  ASSUME PermitInv, Control
  PROVE  Order' /\ Permission' /\ Confirmed'
<1> USE DEF PermitInv, BlockInv, TypeInv, TypeOK
<1>1. UNCHANGED <<at, internalState, fallLast>>
  BY DEF Control, UpdateState, Poll, DriveHill, AskOperator, DriveStation,
         DrivePreStation, DriveRide, trackVars
<1>2. \A y \in Zone : (Leaving(y)' <=> Leaving(y)) /\ (Arrived(y)' <=> Arrived(y))
  BY <1>1 DEF Leaving, Arrived
<1>3. Order'
  BY <1>1, <1>2 DEF Order
<1>4. ASSUME NEW z \in Zone, UpdateState(z)
      PROVE  Permission' /\ Confirmed'
  <2>1. /\ pc = z /\ pc' = NextStep(z)
        /\ zoneState' = [zoneState EXCEPT ![z] = internalState[z]]
        /\ UNCHANGED <<release_go, unseen>>
    BY <1>4 DEF UpdateState, observerVars
  <2>2. pc' \notin {"driveHill", "driveStation", "drivePreStation", "driveRide"}
    BY <2>1, Steps DEF Zone
  <2>3. pc' = "poll" => z = "station"
    BY <2>1, Steps DEF Zone
  <2>4. pc' = "poll" => zoneState'["station"] = internalState["station"]
    BY <2>1, <2>3 DEF Zone
  <2>5. Permission'
    BY <1>1, <1>2, <2>1, <2>2, <2>4 DEF Permission, MayDispatch, Zone
  <2>6. Confirmed'
    BY <1>4, <2>1, Zenon DEF Confirmed, UpdateState, observerVars
  <2> QED
    BY <2>5, <2>6
<1>5. CASE Poll
  <2>1. /\ pc = "poll" /\ pc' \in {"driveHill", "liftHill"}
        /\ UNCHANGED <<zoneState, release_go, unseen>>
    BY <1>5, Steps DEF Poll, observerVars
  <2>2. Permission'
    BY <1>1, <1>2, <2>1 DEF Permission, MayDispatch, Zone
  <2>3. Confirmed'
    BY <1>5, Zenon DEF Confirmed, Poll, observerVars
  <2> QED
    BY <1>3, <2>2, <2>3
<1>6. CASE DriveHill
  <2>1. /\ pc = "driveHill" /\ pc' = "driveStation"
        /\ UNCHANGED <<zoneState, release_go, unseen>>
    BY <1>6, Steps DEF DriveHill, observerVars
  <2>2. Permission'
    BY <1>1, <1>2, <2>1 DEF Permission, MayDispatch, Zone
  <2>3. Confirmed'
    BY <1>6, Zenon DEF Confirmed, DriveHill, observerVars
  <2> QED
    BY <1>3, <2>2, <2>3
<1>7. CASE AskOperator
  <2>1. /\ pc = "driveStation" /\ pc' = "dispatch"
        /\ AsksOperator(mode, zoneState, release_go)
        /\ release_go' \in {0, 1}
        /\ confirmed' = (confirmed \/ release_go' = 1)
        /\ UNCHANGED <<zoneState, unseen>>
    BY <1>7 DEF AskOperator
  <2>2. internalState["station"] = ENTERED
    BY <2>1 DEF Permission, AsksOperator
  <2>3. ~(Leaving("station") /\ Arrived("station") /\ "liftHill" \notin unseen)
    <3> SUFFICES ASSUME Leaving("station"), Arrived("station"), "liftHill" \notin unseen
                 PROVE  FALSE
      OBVIOUS
    <3>1. internalState["liftHill"] # EMPTY
      BY DEF Order, Zone, After
    <3>2. zoneState["liftHill"] # EMPTY
      BY <3>1 DEF Copies, Zone
    <3> QED
      BY <2>1, <3>2 DEF AsksOperator, MayDispatch
  <2>4. Permission'
    BY <1>1, <1>2, <2>1, <2>2, <2>3 DEF Permission, MayDispatch, Zone
  <2>5. Confirmed'
    BY <2>1, Zenon DEF Confirmed
  <2> QED
    BY <1>3, <2>4, <2>5
<1>8. CASE DriveStation
  <2>1. /\ pc \in {"driveStation", "dispatch"} /\ pc' = "drivePreStation"
        /\ release_go' = ReleaseGo(mode, zoneState, release_go)
        /\ UNCHANGED <<zoneState, unseen>>
    BY <1>8, Steps DEF DriveStation, observerVars
  <2>2. mode \in RunMode
    BY <2>1 DEF Driving
  <2>3. release_go' \in {0, release_go}
    BY <2>1, <2>2 DEF ReleaseGo, RunMode, AUTOMATIC, MANUAL, STOP, RETURN_TO_SAFE
  <2>4. zoneState["station"] = ENTERED /\ zoneState["liftHill"] # EMPTY => release_go' = 0
    BY <2>1, <2>2 DEF ReleaseGo, RunMode, AUTOMATIC, MANUAL, STOP, RETURN_TO_SAFE
  <2>5. Permission'
    BY <1>1, <1>2, <2>1, <2>3, <2>4 DEF Permission, MayDispatch, Zone
  <2>6. confirmed' = confirmed
    BY <1>8, Zenon DEF DriveStation, observerVars
  <2>7. release_go' = 1 => release_go = 1
    BY <2>3
  <2>8. Confirmed'
    BY <2>6, <2>7, Zenon DEF Confirmed
  <2> QED
    BY <1>3, <2>5, <2>8
<1>9. CASE DrivePreStation
  <2>1. /\ pc = "drivePreStation" /\ pc' = "driveRide"
        /\ UNCHANGED <<zoneState, release_go, unseen>>
    BY <1>9, Steps DEF DrivePreStation, observerVars
  <2>2. Permission'
    BY <1>1, <1>2, <2>1 DEF Permission, MayDispatch, Zone
  <2>3. Confirmed'
    BY <1>9, Zenon DEF Confirmed, DrivePreStation, observerVars
  <2> QED
    BY <1>3, <2>2, <2>3
<1>10. CASE DriveRide
  <2>1. /\ pc = "driveRide" /\ pc' = "liftHill"
        /\ unseen' = {z \in unseen : zoneState[z] # internalState[z]}
        /\ UNCHANGED <<zoneState, release_go>>
    BY <1>10 DEF DriveRide
  <2>2. Leaving("station") /\ Arrived("station") /\ "liftHill" \notin unseen' => release_go = 0
    <3> SUFFICES ASSUME Leaving("station"), Arrived("station"), "liftHill" \notin unseen',
                        "liftHill" \in unseen
                 PROVE  release_go = 0
      BY DEF Permission
    <3>1. zoneState["liftHill"] # EMPTY
      BY <2>1 DEF Order, Zone, After
    <3>2. zoneState["station"] = ENTERED
      BY States DEF Permission, Copies, Leaving, Zone
    <3> QED
      BY <2>1, <3>1, <3>2 DEF Permission
  <2>3. Permission'
    BY <1>1, <1>2, <2>1, <2>2 DEF Permission, MayDispatch, Zone
  <2>4. Confirmed'
    BY <1>10, Zenon DEF Confirmed, DriveRide
  <2> QED
    BY <1>3, <2>3, <2>4
<1> QED
  BY <1>3, <1>4, <1>5, <1>6, <1>7, <1>8, <1>9, <1>10 DEF Control

LEMMA PermitIsInductive ==
  ASSUME UnderControl
  PROVE  Spec => []PermitInv
<1>1. ASSUME BlockInv', PermitInv, [Next]_vars
      PROVE  PermitInv'
  <2>1. ~Maintenance
    BY <1>1 DEF Maintenance, PermitInv, BlockInv, Commanded
  <2>2. CASE UNCHANGED <<at, internalState, fallLast, zoneState, pc, release_go, unseen, confirmed>>
    <3>1. \A y \in Zone : (Leaving(y)' <=> Leaving(y)) /\ (Arrived(y)' <=> Arrived(y))
      BY <2>2 DEF Leaving, Arrived
    <3>2. Order' /\ Permission'
      BY <1>1, <2>2, <3>1 DEF PermitInv, Order, Permission, MayDispatch, Zone
    <3>3. Confirmed'
      BY <1>1, <2>2, Zenon DEF PermitInv, Confirmed
    <3> QED
      BY <1>1, <3>2, <3>3 DEF PermitInv
  <2>3. CASE Trains
    BY <1>1, <2>3, TrainsKeepPermit DEF Trains, PermitInv
  <2>4. CASE \E z \in Zone : QuietTimeEnds(z)
    BY <1>1, <2>4, QuietTimeKeepsPermit DEF PermitInv
  <2>5. CASE \E m \in PanelModes : SelectMode(m)
    BY <2>2, <2>5 DEF SelectMode, trackVars, controlVars, observerVars
  <2>6. CASE Control
    BY <1>1, <2>6, ControlKeepsPermit DEF PermitInv
  <2>7. CASE UNCHANGED vars
    BY <2>2, <2>7 DEF vars, trackVars, controlVars, observerVars
  <2> QED
    BY <1>1, <2>1, <2>3, <2>4, <2>5, <2>6, <2>7 DEF Next, PermitInv
<1> QED
  BY <1>1, InitPermit, BlocksAreInductive, PTL DEF Spec

(***************************************************************************)
(* In MANUAL the station sends a train off only after the firmware has     *)
(* answered for this very train: release_go outlives rounds and modes, but *)
(* never the train it was given for.                                       *)
(***************************************************************************)
THEOREM DispatchIsConfirmed ==
  ASSUME UnderControl
  PROVE  Spec => DispatchConfirmed
<1>1. PermitInv' => (release_go' = 1 => confirmed')
  BY Zenon DEF PermitInv, Confirmed
<1>2. PermitInv' =>
        [ /\ pc \in {"driveStation", "dispatch"} /\ mode = MANUAL
          /\ MayDispatch(zoneState)
          /\ release_go' = 1
          => confirmed' ]_vars
  BY <1>1, Zenon
<1> QED
  BY <1>2, PermitIsInductive, PTL DEF DispatchConfirmed
=============================================================================
