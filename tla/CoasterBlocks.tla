---------------------------- MODULE CoasterBlocks ----------------------------
(***************************************************************************)
(* What the controller with its four zones promises, as two refinements.   *)
(* Towards the operator it is a block system; towards the four monitors it *)
(* is the track they rely on, on which no train enters a zone before it is *)
(* EMPTY again.                                                            *)
(***************************************************************************)
EXTENDS MCCoaster

\* A train holds its zone and, once let go, the one it is on its way to.
Blocks == INSTANCE BlockSystem WITH
  Ring  <- Zone,
  Ahead <- After,
  holds <- [t \in Train |->
              IF at[t][2] = "gap" THEN {at[t][1], After[at[t][1]]} ELSE {at[t][1]}]

\* The zone as its monitor sees it.
Where(z) ==
  CASE \E t \in Train : at[t] = <<z, "entry">> -> "entry"
    [] \E t \in Train : at[t] = <<z, "stop">>  -> "stop"
    [] OTHER                                   -> "away"

LiftHill == INSTANCE TrackZone WITH
  where <- Where("liftHill"), internalState <- internalState["liftHill"]
Ride == INSTANCE TrackZone WITH
  where <- Where("ride"), internalState <- internalState["ride"]
PreStation == INSTANCE TrackZone WITH
  where <- Where("preStation"), internalState <- internalState["preStation"]
Station == INSTANCE TrackZone WITH
  where <- Where("station"), internalState <- internalState["station"]

(***************************************************************************)
(* Every step of the ride is a step of a block system: a train goes only   *)
(* into a block that no other one holds at that moment, whatever the       *)
(* copies, the mode and the brakes have been in between.                   *)
(***************************************************************************)
ImplementsBlockSystem == Blocks!Spec

(***************************************************************************)
(* No train comes to a zone that its monitor has not given up: what the    *)
(* monitor asks of the track the control thread guarantees.                *)
(***************************************************************************)
ImplementsTrackZones ==
  LiftHill!Spec /\ Ride!Spec /\ PreStation!Spec /\ Station!Spec
=============================================================================
