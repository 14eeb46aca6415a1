------------------------------ MODULE ZoneTrain ------------------------------
(***************************************************************************)
(* A brake zone and a train that runs through it, again and again, always  *)
(* forwards: away, over the entry sensor, over the stop sensor, away.  A   *)
(* train longer than the distance of the sensors covers both on its way, a *)
(* shorter one disappears between them.  This is the use the zone is made  *)
(* for; the general BrakeZone lets the sensors change in any order.        *)
(*                                                                         *)
(* The train is the physical world, not code.  It may be faster than the   *)
(* monitor, so that the kernel's FIFO overflows, and it may stand anywhere *)
(* in the zone when the controller is started.  A train that keeps apart   *)
(* was not there and comes back only after the zone has become EMPTY: for  *)
(* it the zone implements TrackZone.                                       *)
(***************************************************************************)
EXTENDS BrakeZone, SequencesExt

VARIABLES
  train,   \* where the train is
  crossed, \* it came over the entry sensor since the controller was started
  apart    \* it keeps apart, now and for ever

trackVars == <<train, crossed, apart>>
trainVars == <<vars, trackVars>>

TrainTypeOK ==
  /\ TypeOK
  /\ train \in {"away", "onEntry", "onBoth", "between", "onStop"}
  /\ crossed \in BOOLEAN
  /\ apart \in BOOLEAN

TrainInit ==
  /\ Init
  /\ train \in {"away", "onEntry", "onBoth", "between", "onStop"}
  /\ level = [l \in Line |->
       train = "onBoth" \/ train = (IF l = entry THEN "onEntry" ELSE "onStop")]
  /\ crossed = FALSE
  /\ apart \in BOOLEAN
  /\ apart => train = "away"

-----------------------------------------------------------------------------
\* What handling one edge does to the state of the zone and to fallLast.
Handled(z, e) ==
  CASE e.line = entry ->
         [state    |-> IF e.type = "RISING" /\ z.state = EMPTY
                       THEN ENTERING ELSE z.state,
          fallLast |-> 0]
    [] e = [line |-> stop, type |-> "RISING"] ->
         [state    |-> IF z.state = ENTERING THEN ENTERED ELSE z.state,
          fallLast |-> 0]
    [] OTHER ->
         [z EXCEPT !.fallLast = IF z.state = ENTERED THEN 1 ELSE z.fallLast]

Pending == batch \o [i \in 1 .. Len(fifo) |-> Decode(fifo[i])]

\* The zone as it will be when every edge so far has been handled.
CaughtUp ==
  FoldLeft(Handled, [state |-> internalState, fallLast |-> fallLast], Pending)

-----------------------------------------------------------------------------
Move(from, to, l) ==
  /\ train = from
  /\ SensorChange(l)
  /\ train' = to
  /\ crossed' = (crossed \/ from = "away")
  /\ UNCHANGED apart

Arrive ==
  /\ apart => CaughtUp.state = EMPTY
  /\ Move("away", "onEntry", entry)

Leave == Move("onStop", "away", stop)

Proceed ==
  \/ Move("onEntry", "onBoth", stop)
  \/ Move("onBoth", "onStop", entry)
  \/ Move("onEntry", "between", entry)
  \/ Move("between", "onStop", stop)

TrainNext ==
  \/ Arrive
  \/ Proceed
  \/ Leave
  \/ Monitor /\ UNCHANGED trackVars
  \/ UpdateState /\ UNCHANGED trackVars

TrainSpec == TrainInit /\ [][TrainNext]_trainVars

(***************************************************************************)
(* The two threads never stop: bzNMonitor and controlRollerCoaster loop    *)
(* while "active" is set, and nothing clears it.  Signals do not interrupt *)
(* select() for ever, so waiting edges are read in the end.  The train may *)
(* stop anywhere, as a held one does.                                      *)
(***************************************************************************)
FairSpec ==
  /\ TrainSpec
  /\ WF_trainVars(Monitor /\ UNCHANGED trackVars)
  /\ SF_trainVars(ReadEvents /\ UNCHANGED trackVars)
  /\ WF_trainVars(UpdateState /\ UNCHANGED trackVars)

-----------------------------------------------------------------------------
(***************************************************************************)
(* Once every edge has been handled, a zone with a train in it is never    *)
(* EMPTY, and a train held at the stop sensor is known to be there.  The   *)
(* hazards are the train that comes back within the quiet time of the last *)
(* one, while the zone is about to be given up, and the one that was       *)
(* parked in the zone at power-up, of which the constructor knows nothing: *)
(* whatever its edges do to the EMPTY zone, the next train is seen.        *)
(***************************************************************************)
OccupiedIsSeen ==
  crossed /\ pc # "batch" /\ fifo = <<>> =>
    /\ train # "away" => internalState # EMPTY
    /\ train = "onStop" => internalState = ENTERED

(***************************************************************************)
(* A zone that has been left is offered to the control thread again: its   *)
(* state becomes EMPTY unless the next train is already arriving.  A zone  *)
(* that misses this keeps the previous one blocked for ever.               *)
(***************************************************************************)
LeftBecomesEmpty == train = "away" ~> state = EMPTY \/ train # "away"

(***************************************************************************)
(* A train that stops over the stop sensor is reported ENTERED to the      *)
(* control thread, if it stays there and was not parked there at power-up. *)
(***************************************************************************)
HeldBecomesEntered ==
  crossed /\ train = "onStop" ~> state = ENTERED \/ train # "onStop"

-----------------------------------------------------------------------------
\* A train that does not keep apart is none of the promise's concern.
Abstract == INSTANCE TrackZone WITH
  where         <- CASE ~apart \/ train = "away" -> "away"
                     [] apart /\ train \in {"onEntry", "between"} -> "entry"
                     [] OTHER -> "stop",
  internalState <- IF apart THEN CaughtUp.state ELSE EMPTY

(***************************************************************************)
(* Whatever the order of polls, batches and edges, the monitor's zone is,  *)
(* once caught up, the zone of TrackZone, quiet time included, for a train *)
(* that keeps apart.                                                       *)
(***************************************************************************)
ImplementsTrackZone == Abstract!FairSpec
=============================================================================
