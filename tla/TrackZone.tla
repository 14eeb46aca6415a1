------------------------------ MODULE TrackZone ------------------------------
(***************************************************************************)
(* What a zone of the track promises to the control thread, and what it    *)
(* asks of the trains.  No edges, batches, queues or polls: the state of   *)
(* the zone follows the one train that may be in it.                       *)
(*                                                                         *)
(* Trains have to keep a zone apart: one comes only when the zone has      *)
(* become EMPTY again.  ZoneTrain shows that the monitor of brakeZone.cpp  *)
(* keeps the promise for trains that do, and CoasterBlocks that the        *)
(* control thread lets no train come otherwise.                            *)
(***************************************************************************)
EXTENDS StateMachine

VARIABLES
  where,        \* the train: "away", at the "entry" sensor or at the "stop"
  internalState \* the state of the zone

vars == <<where, internalState>>

\* A train that stood in the zone at power-up would not be seen, one that was
\* rolled over the entry sensor afterwards is.
Init ==
  /\ where \in {"away", "entry"}
  /\ internalState = IF where = "entry" THEN ENTERING ELSE EMPTY

EnterZone ==
  /\ where = "away"
  /\ internalState = EMPTY
  /\ where' = "entry"
  /\ internalState' = ENTERING

CoverStop ==
  /\ where = "entry"
  /\ where' = "stop"
  /\ internalState' = ENTERED

LeaveZone ==
  /\ where = "stop"
  /\ where' = "away"
  /\ UNCHANGED internalState

QuietTimeEnds ==
  /\ where = "away"
  /\ internalState = ENTERED
  /\ internalState' = EMPTY
  /\ UNCHANGED where

Next ==
  \/ EnterZone
  \/ CoverStop
  \/ LeaveZone
  \/ QuietTimeEnds

Spec == Init /\ [][Next]_vars

\* The quiet time of a zone that was left ends; trains come and go as they
\* like.
FairSpec == Spec /\ WF_vars(QuietTimeEnds)
=============================================================================
