---------------------------- MODULE StateMachine ----------------------------
(***************************************************************************)
(* The enumerations of stateMachine.h, shared by the Pi controller and the *)
(* AtMega firmware.  They keep their numbers: a mode travels over the      *)
(* serial line as one byte, and 0 is AUTOMATIC.                            *)
(***************************************************************************)

\* Modes of the ride.
AUTOMATIC      == 0
MANUAL         == 1
MAINTENANCE    == 2
STOP           == 3
RETURN_TO_SAFE == 4

Mode == {AUTOMATIC, MANUAL, MAINTENANCE, STOP, RETURN_TO_SAFE}

\* States of a brake zone.
ENTERING == 0
ENTERED  == 1
EMPTY    == 2

ZoneState == {ENTERING, ENTERED, EMPTY}
=============================================================================
