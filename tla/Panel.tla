-------------------------------- MODULE Panel --------------------------------
(***************************************************************************)
(* readState of the firmware: the mode as a function of its two latches    *)
(* and of the switches on the panel.                                       *)
(***************************************************************************)
EXTENDS StateMachine

\* Mutant of ModeOf: the checkout is not waited for.
ModeOfSwitches(returnToSafe, recoverEstop, ignition, estop, selector) ==
  CASE recoverEstop = 1 -> STOP
    [] OTHER -> IF ~ignition THEN RETURN_TO_SAFE ELSE IF estop THEN STOP ELSE selector

\* The two latches come before the switches.
ModeOf(returnToSafe, recoverEstop, ignition, estop, selector) ==
  CASE returnToSafe = 1 -> RETURN_TO_SAFE
    [] returnToSafe = 0 /\ recoverEstop = 1 -> STOP
    [] returnToSafe = 0 /\ recoverEstop = 0 ->
         IF ~ignition THEN RETURN_TO_SAFE ELSE IF estop THEN STOP ELSE selector

\* What reading the switches does to the latches.
SafeLatch(returnToSafe, recoverEstop, ignition) ==
  IF recoverEstop = 0 /\ ~ignition THEN 1 ELSE returnToSafe

EstopLatch(returnToSafe, recoverEstop, ignition, estop) ==
  IF returnToSafe = 0 /\ ignition /\ estop THEN 1 ELSE recoverEstop

Selector == {AUTOMATIC, MANUAL, MAINTENANCE}
=============================================================================
